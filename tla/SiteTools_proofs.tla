--------------------------- MODULE SiteTools_proofs ----------------------------
(***************************************************************************)
(* Proofs about the site's tools: the pools a page shows once it is quiet, *)
(* the candles of its chart, the flags that keep it busy, what its rows    *)
(* and its form tell, and the one exit of the bulletproof sender.          *)
(***************************************************************************)
EXTENDS SiteTools, FiniteSetTheorems, TLAPS

-----------------------------------------------------------------------------
(* The hooks that look for pools (PoolContext). *)

Choice == Shows \cup {"ALL"}
Scan == [n : 1..Scans, of : Wallet, live : BOOLEAN, selected : Choice, had : BOOLEAN]
Hook == {"none", "context", "discovery", "derived", "chart"}
CtxRecord ==
    [hook : Hook, wallet : Wallet \cup {"none"}, shown : Shows, selected : Choice,
     loading : BOOLEAN, error : BOOLEAN, scans : SUBSET Scan, due : BOOLEAN, clicks : Nat]
CtxType == ctx \in CtxRecord

\* Only the derived pools clean up the effect a scan belongs to.
StillLive == ctx.hook # "derived" => \A s \in ctx.scans : s.live

\* With no wallet, and no effect that has still to run, nothing is shown.
Disconnected ==
    Context /\ ctx.wallet = "none" /\ ~ctx.due => ctx.shown = "none" /\ ctx.selected = "none"

\* With a wallet, a scan is under way or the demo pools are shown; and a scan
\* knows the selection, or it is one the context never takes back.
Current == ctx.selected \in {"ALL", "demo"} \/ \E s \in ctx.scans : s.selected = ctx.selected
Connected ==
    Context /\ ctx.wallet # "none" /\ ~ctx.due /\ ~ctx.error =>
       Current /\ (ctx.scans # {} \/ ctx.shown = "demo")

ContextInv == CtxType /\ StillLive /\ LoadingMeansScan /\ Disconnected /\ Connected

LEMMA FreshContext ==
    ASSUME NEW h \in Hook, ctx = Fresh(h)
    PROVE  ContextInv
<1>1. CtxType
  BY DEF Fresh, Choice, Shows, CtxType, CtxRecord, Hook
<1> QED
  BY <1>1 DEF ContextInv, Fresh, StillLive, LoadingMeansScan, Disconnected, Connected, Context

\* What a render leaves to the effect: a change of wallet always, and in the
\* context a change of what is shown or selected, or pools a scan has found.
LEMMA RenderedFacts ==
    ASSUME NEW new \in CtxRecord,
           NEW found \in BOOLEAN, ctx' = Rendered(new, found)
    PROVE  /\ CtxType'
           /\ ctx'.hook = new.hook /\ ctx'.wallet = new.wallet /\ ctx'.shown = new.shown
           /\ ctx'.selected = new.selected /\ ctx'.loading = new.loading
           /\ ctx'.error = new.error /\ ctx'.scans = new.scans
           /\ ctx'.due = (\/ new.due \/ new.wallet # ctx.wallet
                          \/ Context /\ (found \/ new.shown # ctx.shown \/ new.selected # ctx.selected))
  BY DEF Rendered, CtxType, CtxRecord, Context

\* The user connects another wallet: the effect has to run.
LEMMA ChangeWalletKeeps ==
    ASSUME ContextInv, NEW w \in Wallet \cup {"none"}, ChangeWallet(w)
    PROVE  ContextInv'
<1> DEFINE new == [ctx EXCEPT !.wallet = w, !.clicks = ctx.clicks + 1]
<1>1. new \in CtxRecord
  <2>1. ctx.clicks + 1 \in Nat
    BY DEF ContextInv, CtxType, CtxRecord
  <2> QED BY <2>1 DEF ContextInv, CtxType, CtxRecord
<1>2. ctx' = Rendered(new, FALSE) /\ w # ctx.wallet
  BY DEF ChangeWallet, ContextInv, CtxType, CtxRecord
<1>3. /\ new.hook = ctx.hook /\ new.wallet = w /\ new.scans = ctx.scans /\ new.loading = ctx.loading
  BY DEF ContextInv, CtxType, CtxRecord
<1> HIDE DEF new
<1>4. CtxType' /\ ctx'.due /\ ctx'.hook = ctx.hook /\ ctx'.scans = ctx.scans /\ ctx'.loading = ctx.loading
  BY <1>1, <1>2, <1>3, RenderedFacts
<1> QED
  BY <1>4 DEF ContextInv, StillLive, LoadingMeansScan, Disconnected, Connected, Context

\* A selection is another one, for which the effect has to run, or nothing new.
LEMMA SelectKeeps ==
    ASSUME ContextInv, NEW s \in Choice, Select(s)
    PROVE  ContextInv'
<1> DEFINE new == [ctx EXCEPT !.selected = s, !.clicks = ctx.clicks + 1]
<1>1. new \in CtxRecord
  <2>1. ctx.clicks + 1 \in Nat
    BY DEF ContextInv, CtxType, CtxRecord
  <2> QED BY <2>1 DEF ContextInv, CtxType, CtxRecord
<1>2. ctx' = Rendered(new, FALSE) /\ Context
  BY DEF Select, ContextInv, CtxType, CtxRecord
<1>3. /\ new.hook = ctx.hook /\ new.wallet = ctx.wallet /\ new.shown = ctx.shown /\ new.selected = s
      /\ new.scans = ctx.scans /\ new.loading = ctx.loading /\ new.error = ctx.error /\ new.due = ctx.due
  BY DEF ContextInv, CtxType, CtxRecord
<1> HIDE DEF new
<1>4. /\ CtxType' /\ ctx'.hook = ctx.hook /\ ctx'.scans = ctx.scans /\ ctx'.loading = ctx.loading
      /\ ctx'.wallet = ctx.wallet /\ ctx'.shown = ctx.shown /\ ctx'.error = ctx.error
      /\ ctx'.selected = s /\ (ctx'.due <=> ctx.due \/ s # ctx.selected)
  BY <1>1, <1>2, <1>3, RenderedFacts DEF ContextInv, CtxType, CtxRecord
<1> QED
  BY <1>4 DEF ContextInv, StillLive, LoadingMeansScan, Disconnected, Connected, Current, Context

\* What a scan is started with.
Begun(n, scans) ==
    scans \cup {[n |-> n, of |-> ctx.wallet, live |-> TRUE,
                 selected |-> ctx.selected, had |-> ctx.shown # "none"]}

\* A scan that starts knows the selection, and takes an error back.
LEMMA BegunKeeps ==
    ASSUME ContextInv, ctx.wallet # "none", NEW n \in 1..Scans, NEW scans \in SUBSET Scan, NEW c \in Nat,
           ctx.hook # "derived" => scans = ctx.scans,
           ctx' = [ctx EXCEPT !.loading = TRUE, !.error = FALSE, !.due = FALSE, !.clicks = c,
                              !.scans = Begun(n, scans)]
    PROVE  ContextInv'
<1> DEFINE new == [n |-> n, of |-> ctx.wallet, live |-> TRUE,
                   selected |-> ctx.selected, had |-> ctx.shown # "none"]
<1>1. new \in Scan /\ new.selected = ctx.selected /\ new.live
  BY DEF ContextInv, CtxType, CtxRecord, Scan
<1>2. Begun(n, scans) = scans \cup {new}
  BY DEF Begun
<1> HIDE DEF new
<1>3. /\ CtxType'
      /\ ctx'.hook = ctx.hook /\ ctx'.wallet = ctx.wallet /\ ctx'.shown = ctx.shown
      /\ ctx'.selected = ctx.selected /\ ctx'.scans = scans \cup {new}
  BY <1>1, <1>2 DEF ContextInv, CtxType, CtxRecord
<1>4. StillLive' /\ LoadingMeansScan' /\ Disconnected'
  BY <1>1, <1>3 DEF ContextInv, StillLive, LoadingMeansScan, Disconnected, Context
<1>5. Connected'
  BY <1>1, <1>3 DEF Connected, Current
<1> QED BY <1>3, <1>4, <1>5 DEF ContextInv

LEMMA CancelledFacts ==
    ASSUME ContextInv
    PROVE  Cancelled \in SUBSET Scan /\ (ctx.hook # "derived" => Cancelled = ctx.scans)
<1>1. \A s \in ctx.scans : s \in Scan /\ [s EXCEPT !.live = FALSE] \in Scan
  BY DEF ContextInv, CtxType, CtxRecord, Scan
<1> QED BY <1>1 DEF Cancelled

\* The effect: nothing is to be shown of no wallet, and a wallet is scanned.
LEMMA EffectKeeps ==
    ASSUME ContextInv, Effect
    PROVE  ContextInv'
<1>1. Cancelled \in SUBSET Scan /\ (ctx.hook # "derived" => Cancelled = ctx.scans)
  BY CancelledFacts
<1>2. CASE ctx.wallet = "none"
  <2> DEFINE new == [ctx EXCEPT !.shown = "none", !.selected = IF Context THEN "none" ELSE @,
                                !.scans = Cancelled, !.due = FALSE]
  <2>1. new \in CtxRecord
    BY ZenonT(60), <1>1 DEF ContextInv, CtxType, CtxRecord, Shows, Choice
  <2>2. ctx' = Rendered(new, FALSE)
    BY <1>2 DEF Effect, Refresh
  <2>3. /\ new.hook = ctx.hook /\ new.wallet = ctx.wallet /\ new.shown = "none"
        /\ Context => new.selected = "none"
        /\ new.scans = Cancelled /\ new.loading = ctx.loading /\ new.due = FALSE
    BY DEF ContextInv, CtxType, CtxRecord
  <2> HIDE DEF new
  <2>4. /\ CtxType' /\ ctx'.hook = ctx.hook /\ ctx'.wallet = ctx.wallet /\ ctx'.shown = "none"
        /\ Context => ctx'.selected = "none"
        /\ ctx'.scans = Cancelled /\ ctx'.loading = ctx.loading
    BY <2>1, <2>2, <2>3, RenderedFacts
  <2> QED
    BY <1>1, <1>2, <2>4 DEF ContextInv, StillLive, LoadingMeansScan, Disconnected, Connected, Context
<1>3. CASE ctx.wallet # "none"
  <2>1. PICK n \in 1..Scans :
          ctx' = [ctx EXCEPT !.loading = TRUE, !.error = FALSE, !.due = FALSE,
                             !.scans = Begun(n, Cancelled)]
    BY Zenon, <1>3 DEF Effect, Refresh, FreeSlots, Begun
  <2>2. ctx' = [ctx EXCEPT !.loading = TRUE, !.error = FALSE, !.due = FALSE, !.clicks = ctx.clicks,
                             !.scans = Begun(n, Cancelled)]
    BY <2>1 DEF ContextInv, CtxType, CtxRecord
  <2>3. ctx.clicks \in Nat
    BY DEF ContextInv, CtxType, CtxRecord
  <2> QED
    BY Zenon, <1>1, <1>3, <2>2, <2>3, BegunKeeps
<1> QED BY <1>2, <1>3

LEMMA RefreshClickedKeeps ==
    ASSUME ContextInv, RefreshClicked
    PROVE  ContextInv'
<1>1. /\ Context /\ ~ctx.due /\ ctx.wallet # "none"
      /\ ctx.clicks + 1 \in Nat /\ ctx.scans \in SUBSET Scan
  BY DEF RefreshClicked, ContextInv, CtxType, CtxRecord
<1>2. PICK n \in 1..Scans :
        ctx' = [ctx EXCEPT !.loading = TRUE, !.error = FALSE, !.clicks = @ + 1, !.scans = Begun(n, ctx.scans)]
  BY Zenon DEF RefreshClicked, FreeSlots, Begun
<1>3. ctx' = [ctx EXCEPT !.loading = TRUE, !.error = FALSE, !.due = FALSE, !.clicks = ctx.clicks + 1,
                         !.scans = Begun(n, ctx.scans)]
  BY <1>1, <1>2 DEF ContextInv, CtxType, CtxRecord
<1> QED BY Zenon, <1>1, <1>3, BegunKeeps

\* What every end of a scan has in common.
LEMMA EndedFacts ==
    ASSUME ContextInv, NEW s \in ctx.scans
    PROVE  /\ Ended(s) \in CtxRecord
           /\ Ended(s).hook = ctx.hook /\ Ended(s).wallet = ctx.wallet /\ Ended(s).shown = ctx.shown
           /\ Ended(s).selected = ctx.selected /\ Ended(s).loading = FALSE
           /\ Ended(s).error = ctx.error /\ Ended(s).scans = ctx.scans \ {s} /\ Ended(s).due = ctx.due
           /\ s \in Scan /\ s.of \in Wallet /\ s.of # "demo" /\ s.of # "none" /\ s.selected \in Choice
  BY ScansAssumption DEF Ended, ContextInv, CtxType, CtxRecord, Scan

\* A scan of the context finds pools of its wallet, and the effect runs again
\* because of that, or it finds none and shows the demo pools: then nothing has
\* to run only if they were shown before, with a selection that stays.
LEMMA ContextFindsKeeps ==
    ASSUME ContextInv, Context, NEW s \in ctx.scans, ContextFinds(s)
    PROVE  ContextInv'
<1>0. PICK pools \in {s.of, "demo"} : \E sel \in Selection(s, pools) :
        ctx' = Rendered([Ended(s) EXCEPT !.shown = pools, !.selected = sel], pools = s.of)
  BY Zenon DEF ContextFinds
<1>1. PICK sel \in Selection(s, pools) :
        ctx' = Rendered([Ended(s) EXCEPT !.shown = pools, !.selected = sel], pools = s.of)
  BY Zenon, <1>0
<1> DEFINE new == [Ended(s) EXCEPT !.shown = pools, !.selected = sel]
<1>2. /\ pools \in Shows
      /\ IF s.selected \in {"ALL", pools} THEN sel = ctx.selected ELSE sel \in {"ALL", pools}
  BY EndedFacts DEF Selection, Shows
<1>3. sel \in Choice
  BY <1>2 DEF Choice, ContextInv, CtxType, CtxRecord
<1>4. /\ new \in CtxRecord
      /\ new.hook = ctx.hook /\ new.wallet = ctx.wallet /\ new.shown = pools /\ new.selected = sel
      /\ new.loading = FALSE /\ new.error = ctx.error /\ new.scans = ctx.scans \ {s} /\ new.due = ctx.due
  BY ZenonT(60), <1>2, <1>3, EndedFacts DEF CtxRecord
<1>5. ctx' = Rendered(new, pools = s.of) /\ (pools = s.of) \in BOOLEAN
  BY <1>1
<1> HIDE DEF new
<1>6. /\ CtxType'
      /\ ctx'.hook = ctx.hook /\ ctx'.wallet = ctx.wallet /\ ctx'.shown = pools /\ ctx'.selected = sel
      /\ ctx'.loading = FALSE /\ ctx'.error = ctx.error /\ ctx'.scans = ctx.scans \ {s}
      /\ ctx'.due <=> ctx.due \/ pools = s.of \/ pools # ctx.shown \/ sel # ctx.selected
  BY <1>4, <1>5, RenderedFacts
<1>7. StillLive' /\ LoadingMeansScan'
  BY <1>6 DEF ContextInv, StillLive, LoadingMeansScan
<1>8. Disconnected'
  BY <1>6, EndedFacts DEF ContextInv, Disconnected, Context
<1>9. Connected'
  <2> SUFFICES ASSUME ctx.wallet # "none", ~ctx'.due, ~ctx.error
               PROVE  Current' /\ ctx'.shown = "demo"
    BY <1>6 DEF Connected
  <2>1. pools = "demo" /\ sel = ctx.selected /\ ~ctx.due /\ Current
    BY <1>6 DEF ContextInv, Connected
  <2>2. CASE ctx.selected \in {"ALL", "demo"}
    BY <1>6, <2>1, <2>2 DEF Current
  <2>3. CASE ctx.selected \notin {"ALL", "demo"}
    <3>1. s.selected # ctx.selected
      BY <1>2, <2>1, <2>3
    <3> QED BY <1>6, <2>1, <2>3, <3>1 DEF Current
  <2> QED BY <1>6, <2>1, <2>2, <2>3
<1> QED BY <1>6, <1>7, <1>8, <1>9 DEF ContextInv

\* It fails: an error is shown, over what was shown before or the demo pools.
LEMMA ContextFailsKeeps ==
    ASSUME ContextInv, Context, NEW s \in ctx.scans, ContextFails(s)
    PROVE  ContextInv'
<1> DEFINE sel == IF s.selected = "none" THEN "demo" ELSE ctx.selected
           kept == [Ended(s) EXCEPT !.error = TRUE]
           demo == [Ended(s) EXCEPT !.error = TRUE, !.shown = "demo",
                                    !.selected = sel]
           new == IF s.had THEN kept ELSE demo
<1>1. /\ kept \in CtxRecord
      /\ kept.hook = ctx.hook /\ kept.wallet = ctx.wallet /\ kept.shown = ctx.shown
      /\ kept.selected = ctx.selected
      /\ kept.loading = FALSE /\ kept.error = TRUE /\ kept.scans = ctx.scans \ {s} /\ kept.due = ctx.due
  BY ZenonT(60), EndedFacts DEF CtxRecord
<1>0. sel \in Choice /\ "demo" \in Shows
  BY DEF ContextInv, CtxType, CtxRecord, Shows, Choice
<1> HIDE DEF sel
<1>2. /\ demo \in CtxRecord
      /\ demo.hook = ctx.hook /\ demo.wallet = ctx.wallet /\ demo.shown = "demo"
      /\ demo.loading = FALSE /\ demo.error = TRUE /\ demo.scans = ctx.scans \ {s} /\ demo.due = ctx.due
  BY ZenonT(60), <1>0, EndedFacts DEF CtxRecord
<1>3. ctx' = Rendered(new, FALSE)
  BY EndedFacts DEF ContextFails, CtxRecord, sel
<1> HIDE DEF kept, demo
<1>4. new \in CtxRecord
  BY <1>1, <1>2
<1>5. /\ CtxType'
      /\ ctx'.hook = ctx.hook /\ ctx'.wallet = ctx.wallet
      /\ \/ ctx'.shown = ctx.shown /\ ctx'.selected = ctx.selected
         \/ ctx'.shown = "demo"
      /\ ctx'.loading = FALSE /\ ctx'.error = TRUE /\ ctx'.scans = ctx.scans \ {s}
      /\ ctx'.due <=> ctx.due \/ ctx'.shown # ctx.shown \/ ctx'.selected # ctx.selected
  BY ZenonT(60), <1>1, <1>2, <1>3, <1>4, RenderedFacts
<1> QED
  BY <1>5 DEF ContextInv, StillLive, LoadingMeansScan, Disconnected, Connected, Context

\* A scan of the other two hooks.
LEMMA HookEndsKeeps ==
    ASSUME ContextInv, ~Context, NEW s \in ctx.scans, HookEnds(s)
    PROVE  ContextInv'
<1>1. CASE s.live
  <2>1. /\ CtxType'
        /\ ctx'.hook = ctx.hook /\ ctx'.loading = FALSE /\ ctx'.scans = ctx.scans \ {s}
    <3>1. CASE ctx' = [Ended(s) EXCEPT !.shown = s.of]
      BY ZenonT(60), <3>1, EndedFacts DEF CtxType, CtxRecord, Shows
    <3>2. CASE ctx' = [Ended(s) EXCEPT !.error = TRUE]
      BY ZenonT(60), <3>2, EndedFacts DEF CtxType, CtxRecord
    <3> QED BY <1>1, <3>1, <3>2 DEF HookEnds
  <2> QED
    BY <2>1 DEF ContextInv, StillLive, LoadingMeansScan, Disconnected, Connected, Context
<1>2. CASE ~s.live
  <2>1. /\ CtxType'
        /\ ctx'.hook = ctx.hook /\ ctx'.scans = ctx.scans \ {s}
    BY <1>2 DEF HookEnds, ContextInv, CtxType, CtxRecord
  <2> QED
    BY <1>2, <2>1 DEF ContextInv, StillLive, LoadingMeansScan, Disconnected, Connected, Context
<1> QED BY <1>1, <1>2

LEMMA ContextStepKeeps == ContextInv /\ ContextStep => ContextInv'
  BY ChangeWalletKeeps, SelectKeeps, RefreshClickedKeeps, EffectKeeps,
     ContextFindsKeeps, ContextFailsKeeps, HookEndsKeeps DEF ContextStep, ScanEnds, Choice

\* A step that is elsewhere.
LEMMA ContextApart == ContextInv /\ UNCHANGED ctx => ContextInv'
  BY DEF ContextInv, CtxType, StillLive, LoadingMeansScan, Disconnected, Connected, Current, Context

LEMMA QuietFollows == ContextInv => QuietMeansSettled
  BY DEF ContextInv, QuietMeansSettled, Disconnected, Connected, Current

-----------------------------------------------------------------------------
(* The chart (ChartBars). *)

\* A finite set of numbers has a greatest and a least member: of the subsets
\* without one, a smallest would lose it with any of its members.
LEMMA GreatestExists ==
    ASSUME NEW S \in SUBSET Nat, IsFiniteSet(S), S # {}
    PROVE  Max(S) \in S /\ \A y \in S : y <= Max(S)
<1> DEFINE Lacks(T) == T # {} /\ \A x \in T : \E y \in T : ~(x >= y)
           Lacking == {T \in SUBSET S : Lacks(T)}
<1>1. SUFFICES ASSUME Lacks(S)
               PROVE  FALSE
  BY DEF Max
<1>2. S \in Lacking /\ Lacking \subseteq SUBSET S
  BY <1>1
<1>3. PICK T \in Lacking : \A U \in Lacking : <<U, T>> \notin StrictSubsetOrdering(S)
  <2> HIDE DEF Lacking
  <2>1. FiniteSubsetsOf(S) = SUBSET S
    BY FS_FiniteSubsetsOfFinite
  <2>2. IsWellFoundedOn(StrictSubsetOrdering(S), SUBSET S)
    BY <2>1, FS_StrictSubsetOrderingWellFounded
  <2> QED BY <1>2, <2>2, WFMin
<1>4. PICK x \in T : TRUE
  OBVIOUS
<1>5. T \ {x} \notin Lacking
  BY <1>3, <1>4 DEF StrictSubsetOrdering
<1>6. CASE T = {x}
  BY <1>6
<1>7. CASE T # {x}
  <2>1. PICK m \in T \ {x} : \A y \in T \ {x} : m >= y
    BY <1>4, <1>5, <1>7
  <2>2. CASE m >= x
    BY <2>1, <2>2
  <2>3. CASE x >= m
    BY <2>1, <2>3
  <2> QED BY <2>1, <2>2, <2>3
<1> QED BY <1>6, <1>7

LEMMA LeastExists ==
    ASSUME NEW S \in SUBSET Nat, IsFiniteSet(S), S # {}
    PROVE  Min(S) \in S /\ \A y \in S : Min(S) <= y
<1> DEFINE Lacks(T) == T # {} /\ \A x \in T : \E y \in T : ~(x =< y)
           Lacking == {T \in SUBSET S : Lacks(T)}
<1>1. SUFFICES ASSUME Lacks(S)
               PROVE  FALSE
  BY DEF Min
<1>2. S \in Lacking /\ Lacking \subseteq SUBSET S
  BY <1>1
<1>3. PICK T \in Lacking : \A U \in Lacking : <<U, T>> \notin StrictSubsetOrdering(S)
  <2> HIDE DEF Lacking
  <2>1. FiniteSubsetsOf(S) = SUBSET S
    BY FS_FiniteSubsetsOfFinite
  <2>2. IsWellFoundedOn(StrictSubsetOrdering(S), SUBSET S)
    BY <2>1, FS_StrictSubsetOrderingWellFounded
  <2> QED BY <1>2, <2>2, WFMin
<1>4. PICK x \in T : TRUE
  OBVIOUS
<1>5. T \ {x} \notin Lacking
  BY <1>3, <1>4 DEF StrictSubsetOrdering
<1>6. CASE T = {x}
  BY <1>6
<1>7. CASE T # {x}
  <2>1. PICK m \in T \ {x} : \A y \in T \ {x} : m =< y
    BY <1>4, <1>5, <1>7
  <2>2. CASE m =< x
    BY <2>1, <2>2
  <2>3. CASE x =< m
    BY <2>1, <2>3
  <2> QED BY <2>1, <2>2, <2>3
<1> QED BY <1>6, <1>7

BarFields == {"time", "open", "high", "low", "close", "of"}
Bar(bar, t) ==
    /\ DOMAIN bar = BarFields
    /\ {bar.open, bar.high, bar.low, bar.close} \subseteq Nat
    /\ bar.low <= bar.open /\ bar.low <= bar.close /\ bar.open <= bar.high /\ bar.close <= bar.high
    /\ bar.of = {t}

ChartFields ==
    {"open", "token", "interval", "unit", "bars", "asks", "dev", "user", "loading", "marks", "moves"}
Ask == [n : 1..2, token : Token, interval : Interval, unit : {1, Supply}]
ChartInv ==
    /\ DOMAIN chart = ChartFields
    /\ chart.token \in Token \cup {"none"} /\ chart.unit \in {1, Supply}
    /\ chart.bars = [t \in DOMAIN chart.bars |-> chart.bars[t]] /\ DOMAIN chart.bars \subseteq Token
    /\ \A t \in DOMAIN chart.bars : Bar(chart.bars[t], t)
    /\ chart.asks \subseteq Ask
    /\ DeadButtonsMeanLoad

LEMMA UnitIsNatural == {1, Supply} \subseteq Nat
  BY ChartAssumption

\* The prices of the trades that are drawn in one candle: some numbers, with the
\* last of them.
LEMMA PriceFacts ==
    ASSUME NEW m \in Message, NEW token, NEW interval, NEW unit \in {1, Supply},
           NEW drawn, drawn = Drawn(m, token), drawn # {},
           NEW first, first = InFirst(m, drawn, interval)
    PROVE  /\ PricesAt(m, first, unit) \in SUBSET Nat /\ IsFiniteSet(PricesAt(m, first, unit))
           /\ Closing(m, first, unit) \in PricesAt(m, first, unit)
           /\ {m[n].token : n \in drawn} = {token}
<1>1. m \in Seq([token : Token, time : Nat, price : Nat, valid : BOOLEAN])
  BY ChartAssumption
<1>2. /\ drawn \in SUBSET DOMAIN m /\ \A n \in drawn : m[n].token = token
      /\ DOMAIN m = 1..Len(m) /\ Len(m) \in Nat
  BY <1>1 DEF Drawn
<1>3. IsFiniteSet(drawn) /\ drawn \in SUBSET Nat
  <2>1. IsFiniteSet(1..Len(m))
    BY <1>2, FS_Interval
  <2>2. drawn \in SUBSET (1..Len(m))
    BY <1>2
  <2> QED BY <2>1, <2>2, FS_Subset
<1>4. Min(drawn) \in drawn
  BY <1>3, LeastExists
<1>5. first \in SUBSET drawn /\ first # {}
  BY <1>4 DEF InFirst
<1>6. IsFiniteSet(first)
  BY <1>3, <1>5, FS_Subset
<1>7. Max(first) \in first
  BY <1>3, <1>5, <1>6, GreatestExists
<1>8. \A n \in first : m[n].price * unit \in Nat
  <2> TAKE n \in first
  <2>0. n \in 1..Len(m)
    BY <1>2, <1>5
  <2>1. m[n].price \in Nat
    <3> DEFINE Sale == [token : Token, time : Nat, price : Nat, valid : BOOLEAN]
    <3>1. m \in Seq(Sale)
      BY <1>1
    <3> HIDE DEF Sale
    <3>2. m[n] \in Sale
      BY <2>0, <3>1
    <3> QED BY <3>2 DEF Sale
  <2>2. unit \in Nat
    BY UnitIsNatural
  <2> QED BY <2>1, <2>2
<1> DEFINE f == [n \in first |-> m[n].price * unit]
<1>9. f \in Surjection(first, PricesAt(m, first, unit))
  BY DEF Surjection, PricesAt
<1>10. IsFiniteSet(PricesAt(m, first, unit))
  BY <1>6, <1>9, FS_Surjection
<1> QED BY <1>2, <1>7, <1>8, <1>10 DEF PricesAt, Closing

\* A candle that trades extend, or that follows another, is one.
LEMMA OpenedIsBar ==
    ASSUME NEW t, NEW bar, Bar(bar, t), NEW time, NEW prices \in SUBSET Nat, IsFiniteSet(prices),
           NEW closing \in prices
    PROVE  Bar(Opened(bar, time, prices, closing), t)
<1> DEFINE all == prices \cup {bar.close}
<1>1. all \in SUBSET Nat /\ all # {} /\ closing \in all /\ bar.close \in all
  BY DEF Bar
<1>2. IsFiniteSet(all)
  BY FS_AddElement
<1>3. Max(all) \in Nat /\ closing <= Max(all) /\ bar.close <= Max(all)
  BY <1>1, <1>2, GreatestExists
<1>4. Min(all) \in Nat /\ Min(all) <= closing /\ Min(all) <= bar.close
  BY <1>1, <1>2, LeastExists
<1>5. Opened(bar, time, prices, closing) =
        [bar EXCEPT !.time = time, !.open = bar.close, !.close = closing, !.high = Max(all), !.low = Min(all)]
  BY DEF Opened
<1> HIDE DEF all
<1> QED BY <1>1, <1>3, <1>4, <1>5 DEF Bar, BarFields

LEMMA MergedIsBar ==
    ASSUME NEW t, NEW bar, Bar(bar, t), NEW prices \in SUBSET Nat, IsFiniteSet(prices),
           NEW closing \in prices
    PROVE  Bar(Merged(bar, prices, closing), t)
<1> DEFINE above == prices \cup {bar.high}
           below == prices \cup {bar.low}
<1>1. /\ above \in SUBSET Nat /\ above # {} /\ closing \in above /\ bar.high \in above
      /\ below \in SUBSET Nat /\ below # {} /\ closing \in below /\ bar.low \in below
  BY DEF Bar
<1>2. IsFiniteSet(above) /\ IsFiniteSet(below)
  BY FS_AddElement
<1>3. Max(above) \in Nat /\ closing <= Max(above) /\ bar.high <= Max(above)
  BY <1>1, <1>2, GreatestExists
<1>4. Min(below) \in Nat /\ Min(below) <= closing /\ Min(below) <= bar.low
  BY <1>1, <1>2, LeastExists
<1>5. Merged(bar, prices, closing) =
        [bar EXCEPT !.high = Max(above), !.low = Min(below), !.close = closing]
  BY DEF Merged, Bar, BarFields
<1> HIDE DEF above, below
<1>6. bar.open <= Max(above) /\ Min(below) <= bar.open
  BY <1>1, <1>3, <1>4 DEF Bar
<1> QED BY <1>1, <1>3, <1>4, <1>5, <1>6 DEF Bar, BarFields

LEMMA NextIsBar ==
    ASSUME NEW t, NEW bar, Bar(bar, t), NEW m \in Message, NEW interval, NEW unit \in {1, Supply},
           NEW drawn, drawn = Drawn(m, t), drawn # {}
    PROVE  /\ Bar(NextBar(bar, m, drawn, interval, unit), t)
           /\ {m[n].token : n \in drawn} = {t}
<1> DEFINE first == InFirst(m, drawn, interval)
           prices == PricesAt(m, first, unit)
           closing == Closing(m, first, unit)
<1>1. /\ prices \in SUBSET Nat /\ IsFiniteSet(prices) /\ closing \in prices
      /\ {m[n].token : n \in drawn} = {t}
  BY PriceFacts
<1> DEFINE start == Begins(m, Min(drawn), interval)
<1>2. NextBar(bar, m, drawn, interval, unit) \in
        {bar, Opened(bar, start, prices, closing), Merged(bar, prices, closing)}
  BY DEF NextBar
<1> HIDE DEF prices, closing, start
<1>3. Bar(Opened(bar, start, prices, closing), t)
  BY <1>1, OpenedIsBar
<1>4. Bar(Merged(bar, prices, closing), t)
  BY <1>1, MergedIsBar
<1> QED BY <1>1, <1>2, <1>3, <1>4

\* What the stream brings is drawn as the candle of the token that is shown, and
\* consists of this token's trades.
LEMMA ReceivedKeeps == ChartInv /\ Received => ChartInv'
<1> SUFFICES ASSUME ChartInv, Received
             PROVE  ChartInv'
  OBVIOUS
<1> DEFINE t == chart.token
<1>1. PICK m \in Message :
        /\ Drawn(m, t) # {} /\ t \in DOMAIN chart.bars
        /\ Acts([chart EXCEPT !.bars[t] =
             [NextBar(chart.bars[t], m, Drawn(m, t), chart.interval, chart.unit)
                EXCEPT !.of = @ \cup {m[n].token : n \in Drawn(m, t)}]])
  BY DEF Received
<1> DEFINE next == NextBar(chart.bars[t], m, Drawn(m, t), chart.interval, chart.unit)
           of == {m[n].token : n \in Drawn(m, t)}
           bar == [next EXCEPT !.of = @ \cup of]
<1>2. Bar(next, t) /\ of = {t}
  <2>1. Bar(chart.bars[t], t) /\ chart.unit \in {1, Supply}
    BY <1>1 DEF ChartInv
  <2> HIDE DEF t
  <2> QED BY SMTT(40), <1>1, <2>1, NextIsBar
<1>3. chart' = [[chart EXCEPT !.bars[t] = bar] EXCEPT !.moves = @ + 1]
  BY <1>1 DEF Acts
<1> HIDE DEF next, of
<1>4. Bar(bar, t)
  BY <1>2 DEF Bar, BarFields
<1> HIDE DEF bar
<1>5. /\ chart'.bars = [chart.bars EXCEPT ![t] = bar]
      /\ DOMAIN chart' = ChartFields /\ chart'.token = chart.token /\ chart'.unit = chart.unit
      /\ chart'.asks = chart.asks /\ chart'.loading = chart.loading /\ chart'.marks = chart.marks
  BY <1>3 DEF ChartInv, ChartFields
<1>6. /\ DOMAIN chart'.bars = DOMAIN chart.bars
      /\ \A u \in DOMAIN chart.bars : chart'.bars[u] = IF u = t THEN bar ELSE chart.bars[u]
      /\ chart'.bars = [u \in DOMAIN chart'.bars |-> chart'.bars[u]]
  BY <1>5 DEF ChartInv
<1> QED BY <1>4, <1>5, <1>6 DEF ChartInv, DeadButtonsMeanLoad

\* A request remembers its token and the unit it was made in.
LEMMA AskBarsKeeps == ChartInv /\ AskBars => ChartInv'
<1> SUFFICES ASSUME ChartInv, AskBars
             PROVE  ChartInv'
  OBVIOUS
<1>1. PICK n \in 1..2, i \in Interval :
        /\ chart.token # "none"
        /\ Acts([chart EXCEPT !.asks = @ \cup
              {[n |-> n, token |-> chart.token, interval |-> i, unit |-> chart.unit]}])
  BY DEF AskBars
<1> DEFINE ask == [n |-> n, token |-> chart.token, interval |-> i, unit |-> chart.unit]
<1>2. ask \in Ask
  BY <1>1 DEF ChartInv, Ask
<1>3. chart' = [[chart EXCEPT !.asks = @ \cup {ask}] EXCEPT !.moves = @ + 1]
  BY <1>1 DEF Acts
<1> HIDE DEF ask
<1>4. /\ DOMAIN chart' = ChartFields /\ chart'.token = chart.token /\ chart'.unit = chart.unit
      /\ chart'.bars = chart.bars /\ chart'.asks = chart.asks \cup {ask}
      /\ chart'.loading = chart.loading /\ chart'.marks = chart.marks
  BY <1>3 DEF ChartInv, ChartFields
<1> QED BY <1>2, <1>4 DEF ChartInv, DeadButtonsMeanLoad

\* Its answer is kept under that token, also if another one is shown by then.
LEMMA AskAnsweredKeeps == ChartInv /\ AskAnswered => ChartInv'
<1> SUFFICES ASSUME ChartInv, AskAnswered
             PROVE  ChartInv'
  OBVIOUS
<1> DEFINE price(a, c) == c.price * a.unit
           bar(a, c) == [time |-> IntervalStart(c.time, a.interval), open |-> price(a, c),
                         high |-> price(a, c), low |-> price(a, c), close |-> price(a, c), of |-> {a.token}]
<1>1. PICK a \in chart.asks, c \in Candle :
        chart' = [chart EXCEPT !.asks = @ \ {a},
                    !.bars = [t \in DOMAIN @ \cup {KeyOf(a)} |-> IF t = KeyOf(a) THEN bar(a, c) ELSE @[t]]]
  BY Zenon DEF AskAnswered
<1>2. c.price \in Nat /\ a.unit \in Nat /\ KeyOf(a) \in Token
  <2>1. c \in [time : Nat, price : Nat] /\ a \in Ask
    BY ChartAssumption DEF ChartInv
  <2> QED BY <2>1, UnitIsNatural DEF Ask, KeyOf
<1>3. price(a, c) \in Nat
  BY <1>2
<1> HIDE DEF price
<1>4. Bar(bar(a, c), KeyOf(a))
  BY <1>3 DEF Bar, BarFields, KeyOf
<1> HIDE DEF bar
<1> DEFINE b == bar(a, c)
           key == KeyOf(a)
           bars == [t \in DOMAIN chart.bars \cup {key} |-> IF t = key THEN b ELSE chart.bars[t]]
<1>5. chart' = [chart EXCEPT !.asks = chart.asks \ {a}, !.bars = bars]
  BY <1>1 DEF ChartInv, ChartFields
<1>6. /\ bars = [t \in DOMAIN bars |-> bars[t]] /\ DOMAIN bars \subseteq Token
      /\ \A t \in DOMAIN bars : Bar(bars[t], t)
  BY <1>2, <1>4 DEF ChartInv
<1> HIDE DEF bars
<1>7. /\ DOMAIN chart' = ChartFields /\ chart'.token = chart.token /\ chart'.unit = chart.unit
      /\ chart'.bars = bars /\ chart'.asks = chart.asks \ {a}
      /\ chart'.loading = chart.loading /\ chart'.marks = chart.marks
  BY <1>5 DEF ChartInv, ChartFields
<1> QED BY <1>6, <1>7 DEF ChartInv, DeadButtonsMeanLoad

\* The flag of the marks is raised with a load, and while any trader of a load
\* is awaited the load is under way.
LEMMA AskMarksKeeps == ChartInv /\ AskMarks => ChartInv'
<1> SUFFICES ASSUME ChartInv, AskMarks
             PROVE  ChartInv'
  OBVIOUS
<1>1. PICK n \in 1..2, who \in SUBSET Traders : Acts(MarksAsked(n, who))
  BY DEF AskMarks
<1>2. CASE who = {}
  BY <1>1, <1>2 DEF Acts, MarksAsked, ChartInv, ChartFields, DeadButtonsMeanLoad
<1>3. CASE who # {}
  <2> DEFINE load == [n |-> n, who |-> who, page |-> 1]
  <2>1. chart' = [[chart EXCEPT !.loading = TRUE, !.marks = @ \cup {load}] EXCEPT !.moves = @ + 1]
    BY <1>1, <1>3 DEF Acts, MarksAsked
  <2> HIDE DEF load
  <2> QED BY <2>1 DEF ChartInv, ChartFields, DeadButtonsMeanLoad
<1> QED BY <1>2, <1>3

LEMMA MarksAnsweredKeeps == ChartInv /\ MarksAnswered => ChartInv'
<1> SUFFICES ASSUME ChartInv, MarksAnswered
             PROVE  ChartInv'
  OBVIOUS
<1>1. PICK g \in chart.marks :
        \/ \E h : chart' = [chart EXCEPT !.marks = (@ \ {g}) \cup {h}]
        \/ chart' = [chart EXCEPT !.marks = @ \ {g}, !.loading = FALSE]
  BY Zenon DEF MarksAnswered, NextPage, MarksEnd
<1>2. CASE \E h : chart' = [chart EXCEPT !.marks = (@ \ {g}) \cup {h}]
  BY <1>2 DEF ChartInv, ChartFields, DeadButtonsMeanLoad
<1>3. CASE chart' = [chart EXCEPT !.marks = @ \ {g}, !.loading = FALSE]
  BY <1>3 DEF ChartInv, ChartFields, DeadButtonsMeanLoad
<1> QED BY <1>1, <1>2, <1>3

LEMMA ChartStepKeeps == ChartInv /\ ChartStep => ChartInv'
<1> SUFFICES ASSUME ChartInv, ChartStep
             PROVE  ChartInv'
  OBVIOUS
<1>1. CASE ShowToken
  BY <1>1 DEF ShowToken, Acts, ChartInv, ChartFields, DeadButtonsMeanLoad
<1>2. CASE AskFailed
  BY <1>2 DEF AskFailed, ChartInv, ChartFields, DeadButtonsMeanLoad
<1>3. CASE ToggleType
  BY <1>3 DEF ToggleType, Acts, ChartInv, ChartFields, DeadButtonsMeanLoad
<1>4. CASE ChangeInterval
  BY <1>4 DEF ChangeInterval, Acts, ChartInv, ChartFields, DeadButtonsMeanLoad
<1>5. CASE ToggleMarks
  BY <1>5 DEF ToggleMarks, Acts, ChartInv, ChartFields, DeadButtonsMeanLoad
<1> QED BY <1>1, <1>2, <1>3, <1>4, <1>5, AskBarsKeeps, AskAnsweredKeeps, ReceivedKeeps,
           AskMarksKeeps, MarksAnsweredKeeps DEF ChartStep

LEMMA ChartApart == ChartInv /\ UNCHANGED chart => ChartInv'
  BY DEF ChartInv, DeadButtonsMeanLoad

LEMMA FreshChart == ASSUME NEW open, chart = NewChart(open) PROVE ChartInv
  BY DEF NewChart, ChartInv, ChartFields, DeadButtonsMeanLoad

LEMMA SoundFollows == ChartInv => BarIsSound
  BY DEF ChartInv, Bar, BarIsSound, BarIsWellFormed, BarOfItsToken

-----------------------------------------------------------------------------
(* Who keeps the page busy.  A run of a hook does from where it has raised  *)
(* `busy` to where it ends; it must be shown that it never ends without     *)
(* lowering the flag, whichever of its awaits fails, and that no other call *)
(* comes to a place from which the flag is raised or lowered.               *)

ActiveAt(command, place) ==
    \/ command = "exitAll" /\ place \in {"listing", "signing", "rows", "rowDone", "rowFailed"}
    \/ command = "batch" /\ place \in {"discover", "build", "signing", "rows", "rowDone", "rowFailed"}
    \/ command = "exitAuto" /\ place \in {"findLp", "signLp"}
    \/ command = "launch" /\ place \in InFlight \cup {"signCreate", "signSwap"}
Foreign(place) == place \notin Hooks /\ \A hook \in Hooks : ~ActiveAt(hook, place)

\* Every call stays among the places of its command, and has been told nothing
\* before it begins.
InItsPlace(k) ==
    IF job[k].cmd \in Hooks
    THEN \/ ActiveAt(job[k].cmd, at[k]) \/ at[k] = "returned"
         \/ at[k] \in {job[k].cmd, "idle"} /\ ~Heard(k)
    ELSE Foreign(at[k])

\* A run of a hook waits for the chain in its loop over the rows only, where it
\* catches what fails.
Caught(k) ==
    IF job[k].cmd \in Hooks
    THEN todo[k] # <<>> => at[k] = "rowDone" /\ rescue[k] = RowCatch
    ELSE \A how \in Failures : Foreign(rescue[k][how])

\* A launch the page has given up on keeps nothing busy.
Holding(k) ==
    \/ ActiveAt(job[k].cmd, at[k]) /\ ~(job[k].cmd = "launch" /\ Heard(k))
    \/ Over(k) /\ job[k].cmd = "exitAll" /\ job[k].dry

PageFields == {"busy", "rows", "flag", "newest", "stopped"}
Shape ==
    /\ DOMAIN at = Call /\ DOMAIN todo = Call /\ DOMAIN rescue = Call /\ DOMAIN seen = Call
    /\ \A k \in Call : job[k].cmd \in Commands
    /\ DOMAIN page = PageFields /\ page.busy \in BOOLEAN
BusyInv ==
    /\ Shape
    /\ \A k \in Call : InItsPlace(k) /\ Caught(k)
    /\ page.busy => \E k \in Call : Holding(k)

\* What a step of a call leaves alone.
Alters(k) ==
    /\ job' = job
    /\ DOMAIN at' = Call /\ DOMAIN todo' = Call /\ DOMAIN rescue' = Call /\ DOMAIN seen' = Call
    /\ \A j \in Call \ {k} :
          at'[j] = at[j] /\ todo'[j] = todo[j] /\ rescue'[j] = rescue[j] /\ seen'[j] = seen[j]

\* A step of one call: what has to be shown of it.
LEMMA CallKeeps ==
    ASSUME BusyInv, NEW k \in Call, Alters(k), InItsPlace(k)', Caught(k)',
           DOMAIN page' = PageFields, page'.busy \in BOOLEAN,
           page'.busy => Holding(k)' \/ (page.busy /\ ~Holding(k))
    PROVE  BusyInv'
<1>1. Shape'
  BY DEF BusyInv, Shape, Alters
<1>2. ASSUME NEW j \in Call
      PROVE  InItsPlace(j)' /\ Caught(j)'
  BY DEF BusyInv, Alters, InItsPlace, Caught, Heard, Told
<1>3. \A j \in Call \ {k} : Holding(j) => Holding(j)'
  BY DEF Alters, Holding, Over, At, Heard, Told
<1>4. page'.busy => \E j \in Call : Holding(j)'
  BY <1>3 DEF BusyInv
<1> QED BY <1>1, <1>2, <1>4 DEF BusyInv

\* The ways a call moves.
Notes(k) == DOMAIN seen' = Call /\ \A j \in Call \ {k} : seen'[j] = seen[j]

LEMMA NotesFacts ==
    ASSUME Shape, NEW k \in Call
    PROVE  /\ Nothing => Notes(k) /\ seen'[k] = seen[k]
           /\ \A news : Keep(k, news) => Notes(k) /\ seen'[k] = seen[k] \cup news
           /\ \A about : Read(k, about) => Notes(k)
           /\ \A p : ReadButFee(k, p) => Notes(k)
  BY DEF Shape, Notes, Nothing, Keep, Read, ReadButFee

LEMMA TryAlters ==
    ASSUME Shape, NEW k \in Call, NEW batches, NEW point, NEW catch, Try(k, batches, point, catch),
           Notes(k)
    PROVE  /\ Alters(k)
           /\ at'[k] = point /\ todo'[k] = batches /\ rescue'[k] = catch
  BY DEF Shape, Try, Alters, Notes

LEMMA UncaughtIsForeign == \A how \in Failures : Uncaught[how] = "stopped" /\ Foreign("stopped")
  BY DEF Uncaught, CaughtAs, Foreign, Hooks, ActiveAt, InFlight

LEMMA RowCatchFacts == \A how \in Failures : RowCatch[how] \in {"rowDone", "rowFailed"}
  BY DEF RowCatch, CaughtAs, Failures

\* A call that is none of a hook's runs goes on, to a place that is none of theirs.
LEMMA OthersKeep ==
    ASSUME BusyInv, NEW k \in Call, Foreign(at[k]), at[k] \notin {"idle", "returned"},
           Alters(k), Foreign(at'[k]),
           \A how \in Failures : Foreign(rescue'[k][how]), UNCHANGED page
    PROVE  BusyInv'
<1>1. job[k].cmd \notin Hooks
  BY DEF BusyInv, InItsPlace, Foreign
<1>2. InItsPlace(k)' /\ Caught(k)'
  BY <1>1 DEF Alters, InItsPlace, Caught
<1>3. ~Holding(k)
  BY <1>1 DEF Holding, ActiveAt, Hooks
<1> QED BY <1>2, <1>3, CallKeeps DEF BusyInv, Shape

LEMMA OthersGo ==
    ASSUME BusyInv, NEW k \in Call, Foreign(at[k]), at[k] \notin {"idle", "returned"},
           NEW batches, NEW point, Try(k, batches, point, Uncaught), Foreign(point), Notes(k),
           UNCHANGED page
    PROVE  BusyInv'
  BY TryAlters, UncaughtIsForeign, OthersKeep DEF BusyInv

\* The places of the calls that are none of a hook's runs.
OtherPlace ==
    {"positions", "chosen", "findSecond", "refetch", "remains", "verified", "position", "quoted", "exitOne",
     "picked", "bulletproof", "attempt", "again", "success", "gaveUp", "removeLp", "removeAll", "buildClaim",
     "bundle", "submitBundle", "relay", "buildLaunch", "stopped"}
LEMMA OtherPlaceFacts ==
    \A place \in OtherPlace : Foreign(place) /\ place \notin {"idle", "returned"} /\ Foreign("returned")
  BY DEF OtherPlace, Foreign, Hooks, ActiveAt, InFlight

\* A position command, as the studio runs it.
LEMMA PositionKeeps ==
    ASSUME BusyInv, NEW k \in Call, PositionStep(k), UNCHANGED pageVars
    PROVE  BusyInv'
<1>1. Notes(k)
  <2>1. CASE FetchPool(k) \/ NoPosition(k) \/ ChoosePosition(k) \/ PositionGone(k)
    BY <2>1, NotesFacts DEF BusyInv, FetchPool, NoPosition, ChoosePosition, PositionGone
  <2>2. CASE SplitCreate(k) \/ SplitPosition(k) \/ ClaimPositionFee(k)
    BY <2>2, NotesFacts DEF BusyInv, SplitCreate, SplitPosition, ClaimPositionFee
  <2>3. CASE AddLiquidity(k) \/ Refetch(k)
    BY <2>3, NotesFacts DEF BusyInv, AddLiquidity, Refetch
  <2>4. CASE RemoveLiquidity(k) \/ RemoveQuoted(k)
    BY <2>4, NotesFacts DEF BusyInv, RemoveLiquidity, RemoveQuoted
  <2>5. CASE RemoveRemains(k) \/ RemoveClose(k) \/ ClosePosition(k)
    BY <2>5, NotesFacts DEF BusyInv, RemoveRemains, RemoveClose, ClosePosition
  <2> QED BY <2>1, <2>2, <2>3, <2>4, <2>5 DEF PositionStep
<1>2. /\ at[k] \in OtherPlace
      /\ \E batches : \E point \in OtherPlace \cup {"returned"} : Try(k, batches, point, Uncaught)
  <2>1. CASE FetchPool(k) \/ NoPosition(k) \/ ChoosePosition(k) \/ PositionGone(k)
    BY <2>1 DEF FetchPool, NoPosition, ChoosePosition, PositionGone, At, Goto, Return, Send, OtherPlace
  <2>2. CASE SplitCreate(k) \/ SplitPosition(k) \/ ClaimPositionFee(k)
    BY <2>2 DEF SplitCreate, SplitPosition, ClaimPositionFee, Doing, At, Goto, Send, OtherPlace
  <2>3. CASE AddLiquidity(k) \/ Refetch(k)
    BY <2>3 DEF AddLiquidity, Refetch, Doing, At, Goto, Send, OtherPlace
  <2>4. CASE RemoveLiquidity(k) \/ RemoveQuoted(k)
    BY <2>4 DEF RemoveLiquidity, RemoveQuoted, Doing, At, Goto, Return, Send, OtherPlace
  <2>5. CASE RemoveRemains(k) \/ RemoveClose(k) \/ ClosePosition(k)
    BY <2>5 DEF RemoveRemains, RemoveClose, ClosePosition, Doing, At, Goto, Return, Send, OtherPlace
  <2> QED BY <2>1, <2>2, <2>3, <2>4, <2>5 DEF PositionStep
<1>3. page' = page
  BY DEF pageVars
<1>4. PICK point \in OtherPlace \cup {"returned"} : \E batches : Try(k, batches, point, Uncaught)
  BY <1>2
<1>5. Foreign(at[k]) /\ at[k] \notin {"idle", "returned"} /\ Foreign(point)
  BY <1>2, OtherPlaceFacts
<1>6. PICK batches : Try(k, batches, point, Uncaught)
  BY <1>4
<1> QED BY <1>1, <1>3, <1>5, <1>6, OthersGo

\* The servers' calls: only the bulletproof exit catches anything, to try again.
LEMMA ServerKeeps ==
    ASSUME BusyInv, NEW k \in Call, ServerStep(k)
    PROVE  BusyInv'
<1>1. Notes(k)
  <2>1. CASE ScanLp(k)
    BY <2>1, NotesFacts DEF BusyInv, ScanLp
  <2>2. CASE Attempt(k) \/ Again(k) \/ Answered(k)
    BY <2>2, NotesFacts DEF BusyInv, Attempt, Again, Answered, GotoRow
  <2>3. CASE ResolveKeys(k) \/ NoKeys(k) \/ RemoveAllLp(k) \/ BuildClaim(k)
    BY <2>3, NotesFacts DEF BusyInv, ResolveKeys, NoKeys, RemoveAllLp, BuildClaim
  <2> QED BY <2>1, <2>2, <2>3 DEF ServerStep
<1>2. /\ at[k] \in OtherPlace /\ page' = page
      /\ \E point \in OtherPlace \cup {"returned"} : \E batches :
            Try(k, batches, point, Uncaught) \/ Try(k, batches, point, AttemptCatch)
  <2>1. CASE ScanLp(k)
    BY <2>1 DEF ScanLp, At, Goto, Send, OtherPlace, pageVars
  <2>2. CASE Attempt(k)
    BY <2>2 DEF Attempt, At, OtherPlace
  <2>3. CASE Again(k) \/ Answered(k)
    BY <2>3 DEF Again, Answered, GotoRow, At, Goto, Return, Send, OtherPlace, pageVars
  <2>4. CASE ResolveKeys(k) \/ NoKeys(k)
    BY <2>4 DEF ResolveKeys, NoKeys, At, Goto, Send, OtherPlace, pageVars
  <2>5. CASE RemoveAllLp(k) \/ BuildClaim(k)
    BY <2>5 DEF RemoveAllLp, BuildClaim, At, Goto, Return, Send, OtherPlace, pageVars
  <2> QED BY <2>1, <2>2, <2>3, <2>4, <2>5 DEF ServerStep
<1>3. PICK point \in OtherPlace \cup {"returned"} : \E batches :
         Try(k, batches, point, Uncaught) \/ Try(k, batches, point, AttemptCatch)
  BY <1>2
<1>4. Foreign(at[k]) /\ at[k] \notin {"idle", "returned"} /\ Foreign(point)
  BY <1>2, OtherPlaceFacts
<1>5. CASE \E batches : Try(k, batches, point, Uncaught)
  BY <1>1, <1>2, <1>4, <1>5, OthersGo
<1>6. CASE \E batches : Try(k, batches, point, AttemptCatch)
  <2>1. PICK batches : Try(k, batches, point, AttemptCatch)
    BY <1>6
  <2>2. Alters(k) /\ at'[k] = point /\ rescue'[k] = AttemptCatch
    BY <1>1, <2>1, TryAlters DEF BusyInv
  <2>3. \A how \in Failures : AttemptCatch[how] = "again" /\ Foreign("again")
    BY OtherPlaceFacts DEF AttemptCatch, CaughtAs, OtherPlace
  <2> QED BY <1>2, <1>4, <2>2, <2>3, OthersKeep
<1> QED BY <1>3, <1>5, <1>6

\* Where a run is tells what it is a run of.
LEMMA WhoIsThere ==
    ASSUME BusyInv, NEW k \in Call
    PROVE  /\ at[k] \in {"exitAll", "listing"} => job[k].cmd = "exitAll"
           /\ at[k] \in {"batch", "discover", "build"} => job[k].cmd = "batch"
           /\ at[k] \in {"signing", "rows", "rowDone", "rowFailed"} => job[k].cmd \in {"exitAll", "batch"}
           /\ at[k] \in {"exitAuto", "findLp", "signLp"} => job[k].cmd = "exitAuto"
           /\ at[k] \in {"launch", "signCreate", "signSwap"} \cup InFlight => job[k].cmd = "launch"
<1>1. InItsPlace(k)
  BY DEF BusyInv
<1>2. CASE job[k].cmd \in Hooks
  BY <1>1, <1>2 DEF InItsPlace, ActiveAt, Hooks, InFlight
<1>3. CASE job[k].cmd \notin Hooks
  <2>1. Foreign(at[k])
    BY <1>1, <1>3 DEF InItsPlace
  <2> QED BY <2>1 DEF Foreign, Hooks, ActiveAt, InFlight
<1> QED BY <1>2, <1>3

\* A run of a hook that ends lowers the flag.
LEMMA HookEndsWell ==
    ASSUME BusyInv, NEW k \in Call, job[k].cmd \in Hooks, Alters(k), at'[k] = "returned", todo'[k] = <<>>,
           DOMAIN page' = PageFields, page'.busy = FALSE
    PROVE  BusyInv'
  BY CallKeeps DEF Alters, InItsPlace, Caught

\* One that goes on keeps it as it is, or raises it.
LEMMA HookGoesOn ==
    ASSUME BusyInv, NEW k \in Call, job[k].cmd \in {"exitAll", "batch", "exitAuto"}, Alters(k),
           ActiveAt(job[k].cmd, at'[k]),
           todo'[k] # <<>> => at'[k] = "rowDone" /\ rescue'[k] = RowCatch,
           DOMAIN page' = PageFields, page'.busy \in BOOLEAN
    PROVE  BusyInv'
<1>1. job[k].cmd \in Hooks /\ job[k].cmd # "launch" /\ job'[k].cmd = job[k].cmd
  BY DEF Hooks, Alters
<1>2. InItsPlace(k)' /\ Caught(k)' /\ Holding(k)'
  BY <1>1 DEF InItsPlace, Caught, Holding
<1> QED BY <1>2, CallKeeps

LEMMA RestFacts ==
    ASSUME BusyInv, NEW k \in Call, Rest(k), Notes(k), job[k].cmd \in Hooks
    PROVE  BusyInv'
<1>1. Try(k, <<>>, "returned", Uncaught)
  BY DEF Rest, Return, Goto, Send
<1>2. Alters(k) /\ at'[k] = "returned" /\ todo'[k] = <<>>
  BY <1>1, TryAlters DEF BusyInv
<1>3. DOMAIN page' = PageFields /\ page'.busy = FALSE
  BY DEF Rest, BusyInv, Shape, PageFields
<1> QED BY <1>2, <1>3, HookEndsWell

\* The exits of DAMM v2.  A simulation that found something is over and leaves
\* the page busy.
LEMMA DammExitKeeps ==
    ASSUME BusyInv, NEW k \in Call, DammExitStep(k)
    PROVE  BusyInv'
<1> USE DEF pageVars
<1>1. CASE OpenExitAll(k)
  <2>1. Notes(k) /\ Try(k, <<>>, "listing", Uncaught) /\ job[k].cmd = "exitAll"
    BY <1>1, NotesFacts, WhoIsThere DEF OpenExitAll, At, Goto, Send, BusyInv
  <2>2. Alters(k) /\ at'[k] = "listing" /\ todo'[k] = <<>>
    BY <2>1, TryAlters DEF BusyInv
  <2>3. DOMAIN page' = PageFields /\ page'.busy \in BOOLEAN
    BY <1>1 DEF OpenExitAll, BusyInv, Shape, PageFields
  <2> QED BY <2>1, <2>2, <2>3, HookGoesOn DEF ActiveAt
<1>2. CASE ExitAllFails(k)
  <2>1. Notes(k) /\ Rest(k) /\ job[k].cmd \in Hooks
    BY <1>2, NotesFacts, WhoIsThere DEF ExitAllFails, At, BusyInv, Hooks
  <2> QED BY <2>1, RestFacts
<1>3. CASE ListPositions(k)
  <2> DEFINE list == SetToSeq(mine)
             kept(broken) == {i \in DOMAIN list : ~Skips(list[i], broken)}
             ends(broken) == job[k].dry \/ kept(broken) = {}
  <2>1. PICK broken \in SUBSET mine :
          /\ Try(k, <<>>, IF ends(broken) THEN "returned" ELSE "signing", Uncaught)
          /\ \E rows : page' = [page EXCEPT !.rows = rows,
                                  !.busy = IF job[k].dry \/ kept(broken) # {} THEN @ ELSE FALSE]
    BY Zenon, <1>3 DEF ListPositions, Goto, Send
  <2> HIDE DEF list, kept
  <2>2. Notes(k) /\ job[k].cmd = "exitAll"
    BY <1>3, NotesFacts, WhoIsThere DEF ListPositions, At, BusyInv
  <2>3. /\ Alters(k) /\ todo'[k] = <<>>
        /\ at'[k] = IF ends(broken) THEN "returned" ELSE "signing"
    BY <2>1, <2>2, TryAlters DEF BusyInv
  <2>4. /\ DOMAIN page' = PageFields /\ page'.busy \in BOOLEAN
        /\ ~job[k].dry /\ kept(broken) = {} => page'.busy = FALSE
    BY <2>1 DEF BusyInv, Shape, PageFields
  <2>5. CASE ~ends(broken)
    BY <2>2, <2>3, <2>4, <2>5, HookGoesOn DEF ActiveAt
  <2>6. CASE ends(broken) /\ ~job[k].dry
    BY <2>2, <2>3, <2>4, <2>6, HookEndsWell DEF Hooks
  <2>7. CASE job[k].dry
    <3>1. at'[k] = "returned" /\ job' = job
      BY <2>3, <2>7 DEF Alters
    <3>2. Holding(k)' /\ InItsPlace(k)' /\ Caught(k)'
      BY <2>2, <2>3, <2>7, <3>1 DEF Holding, Over, At, InItsPlace, Caught, Hooks
    <3> QED BY <2>3, <2>4, <3>2, CallKeeps
  <2> QED BY SMTT(40), <2>5, <2>6, <2>7
<1>4. CASE SignExitAll(k)
  <2>1. Notes(k) /\ Try(k, <<>>, "rows", Uncaught) /\ job[k].cmd = "exitAll" /\ page' = page
    BY <1>4, NotesFacts DEF SignExitAll, GotoRow, BusyInv
  <2>2. Alters(k) /\ at'[k] = "rows" /\ todo'[k] = <<>>
    BY <2>1, TryAlters DEF BusyInv
  <2> QED BY <2>1, <2>2, HookGoesOn DEF ActiveAt, BusyInv, Shape
<1>5. CASE NoPositionForPool(k) \/ PickPosition(k) \/ BuildExit(k)
  <2>1. Notes(k) /\ page' = page
    BY <1>5, NotesFacts DEF NoPositionForPool, PickPosition, BuildExit, BusyInv
  <2>2. /\ at[k] \in OtherPlace
        /\ \E point \in OtherPlace \cup {"returned"} : \E batches : Try(k, batches, point, Uncaught)
    BY <1>5 DEF NoPositionForPool, PickPosition, BuildExit, At, Goto, Send, OtherPlace
  <2> QED BY <2>1, <2>2, OtherPlaceFacts, OthersGo
<1>6. CASE OpenExitAuto(k)
  <2>1. Notes(k) /\ Try(k, <<>>, "findLp", Uncaught) /\ job[k].cmd = "exitAuto"
    BY <1>6, NotesFacts, WhoIsThere DEF OpenExitAuto, At, Goto, Send, BusyInv
  <2>2. Alters(k) /\ at'[k] = "findLp" /\ todo'[k] = <<>>
    BY <2>1, TryAlters DEF BusyInv
  <2>3. DOMAIN page' = PageFields /\ page'.busy \in BOOLEAN
    BY <1>6 DEF OpenExitAuto, BusyInv, Shape, PageFields
  <2> QED BY <2>1, <2>2, <2>3, HookGoesOn DEF ActiveAt
<1>7. CASE findBestDammLpAndPool(k)
  <2>1. /\ Notes(k) /\ Try(k, <<>>, "signLp", Uncaught) /\ job[k].cmd = "exitAuto" /\ page' = page
    BY <1>7, NotesFacts, WhoIsThere DEF findBestDammLpAndPool, At, Goto, Send, BusyInv
  <2>2. Alters(k) /\ at'[k] = "signLp" /\ todo'[k] = <<>>
    BY <2>1, TryAlters DEF BusyInv
  <2> QED BY <2>1, <2>2, HookGoesOn DEF ActiveAt, BusyInv, Shape
<1>8. CASE ExitAutoFails(k)
  <2>1. Notes(k) /\ Rest(k) /\ job[k].cmd \in Hooks
    BY <1>8, NotesFacts, WhoIsThere DEF ExitAutoFails, At, BusyInv, Hooks
  <2> QED BY <2>1, RestFacts
<1>9. CASE SubmitLp(k)
  <2>1. /\ at[k] = "signLp" /\ todo[k] = <<>> /\ seen' = seen
        /\ at' = [at EXCEPT ![k] = "returned"]
        /\ page' = [page EXCEPT !.busy = FALSE]
        /\ UNCHANGED <<job, todo, rescue>>
    BY <1>9 DEF SubmitLp, At, Nothing
  <2>2. job[k].cmd \in Hooks
    BY <2>1, WhoIsThere DEF Hooks
  <2>3. Alters(k) /\ at'[k] = "returned" /\ todo'[k] = <<>> /\ DOMAIN page' = PageFields /\ page'.busy = FALSE
    BY <2>1 DEF Alters, BusyInv, Shape, PageFields
  <2> QED BY <2>2, <2>3, HookEndsWell
<1> QED BY <1>1, <1>2, <1>3, <1>4, <1>5, <1>6, <1>7, <1>8, <1>9 DEF DammExitStep

\* The batch of claims, which does nothing next to a run that is shown.
LEMMA BatchKeeps ==
    ASSUME BusyInv, NEW k \in Call, BatchStep(k)
    PROVE  BusyInv'
<1> USE DEF pageVars
<1>1. CASE OpenBatch(k)
  <2>1. Notes(k) /\ job[k].cmd = "batch" /\ at[k] = "batch" /\ todo[k] = <<>>
    BY <1>1, NotesFacts, WhoIsThere DEF OpenBatch, At, BusyInv
  <2>2. CASE page.busy
    <3>1. Try(k, <<>>, "returned", Uncaught) /\ page' = page
      BY <1>1, <2>2 DEF OpenBatch, Return, Goto, Send
    <3>2. Alters(k) /\ at'[k] = "returned" /\ todo'[k] = <<>>
      BY <2>1, <3>1, TryAlters DEF BusyInv
    <3>3. InItsPlace(k)' /\ Caught(k)' /\ ~Holding(k)
      BY <2>1, <3>2 DEF Alters, InItsPlace, Caught, Holding, Hooks, ActiveAt, Over, At
    <3> QED BY <3>1, <3>2, <3>3, CallKeeps DEF BusyInv, Shape
  <2>3. CASE ~page.busy
    <3>1. Try(k, <<>>, "discover", Uncaught)
      BY <1>1, <2>3 DEF OpenBatch, Goto, Send
    <3>2. Alters(k) /\ at'[k] = "discover" /\ todo'[k] = <<>>
      BY <2>1, <3>1, TryAlters DEF BusyInv
    <3>3. DOMAIN page' = PageFields /\ page'.busy \in BOOLEAN
      BY <1>1, <2>3 DEF OpenBatch, BusyInv, Shape, PageFields
    <3> QED BY <2>1, <3>2, <3>3, HookGoesOn DEF ActiveAt
  <2> QED BY <2>2, <2>3
<1>2. CASE Discover(k)
  <2>1. Notes(k) /\ job[k].cmd = "batch"
    BY <1>2, NotesFacts, WhoIsThere DEF Discover, At, BusyInv
  <2>2. CASE Rest(k)
    BY <2>1, <2>2, RestFacts DEF Hooks
  <2>3. CASE Goto(k, "build") /\ UNCHANGED pageVars
    <3>1. Alters(k) /\ at'[k] = "build" /\ todo'[k] = <<>> /\ page' = page
      BY <2>1, <2>3, TryAlters DEF BusyInv, Goto, Send
    <3> QED BY <2>1, <3>1, HookGoesOn DEF ActiveAt, BusyInv, Shape
  <2> QED BY <1>2, <2>2, <2>3 DEF Discover
<1>3. CASE BuildBatch(k)
  <2>1. Notes(k) /\ job[k].cmd = "batch" /\ Try(k, <<>>, "signing", Uncaught)
    BY <1>3, NotesFacts, WhoIsThere DEF BuildBatch, At, BusyInv, Goto, Send
  <2>2. PICK rows : page' = [page EXCEPT !.rows = rows]
    BY <1>3 DEF BuildBatch
  <2>3. DOMAIN page' = PageFields /\ page'.busy \in BOOLEAN
    BY <2>2 DEF BusyInv, Shape, PageFields
  <2>4. Alters(k) /\ at'[k] = "signing" /\ todo'[k] = <<>>
    BY <2>1, TryAlters DEF BusyInv
  <2> QED BY <2>1, <2>3, <2>4, HookGoesOn DEF ActiveAt
<1>4. CASE SignBatch(k)
  <2>1. /\ Notes(k) /\ job[k].cmd = "batch" /\ Try(k, <<>>, "rows", Uncaught)
        /\ page' = page
    BY <1>4, NotesFacts DEF SignBatch, BusyInv
  <2>2. Alters(k) /\ at'[k] = "rows" /\ todo'[k] = <<>>
    BY <2>1, TryAlters DEF BusyInv
  <2> QED BY <2>1, <2>2, HookGoesOn DEF ActiveAt, BusyInv, Shape
<1>5. CASE BatchFails(k)
  <2>1. Notes(k) /\ Rest(k) /\ job[k].cmd \in Hooks
    BY <1>5, NotesFacts, WhoIsThere DEF BatchFails, Preparing, At, BusyInv, Hooks
  <2> QED BY <2>1, RestFacts
<1> QED BY <1>1, <1>2, <1>3, <1>4, <1>5 DEF BatchStep

\* The loop of both hooks over their rows.
LEMMA LoopKeeps ==
    ASSUME BusyInv, NEW k \in Call, LoopStep(k)
    PROVE  BusyInv'
<1>1. Notes(k)
  BY NotesFacts DEF LoopStep, SendRow, RowDone, RowFailed, RowUnsigned, RowsEnd, RowIs, GotoRow, BusyInv
<1>2. job[k].cmd \in {"exitAll", "batch"}
  BY WhoIsThere DEF LoopStep, SendRow, RowDone, RowFailed, RowUnsigned, RowsEnd, RowIs, At
<1>3. ASSUME NEW i, NEW status, SetRow(k, i, status) \/ UNCHANGED page
      PROVE  DOMAIN page' = PageFields /\ page'.busy \in BOOLEAN
  BY <1>3 DEF SetRow, BusyInv, Shape, PageFields
<1>4. CASE SendRow(k)
  <2>1. DOMAIN page' = PageFields /\ page'.busy \in BOOLEAN
    BY <1>3, <1>4 DEF SendRow
  <2>2. Alters(k) /\ at'[k] = "rowDone" /\ rescue'[k] = RowCatch
    BY <1>1, <1>4, TryAlters DEF SendRow, BusyInv
  <2> QED BY <1>2, <2>1, <2>2, HookGoesOn DEF ActiveAt
<1>5. CASE RowDone(k) \/ RowFailed(k) \/ RowUnsigned(k)
  <2>1. PICK point, status : RowIs(k, point, status)
    BY <1>5 DEF RowDone, RowFailed, RowUnsigned
  <2>2. DOMAIN page' = PageFields /\ page'.busy \in BOOLEAN
    BY <1>3, <2>1 DEF RowIs
  <2>3. Alters(k) /\ at'[k] = "rows" /\ todo'[k] = <<>>
    BY <1>1, <2>1, TryAlters DEF RowIs, GotoRow, BusyInv
  <2> QED BY <1>2, <2>2, <2>3, HookGoesOn DEF ActiveAt
<1>6. CASE RowsEnd(k)
  BY <1>1, <1>2, <1>6, RestFacts DEF RowsEnd, Hooks
<1> QED BY <1>4, <1>5, <1>6 DEF LoopStep

\* A launch that goes on holds the page if it did.
LEMMA LaunchGoesOn ==
    ASSUME BusyInv, NEW k \in Call, job[k].cmd = "launch", Alters(k),
           ActiveAt("launch", at[k]), ActiveAt("launch", at'[k]), todo'[k] = <<>>, seen'[k] = seen[k],
           page' = page
    PROVE  BusyInv'
<1>1. job'[k].cmd = "launch" /\ "launch" \in Hooks
  BY DEF Alters, Hooks
<1>2. InItsPlace(k)' /\ Caught(k)'
  BY <1>1 DEF InItsPlace, Caught
<1>3. Holding(k)' \/ ~Holding(k)
  BY <1>1 DEF Holding, Heard, Told
<1> QED BY <1>2, <1>3, CallKeeps DEF BusyInv, Shape

\* One that was given up ends without a word.
LEMMA LaunchEndsUnheard ==
    ASSUME BusyInv, NEW k \in Call, job[k].cmd = "launch", Alters(k), Heard(k),
           at'[k] = "returned", todo'[k] = <<>>, page' = page
    PROVE  BusyInv'
<1>1. job'[k].cmd = "launch" /\ "launch" \in Hooks
  BY DEF Alters, Hooks
<1>2. InItsPlace(k)' /\ Caught(k)' /\ ~Holding(k)
  BY <1>1 DEF InItsPlace, Caught, Holding
<1> QED BY <1>2, CallKeeps DEF BusyInv, Shape

LEMMA TellKeeps ==
    ASSUME BusyInv, NEW k \in Call, job[k].cmd = "launch", NEW what, Tell(k, what)
    PROVE  BusyInv'
<1>1. Notes(k) /\ Try(k, <<>>, "returned", Uncaught)
  BY NotesFacts DEF Tell, BusyInv, Return, Goto, Send
<1>2. Alters(k) /\ at'[k] = "returned" /\ todo'[k] = <<>>
  BY <1>1, TryAlters DEF BusyInv
<1>3. CASE Heard(k)
  BY <1>2, <1>3, LaunchEndsUnheard DEF Tell
<1>4. CASE ~Heard(k)
  <2>1. DOMAIN page' = PageFields /\ page'.busy = FALSE
    BY <1>4 DEF Tell, BusyInv, Shape, PageFields
  <2> QED BY <1>2, <2>1, HookEndsWell DEF Hooks
<1> QED BY <1>3, <1>4

\* The form of a launch, its bundles, and a page that gives up on a request.
LEMMA LaunchKeeps ==
    ASSUME BusyInv, NEW k \in Call, LaunchStep(k)
    PROVE  BusyInv'
<1> USE DEF pageVars
<1>1. CASE OpenLaunch(k)
  <2>1. /\ Notes(k) /\ Try(k, <<>>, "uploadImage", Uncaught) /\ job[k].cmd = "launch" /\ at[k] = "launch"
        /\ seen'[k] = seen[k]
    BY <1>1, NotesFacts, WhoIsThere DEF OpenLaunch, At, Goto, Send, BusyInv
  <2>2. Alters(k) /\ at'[k] = "uploadImage" /\ todo'[k] = <<>> /\ job'[k].cmd = "launch"
    BY <2>1, TryAlters DEF BusyInv, Alters
  <2>3. DOMAIN page' = PageFields /\ page'.busy \in BOOLEAN
    BY <1>1 DEF OpenLaunch, BusyInv, Shape, PageFields
  <2>4. ~Heard(k)
    BY <2>1 DEF BusyInv, InItsPlace, ActiveAt, Hooks, InFlight
  <2>5. InItsPlace(k)' /\ Caught(k)' /\ Holding(k)'
    BY <2>1, <2>2, <2>4 DEF InItsPlace, Caught, Holding, ActiveAt, Hooks, InFlight, Heard, Told
  <2> QED BY <2>2, <2>3, <2>5, CallKeeps
<1>2. CASE Fails(k)
  <2>1. job[k].cmd = "launch" /\ Tell(k, "error")
    BY <1>2, WhoIsThere DEF Fails
  <2> QED BY <2>1, TellKeeps
<1>3. CASE UploadImage(k) \/ UploadMetadata(k) \/ SignCreate(k) \/ SignSwap(k)
  <2>1. /\ Notes(k) /\ seen'[k] = seen[k] /\ page' = page
        /\ at[k] \in InFlight \cup {"signCreate", "signSwap"}
        /\ \E point \in InFlight : Try(k, <<>>, point, Uncaught)
    BY <1>3, NotesFacts
       DEF UploadImage, UploadMetadata, UploadFile, SignCreate, SignSwap, GotoRow, Goto, Send, At, InFlight, BusyInv
  <2>2. Alters(k) /\ at'[k] \in InFlight /\ todo'[k] = <<>> /\ job[k].cmd = "launch"
    BY <2>1, TryAlters, WhoIsThere DEF BusyInv
  <2> QED BY <2>1, <2>2, LaunchGoesOn DEF ActiveAt
<1>4. CASE BuildCreate(k) \/ BuildSwap(k)
  <2>1. /\ Notes(k) /\ seen'[k] = seen[k] /\ page' = page
        /\ at[k] \in InFlight /\ job[k].cmd = "launch"
        /\ \E point \in {"signCreate", "signSwap"} :
              Try(k, <<>>, IF Heard(k) THEN "returned" ELSE point, Uncaught)
    BY <1>4, NotesFacts, WhoIsThere DEF BuildCreate, BuildSwap, Goto, Send, At, InFlight, BusyInv
  <2>2. CASE Heard(k)
    <3>1. Alters(k) /\ at'[k] = "returned" /\ todo'[k] = <<>>
      BY <2>1, <2>2, TryAlters DEF BusyInv
    <3> QED BY <2>1, <2>2, <3>1, LaunchEndsUnheard
  <2>3. CASE ~Heard(k)
    <3>1. Alters(k) /\ at'[k] \in {"signCreate", "signSwap"} /\ todo'[k] = <<>>
      BY <2>1, <2>3, TryAlters DEF BusyInv
    <3> QED BY <2>1, <3>1, LaunchGoesOn DEF ActiveAt
  <2> QED BY <2>2, <2>3
<1>5. CASE SendNext(k)
  <2>1. /\ at[k] = "nodes" /\ todo[k] = <<>> /\ UNCHANGED <<job, at, todo, rescue, seen, page>>
        /\ job[k].cmd = "launch"
    BY <1>5, WhoIsThere DEF SendNext, At, InFlight
  <2>2. Alters(k) /\ ActiveAt("launch", at[k])
    BY <2>1 DEF Alters, BusyInv, Shape, ActiveAt, InFlight
  <2> QED BY <2>1, <2>2, LaunchGoesOn
<1>6. CASE NodeSilent(k)
  <2>1. /\ at[k] = "nodes" /\ todo[k] = <<>> /\ Notes(k)
        /\ at' = [at EXCEPT ![k] = "returned"] /\ UNCHANGED <<job, todo, rescue>>
        /\ job[k].cmd = "launch"
    BY <1>6, WhoIsThere, NotesFacts DEF NodeSilent, At, InFlight, BusyInv
  <2>2. Alters(k) /\ at'[k] = "returned" /\ todo'[k] = <<>>
    BY <2>1 DEF Alters, BusyInv, Shape, Notes
  <2>3. CASE Heard(k)
    BY <1>6, <2>1, <2>2, <2>3, LaunchEndsUnheard DEF NodeSilent
  <2>4. CASE ~Heard(k)
    <3>1. DOMAIN page' = PageFields /\ page'.busy = FALSE
      BY <1>6, <2>4 DEF NodeSilent, BusyInv, Shape, PageFields
    <3> QED BY <2>1, <2>2, <3>1, HookEndsWell DEF Hooks
  <2> QED BY <2>3, <2>4
<1>7. CASE AllSent(k) \/ Landed(k)
  <2>1. at[k] \in InFlight /\ job[k].cmd = "launch"
    BY <1>7, WhoIsThere DEF AllSent, Landed, At, InFlight
  <2>2. CASE \E what : Tell(k, what)
    BY <2>1, <2>2, TellKeeps
  <2>3. CASE Goto(k, "landed") /\ Nothing /\ UNCHANGED pageVars
    <3>1. Notes(k) /\ seen'[k] = seen[k] /\ Try(k, <<>>, "landed", Uncaught) /\ page' = page
      BY <2>3, NotesFacts DEF Goto, Send, BusyInv
    <3>2. Alters(k) /\ at'[k] = "landed" /\ todo'[k] = <<>>
      BY <3>1, TryAlters DEF BusyInv
    <3> QED BY <2>1, <3>1, <3>2, LaunchGoesOn DEF ActiveAt, InFlight
  <2> QED BY <1>7, <2>2, <2>3 DEF AllSent, Landed
<1>8. CASE BuildBundle(k) \/ BuildLaunch(k)
  <2>1. /\ Notes(k) /\ page' = page /\ at[k] \in OtherPlace
        /\ \E point \in OtherPlace \cup {"returned"} : \E batches : Try(k, batches, point, Uncaught)
    BY <1>8, NotesFacts DEF BuildBundle, BuildLaunch, Goto, Return, Send, At, OtherPlace, BusyInv
  <2> QED BY <2>1, OtherPlaceFacts, OthersGo
<1>9. CASE Relay(k)
  <2>1. /\ at[k] = "relay" /\ Notes(k) /\ at' = [at EXCEPT ![k] = "returned"]
        /\ UNCHANGED <<job, todo, rescue, page>>
    BY <1>9, NotesFacts DEF Relay, At, BusyInv
  <2>2. Alters(k) /\ at'[k] = "returned"
    BY <2>1 DEF Alters, BusyInv, Shape, Notes
  <2>3. Foreign(at[k]) /\ Foreign("returned") /\ job[k].cmd \notin Hooks
    BY <2>1, OtherPlaceFacts DEF OtherPlace, Foreign, BusyInv, InItsPlace
  <2>4. \A how \in Failures : Foreign(rescue'[k][how])
    BY <2>1, <2>3 DEF BusyInv, Caught
  <2> QED BY <2>1, <2>2, <2>3, <2>4, OthersKeep
<1> QED BY <1>1, <1>2, <1>3, <1>4, <1>5, <1>6, <1>7, <1>8, <1>9 DEF LaunchStep

LEMMA GivesUpKeeps ==
    ASSUME BusyInv, NEW k \in Call, GivesUp(k)
    PROVE  BusyInv'
<1>1. /\ at[k] \in InFlight /\ Notes(k) /\ job[k].cmd = "launch" /\ UNCHANGED <<job, at, todo, rescue>>
      /\ page' = [page EXCEPT !.busy = FALSE]
  BY NotesFacts, WhoIsThere DEF GivesUp, BusyInv
<1>2. Alters(k) /\ DOMAIN page' = PageFields /\ page'.busy = FALSE
  BY <1>1 DEF Alters, Notes, BusyInv, Shape, PageFields
<1>3. InItsPlace(k)' /\ Caught(k)'
  BY <1>1 DEF BusyInv, InItsPlace, Caught, ActiveAt, Hooks
<1> QED BY <1>2, <1>3, CallKeeps

\* What is sent goes on, or fails and is caught where the call has said.
LEMMA ThrowKeeps ==
    ASSUME BusyInv, NEW k \in Call, todo[k] # <<>>, NEW how \in Failures, Throw(k, how), UNCHANGED page
    PROVE  BusyInv'
<1>1. /\ Alters(k) /\ at'[k] = rescue[k][how] /\ todo'[k] = <<>> /\ rescue'[k] = Uncaught
      /\ seen'[k] = seen[k]
  BY DEF Throw, Alters, BusyInv, Shape
<1>2. Caught(k) /\ InItsPlace(k)
  BY DEF BusyInv
<1>3. CASE job[k].cmd \in Hooks
  <2>1. at[k] = "rowDone" /\ rescue[k] = RowCatch /\ job[k].cmd \in {"exitAll", "batch"}
    BY <1>2, <1>3, WhoIsThere DEF Caught
  <2>2. at'[k] \in {"rowDone", "rowFailed"}
    BY <1>1, <2>1, RowCatchFacts
  <2> QED BY <1>1, <2>1, <2>2, HookGoesOn DEF ActiveAt, BusyInv, Shape
<1>4. CASE job[k].cmd \notin Hooks
  <2>1. Foreign(at'[k]) /\ \A h \in Failures : Foreign(rescue'[k][h])
    BY <1>1, <1>2, <1>4, UncaughtIsForeign DEF Caught
  <2>2. InItsPlace(k)' /\ Caught(k)' /\ ~Holding(k)
    BY <1>1, <1>4, <2>1 DEF Alters, InItsPlace, Caught, Holding, ActiveAt, Hooks
  <2> QED BY <1>1, <2>2, CallKeeps DEF BusyInv, Shape
<1> QED BY <1>3, <1>4

LEMMA StaysKeeps ==
    ASSUME BusyInv, NEW k \in Call, UNCHANGED <<at, rescue, seen, job, page>>,
           todo' = todo \/ todo' = [todo EXCEPT ![k] = Tail(@)], todo[k] # <<>>
    PROVE  BusyInv'
<1>1. Alters(k)
  BY DEF Alters, BusyInv, Shape
<1>2. InItsPlace(k)' /\ Caught(k)' /\ (Holding(k) => Holding(k)')
  BY DEF BusyInv, InItsPlace, Caught, Holding, Over, At, Heard, Told
<1> QED BY <1>1, <1>2, CallKeeps DEF BusyInv, Shape

LEMMA DeliveryKeeps ==
    ASSUME BusyInv, NEW k \in Call, Delivery(k), UNCHANGED page
    PROVE  BusyInv'
<1>1. CASE Simulate(k)
  BY <1>1, ThrowKeeps, StaysKeeps DEF Simulate, Prepared, Next1, Failures
<1>2. CASE Submit(k)
  BY <1>2, StaysKeeps DEF Submit, Prepared
<1>3. CASE Refused(k)
  BY <1>3, ThrowKeeps DEF Refused, Prepared, Failures
<1>4. CASE Confirmed(k)
  BY <1>4, StaysKeeps DEF Confirmed, Waiting, Next1
<1>5. CASE NotConfirmed(k)
  BY <1>5, ThrowKeeps DEF NotConfirmed, Waiting, Failures
<1> QED BY <1>1, <1>2, <1>3, <1>4, <1>5 DEF Delivery

\* A process that may be killed is none of the page's.
LEMMA KilledKeeps ==
    ASSUME BusyInv, NEW k \in Call, Killed(k)
    PROVE  BusyInv'
<1>1. page' = page
  BY DEF Killed, pageVars
<1>2. CASE Fault(k)
  BY <1>1, <1>2, ThrowKeeps DEF Fault, Failures
<1>3. CASE job[k].cmd \notin Hooks /\ Stop(k)
  <2>1. Alters(k) /\ at'[k] = "stopped" /\ rescue'[k] = Uncaught
    BY <1>3 DEF Stop, Alters, BusyInv, Shape
  <2>2. InItsPlace(k)' /\ Caught(k)' /\ ~Holding(k)
    BY <1>3, <2>1, UncaughtIsForeign DEF Alters, InItsPlace, Caught, Holding, ActiveAt, Hooks, BusyInv,
       Failures
  <2> QED BY <1>1, <2>1, <2>2, CallKeeps DEF BusyInv, Shape
<1> QED BY <1>2, <1>3 DEF Killed

\* A call begins.
LEMMA StartKeeps ==
    ASSUME BusyInv, NEW k \in Call, Start(k)
    PROVE  BusyInv'
<1>1. /\ Notes(k) /\ seen'[k] = seen[k] /\ page' = page /\ at[k] = "idle"
      /\ Try(k, <<>>, Entry(job[k].cmd), Uncaught)
  BY NotesFacts DEF Start, Goto, Send, BusyInv, pageVars
<1>2. /\ Alters(k) /\ at'[k] = Entry(job[k].cmd) /\ todo'[k] = <<>> /\ rescue'[k] = Uncaught
      /\ job[k].cmd \in Commands /\ job'[k].cmd = job[k].cmd
  BY <1>1, TryAlters DEF BusyInv, Alters, Shape
<1>3. ~Holding(k)
  BY <1>1 DEF Holding, ActiveAt, InFlight, Over, At
<1>4. CASE job[k].cmd \in Hooks
  <2>1. at'[k] = job'[k].cmd /\ ~Heard(k)'
    BY <1>1, <1>2, <1>4 DEF Entry, Hooks, PositionCommands, BusyInv, InItsPlace, ActiveAt, InFlight, Heard, Told
  <2>2. InItsPlace(k)' /\ Caught(k)'
    BY <1>2, <1>4, <2>1 DEF InItsPlace, Caught
  <2> QED BY <1>1, <1>2, <1>3, <2>2, CallKeeps DEF BusyInv, Shape
<1>5. CASE job[k].cmd \notin Hooks
  <2>1. Foreign(at'[k])
    BY <1>2, <1>5 DEF Entry, Commands, PositionCommands, Foreign, Hooks, ActiveAt, InFlight
  <2>2. InItsPlace(k)' /\ Caught(k)'
    BY <1>2, <1>5, <2>1, UncaughtIsForeign DEF InItsPlace, Caught
  <2> QED BY <1>1, <1>2, <1>3, <2>2, CallKeeps DEF BusyInv, Shape
<1> QED BY <1>4, <1>5

\* Nothing of the calls changes, and the flag is at most lowered.
LEMMA BusyApart ==
    ASSUME BusyInv, UNCHANGED <<job, at, todo, rescue, seen>>,
           DOMAIN page' = PageFields, page'.busy \in {page.busy, FALSE}
    PROVE  BusyInv'
<1>1. \A k \in Call : (InItsPlace(k) => InItsPlace(k)') /\ (Caught(k) => Caught(k)') /\ (Holding(k) => Holding(k)')
  BY DEF InItsPlace, Caught, Holding, Over, At, Heard, Told
<1> QED BY <1>1 DEF BusyInv, Shape

LEMMA BusyInit ==
    ASSUME NEW input \in Inputs, job = input.job,
           at = [k \in Call |-> "idle"], todo = [k \in Call |-> <<>>],
           rescue = [k \in Call |-> Uncaught], seen = [k \in Call |-> {}], page = EmptyPage
    PROVE  BusyInv
<1>1. Shape /\ ~page.busy
  BY InputsAssumption DEF Shape, EmptyPage, PageFields
<1>2. ASSUME NEW k \in Call
      PROVE  InItsPlace(k) /\ Caught(k)
  <2>1. at[k] = "idle" /\ todo[k] = <<>> /\ rescue[k] = Uncaught /\ seen[k] = {}
    OBVIOUS
  <2> QED BY <2>1, UncaughtIsForeign
          DEF InItsPlace, Caught, Heard, Told, Foreign, Hooks, ActiveAt, InFlight
<1> QED BY <1>1, <1>2 DEF BusyInv

-----------------------------------------------------------------------------
(* What is told is true.  Every call is followed along the places of its    *)
(* command: what it has sent, what of that was executed, and what it notes. *)

\* Before a split has sent anything.
Before == {"idle", "position", "positions", "chosen"}

\* What a transaction of call k may make and drop.
Proper(k, x) ==
    /\ x.by = k
    /\ x.op = "createPosition" => x = createPosition(k)
    /\ \A f \in x.makes :
          \/ f[1] \in {"split", "free", "owner", "creationFee", "bought"}
          \/ f[1] = "done" /\ f[2] = k
          \/ f \in {<<"curve", k>>, <<"tip", k>>}
          \/ f = <<"open", NewPosition[k]>> /\ x.op = "createPosition"
    /\ \A f \in x.drops : f[1] \in {"free", "vested", "locked", "fee", "open", "due"}
Sends(k, x) == Proper(k, x) /\ x.op # "createPosition"
Single(k, batches) == batches = <<>> \/ \E x : batches = <<{x}>> /\ Proper(k, x)

CallsOK ==
    /\ at \in [Call -> Place]
    /\ todo = [k \in Call |-> todo[k]] /\ \A k \in Call : Single(k, todo[k])
    /\ stage \in [Call -> {"ready", "sent"}] /\ \A k \in Call : todo[k] = <<>> => stage[k] = "ready"
    /\ round \in [Call -> Nat]
    /\ rescue \in [Call -> [Failures -> Place \ Before]]
    /\ DOMAIN seen = Call
    /\ built = [k \in Call |-> built[k]]
    /\ \A k \in Call : \A i \in DOMAIN built[k] : Sends(k, built[k][i])
    /\ \A k \in Call : at[k] \in Before => todo[k] = <<>>
    /\ \A k \in Call : job[k].dry => job[k].cmd \in PositionCommands \cup {"exitAll"}
SentOK ==
    /\ IsFiniteSet({f \in facts : f[1] = "lp"})
    /\ \A x \in pending : x.by \in Call /\ Proper(x.by, x)
    /\ \A z \in fate : z[2] \in Outcome /\ z[1].by \in Call /\ Awaited(z[1])
IsRow(row) ==
    /\ DOMAIN row = {"of", "listed", "status", "by"}
    /\ row.status \in Status /\ row.listed \in Call /\ row.by \in Call
PageOK ==
    /\ DOMAIN page = {"busy", "rows", "flag", "newest", "stopped"} /\ page.busy \in BOOLEAN /\ page.flag \in BOOLEAN
    /\ page.rows = [i \in DOMAIN page.rows |-> page.rows[i]] /\ \A i \in DOMAIN page.rows : IsRow(page.rows[i])
    /\ page.newest \in Call \cup {"none"} /\ page.stopped \subseteq Call

\* A split creates its position once, so that a position that is gone stays gone.
Creating(k) == Prepared(k) /\ createPosition(k) \in Batch(k)
Ahead(k) == createPosition(k) \in pending \/ Creating(k) \/ (job[k].cmd = "split" /\ at[k] \in Before)
FreshOK(k) ==
    /\ at[k] \in Before \/ Creating(k) => createPosition(k) \notin pending
    /\ Ahead(k) => <<"open", NewPosition[k]>> \notin facts

\* The bulletproof exit: all of its attempts take the whole balance it has read.
Answers == {<<"answer", "success">>, <<"answer", "gaveUp">>}
Unbegun(k) ==
    /\ at[k] \in {"idle", "bulletproof", "gaveUp", "returned", "stopped"} /\ todo[k] = <<>>
    /\ seen[k] \subseteq {<<"answer", "gaveUp">>}
    /\ at[k] \in {"idle", "bulletproof"} => seen[k] = {}
    /\ \A x \in pending : x.by # k
    /\ \A i \in Nat : ~IsDone(k, i)
Balance(k, n, a) ==
    /\ IsFiniteSet(Lps(n))
    /\ \/ Cardinality(Lps(n)) <= a /\ \A i \in Nat : ~IsDone(k, i)
       \/ Lps(n) = {} /\ \E i \in 1..Attempts : \A j \in Nat : IsDone(k, j) <=> j = i
Trying(k, n, a) ==
    /\ at[k] \in {"attempt", "again", "success", "gaveUp", "returned", "stopped"}
    /\ <<"amount", n, a>> \in seen[k] /\ seen[k] \subseteq {<<"amount", n, a>>} \cup Answers
    /\ round[k] \in 1..Attempts
    /\ \A x \in pending : x.by = k => \E i \in 1..Attempts : x = LpTx(k, i, n, a)
    /\ todo[k] # <<>> =>
          todo[k] = <<{LpTx(k, round[k], n, a)}>> /\ at[k] = "success" /\ rescue[k] = AttemptCatch
    /\ Balance(k, n, a)
    /\ At(k, "success") \/ <<"answer", "success">> \in seen[k] => \E i \in Nat : IsDone(k, i)
    /\ <<LpTx(k, round[k], n, a), "ok">> \in fate => IsDone(k, round[k])
BulletOK(k) ==
    job[k].cmd = "bulletproof" => Unbegun(k) \/ \E n \in LpPool, a \in Nat \ {0} : Trying(k, n, a)

\* The loops over rows: what a transaction of a row needs does not come back.
Settled(k, i) == IsDone(k, i) \/ ~(built[k][i].needs \subseteq facts)
GoneForGood(f) ==
    \/ f[1] = "vaultIs"
    \/ f[1] = "curve" /\ f \in facts
    \/ f[1] = "open" /\ \A j \in Call : f = <<"open", NewPosition[j]>> => ~Ahead(j)
RowTx(k, i, x) ==
    /\ x.makes = {Done(k, i)} /\ x.without = {} /\ x.takes = <<0, 0>>
    /\ \A f \in x.needs : GoneForGood(f)
RunOK(k) ==
    job[k].cmd \in Loops =>
        /\ \A i \in DOMAIN built[k] : RowTx(k, i, built[k][i])
        /\ at[k] \in {"signing", "rows", "rowDone", "rowFailed"} => ~job[k].dry
        /\ at[k] \in {"rowDone", "rowFailed"} => round[k] \in DOMAIN built[k]
        /\ At(k, "rowDone") => Settled(k, round[k])
        /\ todo[k] # <<>> => round[k] \in DOMAIN built[k] /\ todo[k] = <<{built[k][round[k]]}>>
        /\ \A z \in fate : z[1].by = k /\ z[2] # "expired" => round[k] \in DOMAIN built[k] /\ Settled(k, round[k])
        /\ job[k].cmd = "batch" => \A f \in seen[k] : f[1] = "pool" =>
              \E m \in Mint, decoded \in BOOLEAN : f = <<"pool", m, decoded>> /\ <<"curve", m>> \in facts
RowIsOwn(k, i, of) == NoneSkipped(k) => of \in built[k][i].needs
RowsOK ==
    \A i \in DOMAIN page.rows :
        /\ job[page.rows[i].listed].cmd \in Loops /\ RowIsOwn(page.rows[i].listed, i, page.rows[i].of)
        /\ page.rows[i].status = "confirmed" =>
              LET k == page.rows[i].by
              IN job[k].cmd \in Loops /\ i \in DOMAIN built[k] /\ Settled(k, i)

\* The form: files before the pool, a node's word for each transaction.
Files(k) == {<<"image", k>>, <<"metadata", k>>}
AllAccepted(k) == \A i \in DOMAIN built[k] : Accepted(k, i) \in facts
LaunchOK(k) ==
    job[k].cmd = "launch" =>
        /\ built[k] \in {<<>>, <<CreateTx(k)>>, <<CreateTx(k), SwapTx(k)>>}
        /\ at[k] \in {"idle", "launch", "uploadImage", "uploadMetadata", "buildCreate"} => built[k] = <<>>
        /\ at[k] \in {"uploadMetadata", "buildCreate"} => <<"image", k>> \in facts
        /\ at[k] = "buildCreate" \/ built[k] # <<>> \/ <<"curve", k>> \in facts => Files(k) \subseteq facts
        /\ at[k] \in {"signCreate", "buildSwap"} => built[k] = <<CreateTx(k)>>
        /\ at[k] \in {"buildSwap", "signSwap"} => round[k] = 1
        /\ at[k] = "nodes" => round[k] >= 1 /\ \A i \in DOMAIN built[k] : i < round[k] => Accepted(k, i) \in facts
        /\ \A x \in pending : x.by = k => x \in {CreateTx(k), SwapTx(k)} /\ built[k] # <<>>
        /\ SwapTx(k) \in pending \/ <<"tip", k>> \in facts => Accepted(k, 1) \in facts
        /\ at[k] = "landed" => AllAccepted(k)
        /\ Told(k, "ok") => AllAccepted(k) /\ at[k] = "returned"

CallOK(k) == FreshOK(k) /\ BulletOK(k) /\ RunOK(k) /\ LaunchOK(k)
ToldInv == CallsOK /\ SentOK /\ PageOK /\ RowsOK /\ \A k \in Call : CallOK(k)

-----------------------------------------------------------------------------
(* The transactions of the calls.                                          *)

\* What a command of the studio sends is made for its own call.
LEMMA PositionTxs ==
    ASSUME NEW k \in Call, NEW p
    PROVE  /\ Proper(k, createPosition(k))
           /\ Sends(k, SplitTx(k, p)) /\ Sends(k, ClaimTx(k, p)) /\ Sends(k, AddTx(k, p))
           /\ Sends(k, RemoveTx(k, p)) /\ Sends(k, CloseTx(k, p))
<1>1. Proper(k, createPosition(k))
  <2>1. /\ createPosition(k).by = k /\ createPosition(k).op = "createPosition"
        /\ createPosition(k).drops = {}
        /\ createPosition(k).makes = {<<"open", NewPosition[k]>>} \cup {<<"owner", NewPosition[k], job[k].owner>>}
    BY DEF createPosition, Creates, Bare
  <2> QED BY <2>1 DEF Proper
<1>2. Sends(k, SplitTx(k, p))
  <2>1. /\ SplitTx(k, p).by = k /\ SplitTx(k, p).op = "splitPosition" /\ SplitTx(k, p).drops = {}
        /\ SplitTx(k, p).makes = {<<"split", p, NewPosition[k]>>}
    BY DEF SplitTx, OnOpen, Bare
  <2> QED BY <2>1 DEF Proper, Sends
<1>3. Sends(k, ClaimTx(k, p))
  <2>1. /\ ClaimTx(k, p).by = k /\ ClaimTx(k, p).op = "claimPositionFee"
        /\ ClaimTx(k, p).drops = {<<"fee", p>>} /\ ClaimTx(k, p).makes = {}
    BY DEF ClaimTx, OnOpen, Bare
  <2> QED BY <2>1 DEF Proper, Sends
<1>4. Sends(k, AddTx(k, p))
  <2>1. /\ AddTx(k, p).by = k /\ AddTx(k, p).op = "addLiquidity"
        /\ AddTx(k, p).drops = {} /\ AddTx(k, p).makes = {<<"free", p, k>>}
    BY DEF AddTx, AtQuote, OnOpen, Bare
  <2> QED BY <2>1 DEF Proper, Sends
<1>5. Sends(k, RemoveTx(k, p))
  <2>1. /\ RemoveTx(k, p).by = k /\ RemoveTx(k, p).op = "removeLiquidity" /\ RemoveTx(k, p).makes = {}
        /\ RemoveTx(k, p).drops = Free(p, seen[k]) \cup Vested(p, seen[k])
    BY DEF RemoveTx, AtQuote, OnOpen, Bare
  <2> QED BY <2>1 DEF Proper, Sends, Free, Vested
<1>6. Sends(k, CloseTx(k, p))
  <2>1. /\ CloseTx(k, p).by = k /\ CloseTx(k, p).op = "closePosition" /\ CloseTx(k, p).makes = {}
        /\ CloseTx(k, p).drops = {<<"open", p>>}
    BY DEF CloseTx, OnOpen, Bare
  <2> QED BY <2>1 DEF Proper, Sends
<1> QED BY <1>1, <1>2, <1>3, <1>4, <1>5, <1>6

\* The transactions of the exits, spelled out.
LEMMA RemoveAllTxIs ==
    ASSUME NEW k \in Call, NEW i, NEW p
    PROVE  LET x == RemoveAllTx(k, i, p)
           IN /\ Sends(k, x) /\ x.makes = {Done(k, i)} /\ x.without = {} /\ x.takes = <<0, 0>>
              /\ x.needs = {<<"open", p>>}
<1> DEFINE x == RemoveAllTx(k, i, p)
<1>1. /\ x.by = k /\ x.op = "removeAll" /\ x.makes = {Done(k, i)} /\ x.without = {} /\ x.takes = <<0, 0>>
      /\ x.needs = {<<"open", p>>} /\ x.drops = Free(p, Liquidity(p))
  BY DEF RemoveAllTx, OnOpen, Bare
<1> HIDE DEF x
<1>2. Sends(k, x)
  BY <1>1 DEF Proper, Sends, Free, Done
<1> QED BY <1>1, <1>2 DEF x

LEMMA ClaimFeeIs ==
    ASSUME NEW k \in Call, NEW i, NEW m, NEW decoded \in BOOLEAN
    PROVE  LET x == ClaimFee(k, i, m, decoded)
           IN /\ Sends(k, x) /\ x.makes = {Done(k, i)} /\ x.without = {} /\ x.takes = <<0, 0>>
              /\ x.needs \subseteq {<<"curve", m>>, <<"vaultIs", m, "pool">>}
<1> DEFINE x == ClaimFee(k, i, m, decoded)
<1>1. /\ x.by = k /\ x.op = "claimFee" /\ x.makes = {Done(k, i)} /\ x.without = {} /\ x.takes = <<0, 0>>
      /\ x.needs = {<<"curve", m>>} \cup (IF decoded THEN {} ELSE {<<"vaultIs", m, "pool">>})
      /\ x.drops = {<<"due", m>>}
  BY DEF ClaimFee, Bare
<1> HIDE DEF x
<1>2. Sends(k, x)
  BY <1>1 DEF Proper, Sends, Done
<1> QED BY <1>1, <1>2 DEF x

\* A claim is of its own pool.
LEMMA ClaimFeeOf ==
    ASSUME NEW k \in Call, NEW i, NEW m, NEW decoded
    PROVE  <<"curve", m>> \in ClaimFee(k, i, m, decoded).needs
  BY DEF ClaimFee, Bare

LEMMA LpTxIs ==
    ASSUME NEW k \in Call, NEW i, NEW n, NEW a
    PROVE  LET x == LpTx(k, i, n, a)
           IN /\ Sends(k, x) /\ Sends(k, TwoPrices(x)) /\ x.by = k /\ x.att = i
              /\ x.makes = {Done(k, i)} /\ x.takes = <<n, a>> /\ x.drops = {} /\ x.op = "removeLp"
<1> DEFINE x == LpTx(k, i, n, a)
<1>1. /\ x.by = k /\ x.op = "removeLp" /\ x.makes = {Done(k, i)} /\ x.takes = <<n, a>> /\ x.drops = {}
      /\ x.att = i
      /\ TwoPrices(x).by = k /\ TwoPrices(x).op = "removeLp" /\ TwoPrices(x).makes = {Done(k, i)}
      /\ TwoPrices(x).drops = {}
  BY DEF LpTx, TwoPrices, Bare
<1> HIDE DEF x
<1>2. Sends(k, x) /\ Sends(k, TwoPrices(x))
  BY <1>1 DEF Proper, Sends, Done
<1> QED BY <1>1, <1>2 DEF x

LEMMA ExitTxs ==
    ASSUME NEW k \in Call, NEW p, NEW more
    PROVE  Sends(k, [RemoveTx1(k, p) EXCEPT !.needs = @ \cup more])
<1> DEFINE x == [RemoveTx1(k, p) EXCEPT !.needs = @ \cup more]
<1>1. CASE job[k].percent = 100
  <2>1. x = [RemoveAllTx(k, 1, p) EXCEPT !.needs = @ \cup more]
    BY <1>1 DEF RemoveTx1
  <2>2. /\ x.by = k /\ x.op = "removeAll" /\ x.makes = {Done(k, 1)} /\ x.drops = Free(p, Liquidity(p))
    BY ZenonT(60), <2>1 DEF RemoveAllTx, OnOpen, Bare
  <2> QED BY <2>2 DEF Proper, Sends, Free, Done
<1>2. CASE job[k].percent # 100
  <2>1. /\ x.by = k /\ x.op = "removeSome" /\ x.makes = {Done(k, 1)} /\ x.drops = liquidityDelta(k)
    BY <1>2 DEF RemoveTx1, OnOpen, Bare
  <2> QED BY <2>1 DEF Proper, Sends, Free, liquidityDelta, Done
<1> QED BY <1>1, <1>2

\* The transactions of a launch.
LEMMA LaunchTxs ==
    ASSUME NEW k \in Call
    PROVE  /\ Sends(k, CreateTx(k)) /\ Sends(k, SwapTx(k)) /\ Sends(k, BundleTx(k))
           /\ CreateTx(k).op = "createPool" /\ SwapTx(k).op = "swapPlaceholder"
           /\ SwapTx(k).makes = {<<"tip", k>>}
           /\ CreateTx(k).makes = {<<"curve", k>>, <<"creationFee", k>>}
<1>1. /\ CreateTx(k).by = k /\ CreateTx(k).op = "createPool" /\ CreateTx(k).drops = {}
      /\ CreateTx(k).makes = {<<"curve", k>>, <<"creationFee", k>>}
  BY DEF CreateTx, Creates, Bare
<1>2. /\ SwapTx(k).by = k /\ SwapTx(k).op = "swapPlaceholder" /\ SwapTx(k).drops = {}
      /\ SwapTx(k).makes = {<<"tip", k>>}
  BY DEF SwapTx, Bare
<1>3. /\ BundleTx(k).by = k /\ BundleTx(k).op = "bundle" /\ BundleTx(k).drops = {}
      /\ BundleTx(k).makes = {<<"curve", k>>, <<"bought", k>>}
  BY DEF BundleTx, Creates, Bare
<1> QED BY <1>1, <1>2, <1>3 DEF Proper, Sends

-----------------------------------------------------------------------------
(* What every step of a call does, and what it leaves alone.               *)

Walks(k) ==
    /\ job' = job
    /\ at' = [at EXCEPT ![k] = at'[k]] /\ at'[k] \in Place
    /\ at'[k] \in Before => at[k] \in Before /\ todo'[k] = <<>>
    /\ todo' = [todo EXCEPT ![k] = todo'[k]] /\ Single(k, todo'[k])
    /\ stage' = [stage EXCEPT ![k] = stage'[k]] /\ stage'[k] \in {"ready", "sent"}
    /\ todo'[k] = <<>> => stage'[k] = "ready"
    /\ round' = [round EXCEPT ![k] = round'[k]] /\ round'[k] \in Nat
    /\ rescue' = [rescue EXCEPT ![k] = rescue'[k]] /\ rescue'[k] \in [Failures -> Place \ Before]
    /\ Notes(k)
    /\ Creating(k)' => job[k].cmd = "split" /\ at[k] \in Before /\ pending' = pending

\* It sends transactions of its own, stops hearing of what it had sent, and
\* notes only files and the answers of nodes outside the programs.
Touches(k) ==
    /\ pending \subseteq pending'
    /\ \A x \in pending' \ pending : Proper(k, x) /\ (x.op = "createPosition" => Creating(k))
    /\ fate' \subseteq fate
    /\ \A z \in fate : z[1].by # k => z \in fate'
    /\ \A z \in fate' : z[1].by # k
    /\ facts \subseteq facts'
    /\ \A f \in facts' \ facts : f[1] \in {"image", "metadata", "accepted"}

\* It builds only for itself, and either lists rows of its own or goes on with
\* those that are there, where it calls a row confirmed only as one is done.
Lists(k, i) ==
    /\ page'.rows[i].listed = k /\ page'.rows[i].status # "confirmed"
    /\ DOMAIN built'[k] = DOMAIN page'.rows => page'.rows[i].of \in built'[k][i].needs
Follows(k, i) ==
    /\ page'.rows[i].of = page.rows[i].of /\ page'.rows[i].listed = page.rows[i].listed
    /\ page'.rows[i].status = "confirmed" =>
          \/ page.rows[i].status = "confirmed" /\ page'.rows[i].by = page.rows[i].by
          \/ At(k, "rowDone") /\ i = round[k] /\ job[k].cmd \in Loops /\ page'.rows[i].by = k
NewList(k) == job[k].cmd \in Loops /\ \A i \in DOMAIN page'.rows : Lists(k, i)
SameList(k) ==
    /\ DOMAIN page'.rows = DOMAIN page.rows
    /\ job[k].cmd \in Loops => built'[k] = built[k]
    /\ \A i \in DOMAIN page.rows : Follows(k, i)
Marks(k) ==
    /\ built' = [built EXCEPT ![k] = built'[k]] /\ \A i \in DOMAIN built'[k] : Sends(k, built'[k][i])
    /\ PageOK'
    /\ NewList(k) \/ SameList(k)

Shaped(k) == Walks(k) /\ Touches(k) /\ Marks(k)

\* The common step: from a place where nothing is awaited to the next one.
Stepping(k) ==
    /\ todo[k] = <<>> /\ Notes(k)
    /\ round' = round \/ \E i \in Nat : round' = [round EXCEPT ![k] = i]
    /\ \E b : \E point \in Place, catch \in {Uncaught, AttemptCatch, RowCatch} :
          /\ Try(k, b, point, catch)
          /\ b = <<>> \/ \E x : b = <<{x}>> /\ Proper(k, x) /\ (Sends(k, x) \/ (job[k].cmd = "split" /\ at[k] \in Before))
          /\ point \in Before => at[k] \in Before /\ b = <<>>

\* Where a failure is caught; never at a place before a call has sent anything.
LEMMA CatchesAre ==
    \A catch \in {Uncaught, AttemptCatch, RowCatch} : catch \in [Failures -> Place \ Before]
<1>1. {"stopped", "again", "rowDone", "rowFailed"} \subseteq Place \ Before
  BY DEF Place, Before
<1> QED BY <1>1 DEF Uncaught, AttemptCatch, RowCatch, CaughtAs, Failures

LEMMA NothingHeard ==
    ASSUME SentOK, NEW k \in Call, todo[k] = <<>> \/ stage[k] = "ready"
    PROVE  \A z \in fate : z[1].by # k
  BY DEF SentOK, Awaited, Waiting

\* The common step moves only its own call, sends nothing and tells nobody.
LEMMA SteppingWalks ==
    ASSUME CallsOK, NEW k \in Call, Stepping(k)
    PROVE  Walks(k) /\ pending' = pending /\ fate' = fate
<1>0. PICK b : \E point \in Place, catch \in {Uncaught, AttemptCatch, RowCatch} :
          /\ Try(k, b, point, catch)
          /\ b = <<>> \/ \E x : b = <<{x}>> /\ Proper(k, x) /\ (Sends(k, x) \/ (job[k].cmd = "split" /\ at[k] \in Before))
          /\ point \in Before => at[k] \in Before /\ b = <<>>
  BY DEF Stepping
<1>1. PICK point \in Place, catch \in {Uncaught, AttemptCatch, RowCatch} :
          /\ Try(k, b, point, catch)
          /\ b = <<>> \/ \E x : b = <<{x}>> /\ Proper(k, x) /\ (Sends(k, x) \/ (job[k].cmd = "split" /\ at[k] \in Before))
          /\ point \in Before => at[k] \in Before /\ b = <<>>
  BY <1>0
<1>2. /\ at' = [at EXCEPT ![k] = point] /\ todo' = [todo EXCEPT ![k] = b] /\ rescue' = [rescue EXCEPT ![k] = catch]
      /\ UNCHANGED <<stage, pending, fate, job>>
  BY <1>1 DEF Try
<1>3. at'[k] = point /\ todo'[k] = b /\ rescue'[k] = catch
  BY <1>2 DEF CallsOK
<1>4. stage[k] = "ready" /\ todo[k] = <<>> /\ stage = [stage EXCEPT ![k] = stage[k]]
  BY DEF CallsOK, Stepping
<1>5. catch \in [Failures -> Place \ Before]
  BY CatchesAre
<1>6. round' = [round EXCEPT ![k] = round'[k]] /\ round'[k] \in Nat
  BY DEF Stepping, CallsOK
<1>7. Single(k, b)
  BY <1>1 DEF Single
<1>8. ASSUME Creating(k)' PROVE job[k].cmd = "split" /\ at[k] \in Before
  <2>1. b # <<>> /\ createPosition(k) \in b[1]
    BY <1>2, <1>3, <1>8 DEF Creating, Prepared, Batch, createPosition, Creates, Bare
  <2>2. PICK x : b = <<{x}>> /\ (Sends(k, x) \/ (job[k].cmd = "split" /\ at[k] \in Before))
    BY <1>1, <2>1
  <2>3. x.op = "createPosition"
    <3>1. x = createPosition(k)
      BY <2>1, <2>2
    <3> QED BY <3>1 DEF createPosition, Creates, Bare
  <2> QED BY <2>2, <2>3 DEF Sends
<1> QED BY <1>1, <1>2, <1>3, <1>4, <1>5, <1>6, <1>7, <1>8 DEF Walks, Stepping

LEMMA SteppingTouches ==
    ASSUME CallsOK, SentOK, NEW k \in Call, Stepping(k), facts' = facts
    PROVE  Walks(k) /\ Touches(k)
  BY SteppingWalks, NothingHeard DEF Touches, Stepping

LEMMA SteppingAside ==
    ASSUME CallsOK, SentOK, PageOK, NEW k \in Call, Stepping(k), UNCHANGED <<facts, page, built>>
    PROVE  Shaped(k)
<1>1. Marks(k)
  BY DEF Marks, SameList, Follows, PageOK, CallsOK
<1> QED BY <1>1, SteppingTouches DEF Shaped

\* The forms of a step.
LEMMA GotoSteps ==
    ASSUME NEW k \in Call, todo[k] = <<>>, Notes(k), NEW point \in Place, Goto(k, point),
           point \in Before => at[k] \in Before
    PROVE  Stepping(k) /\ facts' = facts
  BY DEF Goto, Send, Stepping

LEMMA GotoRowSteps ==
    ASSUME NEW k \in Call, todo[k] = <<>>, Notes(k), NEW point \in Place \ Before, NEW i \in Nat, GotoRow(k, point, i)
    PROVE  Stepping(k) /\ facts' = facts
  BY DEF GotoRow, Stepping

\* The operators the actions are written with are all such steps.
LEMMA SendSteps ==
    ASSUME NEW k \in Call, todo[k] = <<>>, Notes(k), NEW point \in Place \ Before, NEW x, Send(k, <<{x}>>, point),
           Proper(k, x), Sends(k, x) \/ (job[k].cmd = "split" /\ at[k] \in Before)
    PROVE  Stepping(k) /\ facts' = facts
<1>1. Try(k, <<{x}>>, point, Uncaught) /\ round' = round /\ facts' = facts
  BY DEF Send
<1> QED BY <1>1 DEF Stepping

LEMMA SendsSteps ==
    ASSUME NEW k \in Call, todo[k] = <<>>, Notes(k), NEW point \in Place \ Before, NEW x, Send(k, <<{x}>>, point),
           Sends(k, x)
    PROVE  Stepping(k) /\ facts' = facts
  BY SendSteps DEF Sends

-----------------------------------------------------------------------------
(* Every step is of that shape.                                            *)

\* The studio's commands.
LEMMA PositionShape ==
    ASSUME BusyInv, CallsOK, SentOK, PageOK, NEW k \in Call, PositionStep(k), UNCHANGED pageVars
    PROVE  Shaped(k)
<1>0. /\ {"positions", "chosen", "stopped", "returned", "findSecond", "refetch", "quoted", "remains", "verified"} \subseteq Place
      /\ {"stopped", "returned", "findSecond", "refetch", "quoted", "remains", "verified"} \subseteq Place \ Before
      /\ {"position", "positions", "chosen"} \subseteq Before
  BY DEF Place, PositionPlaces, Before
<1>1. Stepping(k) /\ facts' = facts
  <2>1. CASE FetchPool(k) \/ NoPosition(k) \/ ChoosePosition(k) \/ PositionGone(k)
    <3>1. Notes(k) /\ todo[k] = <<>>
      BY <2>1, NotesFacts DEF BusyInv, FetchPool, NoPosition, ChoosePosition, PositionGone, At
    <3>2. \E point \in {"positions", "chosen", "stopped", "returned"} :
             Goto(k, point) /\ (point \in Before => at[k] \in {"position", "positions"})
      BY <2>1, <1>0 DEF FetchPool, NoPosition, ChoosePosition, PositionGone, At, Return
    <3> QED BY <1>0, <3>1, <3>2, GotoSteps
  <2>2. CASE SplitCreate(k)
    BY <1>0, <2>2, NotesFacts, PositionTxs, SendSteps DEF SplitCreate, Doing, At, BusyInv
  <2>3. CASE SplitPosition(k)
    BY <1>0, <2>3, NotesFacts, PositionTxs, SendsSteps, GotoSteps DEF SplitPosition, Doing, At, BusyInv
  <2>4. CASE ClaimPositionFee(k) \/ AddLiquidity(k) \/ RemoveQuoted(k)
    BY <1>0, <2>4, NotesFacts, PositionTxs, SendsSteps DEF ClaimPositionFee, AddLiquidity, RemoveQuoted, Doing, At, BusyInv
  <2>5. CASE Refetch(k)
    BY <1>0, <2>5, NotesFacts, GotoSteps DEF Refetch, Doing, At, BusyInv
  <2>6. CASE RemoveLiquidity(k)
    BY <1>0, <2>6, NotesFacts, GotoSteps DEF RemoveLiquidity, Doing, At, BusyInv, Return
  <2>7. CASE RemoveRemains(k)
    BY <1>0, <2>7, NotesFacts, PositionTxs, GotoSteps, SendsSteps DEF RemoveRemains, Doing, At, BusyInv, Return, Goto
  <2>8. CASE RemoveClose(k) \/ ClosePosition(k)
    BY <1>0, <2>8, NotesFacts, PositionTxs, GotoSteps, SendsSteps DEF RemoveClose, ClosePosition, Doing, At, BusyInv, Return
  <2> QED BY <2>1, <2>2, <2>3, <2>4, <2>5, <2>6, <2>7, <2>8 DEF PositionStep
<1> QED BY <1>1, SteppingAside DEF pageVars

\* What marking rows leaves of them.
LEMMA Listed ==
    ASSUME NEW S, IsFiniteSet(S)
    PROVE  SetToSeq(S) \in [1..Cardinality(S) -> S] /\ Cardinality(S) \in Nat
<1>1. Cardinality(S) \in Nat /\ ExistsBijection(1..Cardinality(S), S)
  BY FS_CardinalityType
<1>2. \E f \in [1..Cardinality(S) -> S] : IsInjective(f)
  BY <1>1 DEF ExistsBijection, Bijection, Injection, IsInjective
<1> QED BY <1>1, <1>2 DEF SetToSeq

LEMMA BusySet ==
    ASSUME PageOK, NEW b \in BOOLEAN, page' = [page EXCEPT !.busy = b]
    PROVE  PageOK' /\ page'.rows = page.rows
  BY DEF PageOK

LEMMA RowSet ==
    ASSUME PageOK, NEW k \in Call, NEW i, NEW status \in Status, SetRow(k, i, status)
    PROVE  /\ PageOK' /\ DOMAIN page'.rows = DOMAIN page.rows
           /\ \A j \in DOMAIN page.rows :
                 /\ j # i => page'.rows[j] = page.rows[j]
                 /\ j = i => /\ page'.rows[j].of = page.rows[j].of /\ page'.rows[j].listed = page.rows[j].listed
                             /\ page'.rows[j].status = status /\ page'.rows[j].by = k
<1>1. /\ DOMAIN page' = DOMAIN page
      /\ page'.rows = [j \in DOMAIN page.rows |->
            IF j = i THEN [page.rows[j] EXCEPT !.status = status, !.by = k] ELSE page.rows[j]]
      /\ page'.busy = page.busy /\ page'.flag = page.flag /\ page'.newest = page.newest /\ page'.stopped = page.stopped
  BY DEF SetRow, PageOK
<1>2. \A j \in DOMAIN page.rows : IsRow(page.rows[j])
  BY DEF PageOK
<1>3. ASSUME NEW row, IsRow(row), NEW new, new = [row EXCEPT !.status = status, !.by = k]
      PROVE  IsRow(new) /\ new.of = row.of /\ new.listed = row.listed /\ new.status = status /\ new.by = k
  BY <1>3 DEF IsRow
<1>4. ASSUME NEW j \in DOMAIN page.rows
      PROVE  /\ IsRow(page'.rows[j])
             /\ j # i => page'.rows[j] = page.rows[j]
             /\ j = i => /\ page'.rows[j].of = page.rows[j].of /\ page'.rows[j].listed = page.rows[j].listed
                         /\ page'.rows[j].status = status /\ page'.rows[j].by = k
  <2>1. CASE j = i
    <3>1. page'.rows[j] = [page.rows[j] EXCEPT !.status = status, !.by = k]
      BY Zenon, <1>1, <2>1
    <3>2. IsRow(page.rows[j])
      BY <1>2
    <3> QED BY Zenon, <1>3, <2>1, <3>1, <3>2
  <2>2. CASE j # i
    <3>1. page'.rows[j] = page.rows[j]
      BY Zenon, <1>1, <2>2
    <3> QED BY <1>2, <2>2, <3>1
  <2> QED BY <2>1, <2>2
<1>5. /\ DOMAIN page'.rows = DOMAIN page.rows
      /\ page'.rows = [j \in DOMAIN page'.rows |-> page'.rows[j]]
  BY <1>1
<1>6. PageOK'
  <2>1. \A j \in DOMAIN page'.rows : IsRow(page'.rows[j])
    BY <1>4, <1>5
  <2> QED BY <1>1, <1>5, <2>1 DEF PageOK
<1> QED BY <1>4, <1>5, <1>6

\* Rows that are new, none of them confirmed.
LEMMA NewRows ==
    ASSUME PageOK, NEW k \in Call, NEW rows, rows = [i \in DOMAIN rows |-> rows[i]],
           \A i \in DOMAIN rows : \E of : \E status \in Status \ {"confirmed"} : rows[i] = Row(k, of, status),
           DOMAIN page' = DOMAIN page, page'.rows = rows, page'.busy \in BOOLEAN, page'.flag \in BOOLEAN,
           page'.newest \in Call \cup {"none"}, page'.stopped = page.stopped
    PROVE  PageOK' /\ \A i \in DOMAIN page'.rows : page'.rows[i].listed = k /\ page'.rows[i].status # "confirmed"
<1>1. \A i \in DOMAIN rows : IsRow(rows[i]) /\ rows[i].listed = k /\ rows[i].status # "confirmed"
  BY DEF Row, IsRow
<1> QED BY <1>1 DEF PageOK

\* Nothing is built, and the rows stay.
LEMMA MarksNothing ==
    ASSUME CallsOK, NEW k \in Call, PageOK', built' = built, page'.rows = page.rows
    PROVE  Marks(k)
  BY DEF Marks, SameList, Follows, CallsOK

\* A common step whose effect on the page is known has the shape.
LEMMA SteppingShaped ==
    ASSUME CallsOK, SentOK, NEW k \in Call, Stepping(k), facts' = facts, Marks(k)
    PROVE  Shaped(k)
  BY SteppingTouches DEF Shaped

LEMMA RestShape ==
    ASSUME CallsOK, SentOK, PageOK, NEW k \in Call, Rest(k), todo[k] = <<>>, Notes(k)
    PROVE  Shaped(k)
<1>1. Stepping(k) /\ facts' = facts
  BY GotoSteps DEF Rest, Return, Place, Before
<1>2. Marks(k)
  BY BusySet, MarksNothing DEF Rest
<1> QED BY <1>1, <1>2, SteppingShaped

\* The loop over rows, the routes, the exits, the batch and the form.
LEMMA LoopShape ==
    ASSUME BusyInv, CallsOK, SentOK, PageOK, NEW k \in Call, LoopStep(k)
    PROVE  Shaped(k)
<1>0. {"rows", "rowDone", "rowFailed"} \subseteq Place \ Before
  BY DEF Place, Before
<1>1. CASE SendRow(k)
  <2> DEFINE x == built[k][round[k]]
  <2>1. /\ Try(k, <<{x}>>, "rowDone", RowCatch) /\ Sends(k, x) /\ todo[k] = <<>> /\ Notes(k)
        /\ round' = round /\ facts' = facts /\ built' = built
    BY <1>1, NotesFacts DEF SendRow, At, CallsOK, BusyInv
  <2> HIDE DEF x
  <2>2. Stepping(k)
    BY <1>0, <2>1 DEF Stepping, Sends
  <2>3. CASE page' = page
    BY <2>1, <2>2, <2>3, SteppingAside
  <2>4. CASE SetRow(k, round[k], "signed")
    <3>1. Marks(k)
      BY <2>1, <2>4, RowSet DEF Marks, SameList, Follows, CallsOK, Status
    <3> QED BY <2>1, <2>2, <3>1, SteppingShaped
  <2> QED BY <1>1, <2>3, <2>4 DEF SendRow
<1>2. CASE RowDone(k) \/ RowFailed(k) \/ RowUnsigned(k)
  <2>1. PICK status \in {"confirmed", "error"} :
           /\ status = "confirmed" => At(k, "rowDone")
           /\ todo[k] = <<>> /\ SetRow(k, round[k], status) /\ GotoRow(k, "rows", round[k] + 1) /\ UNCHANGED built
    BY <1>2 DEF RowDone, RowFailed, RowUnsigned, RowIs, At
  <2>2. Notes(k) /\ round[k] + 1 \in Nat
    BY <2>1, NotesFacts DEF GotoRow, BusyInv, CallsOK
  <2>3. Stepping(k) /\ facts' = facts
    BY <1>0, <2>1, <2>2, GotoRowSteps
  <2>4. status = "confirmed" => job[k].cmd \in Loops
    BY <2>1, WhoIsThere DEF At, Loops
  <2>5. Marks(k)
    <3>1. SameList(k) /\ PageOK'
      BY <2>1, <2>4, RowSet DEF SameList, Follows, Status
    <3> QED BY <2>1, <3>1 DEF Marks, CallsOK
  <2> QED BY <2>3, <2>5, SteppingShaped
<1>3. CASE RowsEnd(k)
  BY <1>3, NotesFacts, RestShape DEF RowsEnd, At, BusyInv
<1> QED BY <1>1, <1>2, <1>3 DEF LoopStep

LEMMA ServerShape ==
    ASSUME BusyInv, CallsOK, SentOK, PageOK, NEW k \in Call, ServerStep(k)
    PROVE  Shaped(k)
<1>0. /\ {"attempt", "success", "gaveUp", "returned", "stopped", "removeAll"} \subseteq Place \ Before
      /\ {"attempt", "success", "gaveUp", "returned", "stopped", "removeAll"} \subseteq Place
  BY DEF Place, Before
<1>1. CASE ScanLp(k)
  <2>1. Notes(k) /\ todo[k] = <<>> /\ UNCHANGED <<facts, page, built>>
    BY <1>1, NotesFacts DEF ScanLp, At, BusyInv, Goto, Send, pageVars
  <2>2. Stepping(k)
    <3>1. CASE Goto(k, "gaveUp")
      BY <1>0, <2>1, <3>1, GotoSteps
    <3>2. CASE Try(k, <<>>, "attempt", Uncaught) /\ round' = [round EXCEPT ![k] = 1]
      <4>1. 1 \in Nat
        OBVIOUS
      <4> QED BY <1>0, <2>1, <3>2, <4>1 DEF Stepping
    <3> QED BY <1>1, <3>1, <3>2 DEF ScanLp
  <2> QED BY <2>1, <2>2, SteppingAside
<1>2. CASE Attempt(k)
  <2> DEFINE x == LpTx(k, round[k], Amount(k)[1], Amount(k)[2])
  <2>1. /\ Notes(k) /\ todo[k] = <<>> /\ UNCHANGED <<facts, round, page, built>>
        /\ Try(k, <<{x}>>, "success", AttemptCatch)
    BY <1>2, NotesFacts DEF Attempt, At, BusyInv
  <2>2. Sends(k, x) /\ Proper(k, x)
    BY LpTxIs DEF Sends
  <2> HIDE DEF x
  <2>3. Stepping(k)
    BY <1>0, <2>1, <2>2 DEF Stepping
  <2> QED BY <2>1, <2>3, SteppingAside
<1>3. CASE Again(k)
  <2>1. Notes(k) /\ todo[k] = <<>> /\ UNCHANGED <<page, built>> /\ round[k] + 1 \in Nat
    BY <1>3, NotesFacts DEF Again, At, BusyInv, GotoRow, pageVars, CallsOK
  <2>2. Stepping(k) /\ facts' = facts
    BY <1>0, <1>3, <2>1, GotoSteps, GotoRowSteps DEF Again
  <2> QED BY <2>1, <2>2, SteppingAside
<1>4. CASE Answered(k) \/ ResolveKeys(k) \/ NoKeys(k)
  <2>1. Notes(k) /\ todo[k] = <<>> /\ UNCHANGED <<page, built>>
    BY <1>4, NotesFacts DEF Answered, ResolveKeys, NoKeys, At, BusyInv, pageVars
  <2>2. Goto(k, "returned") \/ Goto(k, "removeAll") \/ Goto(k, "stopped")
    BY <1>4 DEF Answered, ResolveKeys, NoKeys, Return
  <2>3. Stepping(k) /\ facts' = facts
    BY <1>0, <2>1, <2>2, GotoSteps
  <2> QED BY <2>1, <2>3, SteppingAside
<1>5. CASE RemoveAllLp(k)
  <2> DEFINE x == LpTx(k, 1, Keys(k), Cardinality(Lps(Keys(k))))
  <2>1. /\ Notes(k) /\ todo[k] = <<>> /\ UNCHANGED <<page, built>>
        /\ Goto(k, "returned") \/ Send(k, <<{TwoPrices(x)}>>, "returned")
    BY <1>5, NotesFacts DEF RemoveAllLp, At, BusyInv, pageVars, Return
  <2>2. Sends(k, TwoPrices(x))
    BY LpTxIs
  <2> HIDE DEF x
  <2>3. Stepping(k) /\ facts' = facts
    BY <1>0, <2>1, <2>2, GotoSteps, SendsSteps
  <2> QED BY <2>1, <2>3, SteppingAside
<1>6. CASE BuildClaim(k)
  <2>1. /\ Notes(k) /\ todo[k] = <<>> /\ UNCHANGED <<page, built>>
        /\ Goto(k, "stopped") \/ \E m \in Mint : Send(k, <<{ClaimFee(k, 1, m, TRUE)}>>, "returned")
    BY <1>6, NotesFacts DEF BuildClaim, At, BusyInv, pageVars
  <2>2. \A m : Sends(k, ClaimFee(k, 1, m, TRUE))
    BY ClaimFeeIs
  <2>3. Stepping(k) /\ facts' = facts
    BY <1>0, <2>1, <2>2, GotoSteps, SendsSteps
  <2> QED BY <2>1, <2>3, SteppingAside
<1> QED BY <1>1, <1>2, <1>3, <1>4, <1>5, <1>6 DEF ServerStep

\* A list of open positions of the wallet.
LEMMA MineListed ==
    LET list == SetToSeq(mine)
    IN  /\ list = [i \in DOMAIN list |-> list[i]] /\ IsFiniteSet(DOMAIN list)
        /\ \A i \in DOMAIN list : list[i] \in Position /\ <<"open", list[i]>> \in facts
        /\ \E n \in Nat : DOMAIN list = 1..n
<1>1. mine \subseteq Position /\ \A p \in mine : <<"open", p>> \in facts
  BY DEF mine, getUserPositionByPool
<1>2. IsFiniteSet(mine)
  BY <1>1, PositionAssumption, FS_Subset
<1>3. SetToSeq(mine) \in [1..Cardinality(mine) -> mine] /\ Cardinality(mine) \in Nat
  BY <1>2, Listed
<1>4. IsFiniteSet(1..Cardinality(mine))
  BY <1>3, FS_Interval
<1> QED BY <1>1, <1>3, <1>4

\* Places that are all there stand in their own places.
LEMMA AllInOrder ==
    ASSUME NEW n \in Nat, NEW places \in SUBSET (1..n), NEW line \in Lines(places), DOMAIN line = 1..n
    PROVE  \A i \in 1..n : line[i] = i
<1>1. /\ \A i \in 1..n : line[i] \in 1..n
      /\ \A i, j \in 1..n : i < j => line[i] < line[j]
  BY DEF Lines
<1> SUFFICES ASSUME NEW i \in 1..n
             PROVE  line[i] = i
  OBVIOUS
<1>2. i \in Nat /\ line[i] \in Nat /\ line[i] \in 1..n
  BY <1>1
<1>5. ASSUME NEW j \in 1..n, NEW l \in 1..n, line[j] = line[l] PROVE j = l
  <2>1. line[j] \in Nat /\ line[l] \in Nat
    BY <1>1
  <2>2. ~(j < l) /\ ~(l < j)
    BY <1>1, <1>5, <2>1
  <2> QED BY <2>2
<1>3. i <= line[i]
  <2> DEFINE below == [j \in 1..i |-> line[j]]
  <2>0. \A j \in 1..i : j \in 1..n /\ (j = i \/ j < i)
    BY <1>2
  <2>1. ASSUME NEW j \in 1..i PROVE line[j] \in 1..line[i]
    <3>1. line[j] \in 1..n /\ (line[j] = line[i] \/ line[j] < line[i])
      BY <1>1, <2>0
    <3> QED BY <1>2, <3>1
  <2>2. \A j, l \in 1..i : line[j] = line[l] => j = l
    BY <1>5, <2>0
  <2>3. below \in Injection(1..i, 1..line[i])
    BY <2>1, <2>2 DEF Injection, IsInjective
  <2>4. Cardinality(1..i) <= Cardinality(1..line[i])
    <3>1. IsFiniteSet(1..line[i])
      BY <1>2, FS_Interval
    <3> QED BY <2>3, <3>1, FS_Injection
  <2>5. Cardinality(1..i) = i /\ Cardinality(1..line[i]) = line[i]
    BY <1>2, FS_Interval
  <2> QED BY <2>4, <2>5
<1>4. line[i] <= i
  <2> DEFINE above == [j \in i..n |-> line[j]]
  <2>0. \A j \in i..n : j \in 1..n /\ (j = i \/ i < j)
    BY <1>2
  <2>1. ASSUME NEW j \in i..n PROVE line[j] \in line[i]..n
    <3>1. line[j] \in 1..n /\ (line[j] = line[i] \/ line[i] < line[j])
      BY <1>1, <2>0
    <3> QED BY <1>2, <3>1
  <2>2. \A j, l \in i..n : line[j] = line[l] => j = l
    BY <1>5, <2>0
  <2>3. above \in Injection(i..n, line[i]..n)
    BY <2>1, <2>2 DEF Injection, IsInjective
  <2>4. Cardinality(i..n) <= Cardinality(line[i]..n)
    <3>1. IsFiniteSet(line[i]..n)
      BY <1>2, FS_Interval
    <3> QED BY <2>3, <3>1, FS_Injection
  <2>5. Cardinality(i..n) = n - i + 1 /\ Cardinality(line[i]..n) = n - line[i] + 1
    BY <1>2, FS_Interval
  <2> QED BY <1>2, <2>4, <2>5
<1> QED BY <1>2, <1>3, <1>4

\* What a run of the exit of all positions has built.
LEMMA PositionsBuilt ==
    ASSUME NEW k \in Call, ListPositions(k), DOMAIN built = Call
    PROVE  /\ built' = [built EXCEPT ![k] = built'[k]]
           /\ \A i \in DOMAIN built'[k] : \E p \in Position :
                 built'[k][i] = RemoveAllTx(k, i, p) /\ <<"open", p>> \in facts
<1> DEFINE list == SetToSeq(mine)
           kept(broken) == {i \in DOMAIN list : ~Skips(list[i], broken)}
<1>1. PICK broken \in SUBSET mine : \E line \in Lines(kept(broken)) :
         built' = [built EXCEPT ![k] = [i \in DOMAIN line |-> RemoveAllTx(k, i, list[line[i]])]]
  BY DEF ListPositions
<1>2. PICK line \in Lines(kept(broken)) :
         built' = [built EXCEPT ![k] = [i \in DOMAIN line |-> RemoveAllTx(k, i, list[line[i]])]]
  BY <1>1
<1>3. \A i \in DOMAIN list : list[i] \in Position /\ <<"open", list[i]>> \in facts
  BY MineListed
<1>4. kept(broken) \subseteq DOMAIN list
  OBVIOUS
<1> HIDE DEF list, kept
<1>5. \A i \in DOMAIN line : line[i] \in DOMAIN list
  BY <1>4 DEF Lines
<1>6. built'[k] = [i \in DOMAIN line |-> RemoveAllTx(k, i, list[line[i]])]
  BY <1>2
<1> QED BY <1>2, <1>3, <1>5, <1>6

\* The list of positions becomes rows and transactions, in the same order.
LEMMA ListPositionsShape ==
    ASSUME BusyInv, CallsOK, SentOK, PageOK, NEW k \in Call, ListPositions(k)
    PROVE  Shaped(k)
<1>1. Notes(k) /\ todo[k] = <<>> /\ (Goto(k, "returned") \/ Goto(k, "signing"))
  BY NotesFacts DEF ListPositions, At, BusyInv
<1>2. Stepping(k) /\ facts' = facts
  BY SMTT(40), <1>1, GotoSteps DEF Place, Before
<1> DEFINE list == SetToSeq(mine)
           kept(broken) == {i \in DOMAIN list : ~Skips(list[i], broken)}
           rows(broken) == [i \in DOMAIN list |->
               Row(k, <<"open", list[i]>>, IF i \in kept(broken) THEN "built" ELSE "skipped")]
           b(broken) == IF job[k].dry \/ kept(broken) # {} THEN page.busy ELSE FALSE
<1>2a. PICK broken \in SUBSET mine :
          /\ page' = [page EXCEPT !.rows = rows(broken), !.busy = b(broken)]
          /\ \E line \in Lines(kept(broken)) :
                built' = [built EXCEPT ![k] = [i \in DOMAIN line |-> RemoveAllTx(k, i, list[line[i]])]]
  BY Zenon DEF ListPositions
<1>3. /\ b(broken) \in BOOLEAN
      /\ rows(broken) = [i \in DOMAIN rows(broken) |-> rows(broken)[i]]
      /\ \A i \in DOMAIN rows(broken) : \E of : \E status \in {"built", "skipped"} : rows(broken)[i] = Row(k, of, status)
  BY DEF PageOK
<1>3a. DOMAIN page' = DOMAIN page /\ page'.rows = rows(broken) /\ page'.busy = b(broken)
       /\ page'.flag = page.flag /\ page'.newest = page.newest /\ page'.stopped = page.stopped
  <2> HIDE DEF rows, b
  <2> QED BY <1>2a DEF PageOK
<1>3b. \A i \in DOMAIN page'.rows : page'.rows[i].of = <<"open", list[i]>> /\ i \in DOMAIN list
  BY <1>3a DEF Row
<1>3c. DOMAIN page'.rows = DOMAIN list
  BY <1>3a
<1>3d. PICK line \in Lines(kept(broken)) :
          built' = [built EXCEPT ![k] = [i \in DOMAIN line |-> RemoveAllTx(k, i, list[line[i]])]]
  BY <1>2a
<1> HIDE DEF rows, b, list, kept
<1>4. PageOK' /\ \A i \in DOMAIN page'.rows : page'.rows[i].listed = k /\ page'.rows[i].status # "confirmed"
  BY <1>3, <1>3a, NewRows DEF PageOK, Status
<1>4a. ASSUME DOMAIN built'[k] = DOMAIN page'.rows, NEW i \in DOMAIN page'.rows
       PROVE  page'.rows[i].of \in built'[k][i].needs
  <2>1. built'[k] = [j \in DOMAIN line |-> RemoveAllTx(k, j, list[line[j]])]
    BY <1>3d DEF CallsOK
  <2>2. PICK n \in Nat : DOMAIN list = 1..n
    BY MineListed DEF list
  <2>3. kept(broken) \in SUBSET (1..n) /\ DOMAIN line = 1..n
    BY <1>3c, <1>4a, <2>1, <2>2 DEF kept
  <2>4. line[i] = i
    BY <1>3c, <1>4a, <2>2, <2>3, AllInOrder
  <2>5. built'[k][i] = RemoveAllTx(k, i, list[i])
    BY <1>3c, <1>4a, <2>1, <2>2, <2>3, <2>4
  <2>6. RemoveAllTx(k, i, list[i]).needs = {<<"open", list[i]>>}
    BY RemoveAllTxIs
  <2> QED BY <1>3b, <1>4a, <2>5, <2>6
<1>5. built' = [built EXCEPT ![k] = built'[k]] /\ \A i \in DOMAIN built'[k] : Sends(k, built'[k][i])
  <2>1. DOMAIN built = Call
    BY DEF CallsOK
  <2>2. \A i, p : Sends(k, RemoveAllTx(k, i, p))
    BY RemoveAllTxIs
  <2>3. /\ built' = [built EXCEPT ![k] = built'[k]]
        /\ \A i \in DOMAIN built'[k] : \E p \in Position : built'[k][i] = RemoveAllTx(k, i, p)
    BY <2>1, PositionsBuilt
  <2> QED BY <2>2, <2>3
<1>6. Marks(k)
  <2>1. job[k].cmd \in Loops
    BY WhoIsThere DEF ListPositions, At, Loops
  <2> QED BY <1>4, <1>4a, <1>5, <2>1 DEF Marks, NewList, Lists
<1> QED BY <1>2, <1>6, SteppingShaped

LEMMA DammExitShape ==
    ASSUME BusyInv, CallsOK, SentOK, PageOK, NEW k \in Call, DammExitStep(k)
    PROVE  Shaped(k)
<1>0. /\ {"listing", "rows", "picked", "findLp", "signLp", "stopped", "returned"} \subseteq Place \ Before
      /\ {"listing", "rows", "picked", "findLp", "signLp", "stopped", "returned"} \subseteq Place
  BY DEF Place, Before
<1>1. CASE OpenExitAll(k)
  <2>1. Notes(k) /\ todo[k] = <<>> /\ Goto(k, "listing") /\ built' = built
    BY <1>1, NotesFacts DEF OpenExitAll, At, BusyInv
  <2>2. PageOK' /\ page'.rows = <<>>
    BY <1>1, NewRows DEF OpenExitAll, PageOK
  <2>3. Marks(k)
    <3>1. job[k].cmd \in Loops
      BY <1>1, WhoIsThere DEF OpenExitAll, At, Loops
    <3> QED BY <2>1, <2>2, <3>1 DEF Marks, NewList, CallsOK
  <2>4. Stepping(k) /\ facts' = facts
    BY <1>0, <2>1, GotoSteps
  <2> QED BY <2>3, <2>4, SteppingShaped
<1>2. CASE ExitAllFails(k) \/ ExitAutoFails(k)
  BY <1>2, NotesFacts, RestShape DEF ExitAllFails, ExitAutoFails, At, BusyInv
<1>3. CASE ListPositions(k)
  BY <1>3, ListPositionsShape
<1>4. CASE SignExitAll(k)
  <2>1. Notes(k) /\ todo[k] = <<>> /\ GotoRow(k, "rows", 1) /\ UNCHANGED <<page, built>>
    BY <1>4, NotesFacts DEF SignExitAll, At, BusyInv, GotoRow, pageVars
  <2>2. Stepping(k) /\ facts' = facts
    <3>1. 1 \in Nat
      OBVIOUS
    <3> QED BY <1>0, <2>1, <3>1, GotoRowSteps
  <2> QED BY <2>1, <2>2, SteppingAside
<1>5. CASE NoPositionForPool(k) \/ PickPosition(k) \/ findBestDammLpAndPool(k)
  <2>1. Notes(k) /\ todo[k] = <<>> /\ UNCHANGED <<page, built>>
    BY <1>5, NotesFacts DEF NoPositionForPool, PickPosition, findBestDammLpAndPool, At, BusyInv, pageVars
  <2>2. Goto(k, "stopped") \/ Goto(k, "picked") \/ Goto(k, "signLp")
    BY <1>5 DEF NoPositionForPool, PickPosition, findBestDammLpAndPool
  <2>3. Stepping(k) /\ facts' = facts
    BY <1>0, <2>1, <2>2, GotoSteps
  <2> QED BY <2>1, <2>3, SteppingAside
<1>6. CASE BuildExit(k)
  <2>1. Notes(k) /\ todo[k] = <<>> /\ UNCHANGED <<page, built>>
    BY <1>6, NotesFacts DEF BuildExit, At, BusyInv, pageVars
  <2>2. \E more : Send(k, <<{[RemoveTx1(k, Chosen(k)) EXCEPT !.needs = @ \cup more]}>>, "returned")
    BY <1>6 DEF BuildExit
  <2>3. \A more : Sends(k, [RemoveTx1(k, Chosen(k)) EXCEPT !.needs = @ \cup more])
    BY ExitTxs
  <2>4. Stepping(k) /\ facts' = facts
    BY <1>0, <2>1, <2>2, <2>3, SendsSteps
  <2> QED BY <2>1, <2>4, SteppingAside
<1>7. CASE OpenExitAuto(k)
  <2>1. Notes(k) /\ todo[k] = <<>> /\ Goto(k, "findLp") /\ built' = built /\ page' = [page EXCEPT !.busy = TRUE]
    BY <1>7, NotesFacts DEF OpenExitAuto, At, BusyInv
  <2>2. Marks(k)
    BY <2>1, BusySet, MarksNothing
  <2>3. Stepping(k) /\ facts' = facts
    BY <1>0, <2>1, GotoSteps
  <2> QED BY <2>2, <2>3, SteppingShaped
<1>8. CASE SubmitLp(k)
  <2> DEFINE x == LpTx(k, 1, Amount(k)[1], Amount(k)[2])
  <2>1. /\ Notes(k) /\ todo[k] = <<>> /\ at[k] = "signLp" /\ pending' = pending \cup {x}
        /\ at' = [at EXCEPT ![k] = "returned"] /\ page' = [page EXCEPT !.busy = FALSE]
        /\ UNCHANGED <<facts, fate, job, todo, stage, round, rescue, built>>
    BY <1>8, NotesFacts DEF SubmitLp, At, BusyInv
  <2>2. Sends(k, x)
    BY LpTxIs
  <2> HIDE DEF x
  <2>3. Marks(k)
    BY <2>1, BusySet, MarksNothing
  <2>4. Walks(k)
    BY <1>0, <2>1 DEF Walks, CallsOK, Single, Creating, Prepared
  <2>5. Touches(k)
    BY <2>1, <2>2, NothingHeard DEF Touches, Sends
  <2> QED BY <2>3, <2>4, <2>5 DEF Shaped
<1> QED BY <1>1, <1>2, <1>3, <1>4, <1>5, <1>6, <1>7, <1>8 DEF DammExitStep

-----------------------------------------------------------------------------
\* A batch is built in some order of finitely many pools.
LEMMA PoolsFinite ==
    ASSUME NEW k \in Call, \A f \in seen[k] : f[1] = "pool" => \E m \in Mint, decoded \in BOOLEAN : f = <<"pool", m, decoded>>
    PROVE  IsFiniteSet({f \in seen[k] : f[1] = "pool"})
<1> DEFINE pools == {f \in seen[k] : f[1] = "pool"}
           of == [f \in pools |-> <<f[2], f[3]>>]
<1>1. IsFiniteSet({TRUE, FALSE})
  <2>1. IsFiniteSet({TRUE}) /\ IsFiniteSet({TRUE} \cup {FALSE})
    BY FS_Singleton, FS_AddElement
  <2> QED BY <2>1
<1>2. IsFiniteSet(Mint \X BOOLEAN)
  <2>1. BOOLEAN = {TRUE, FALSE}
    OBVIOUS
  <2> QED BY <1>1, <2>1, MintAssumption, FS_Product
<1>3. \A f \in pools : f[2] \in Mint /\ f[3] \in BOOLEAN /\ f = <<"pool", f[2], f[3]>>
  OBVIOUS
<1> HIDE DEF pools
<1>4. of \in [pools -> Mint \X BOOLEAN]
  BY <1>3
<1>5. \A f, g \in pools : of[f] = of[g] => f = g
  BY <1>3
<1>6. of \in Injection(pools, Mint \X BOOLEAN)
  BY <1>4, <1>5 DEF Injection, IsInjective
<1>7. IsFiniteSet(pools)
  BY <1>2, <1>6, FS_Injection
<1> QED BY <1>7 DEF pools

\* What a batch has built: a claim for each pool it has found.
LEMMA ClaimsBuilt ==
    ASSUME NEW k \in Call, BuildBatch(k), DOMAIN built = Call,
           \A f \in seen[k] : f[1] = "pool" =>
              \E m \in Mint, decoded \in BOOLEAN : f = <<"pool", m, decoded>> /\ <<"curve", m>> \in facts
    PROVE  /\ built' = [built EXCEPT ![k] = built'[k]]
           /\ \A i \in DOMAIN built'[k] : \E m \in Mint, decoded \in BOOLEAN :
                 built'[k][i] = ClaimFee(k, i, m, decoded) /\ <<"curve", m>> \in facts
           /\ \E n \in Nat : \E of :
                 /\ page' = [page EXCEPT !.rows = [i \in 1..n |-> Row(k, of[i], "pending")]]
                 /\ \A i \in 1..n : of[i] \in built'[k][i].needs
<1> DEFINE pools == {f \in seen[k] : f[1] = "pool"}
           list == SetToSeq(pools)
<1>1. /\ built' = [built EXCEPT ![k] = [i \in DOMAIN list |-> ClaimFee(k, i, list[i][2], list[i][3])]]
      /\ page' = [page EXCEPT !.rows = [i \in DOMAIN list |-> Row(k, <<"curve", list[i][2]>>, "pending")]]
  BY DEF BuildBatch
<1>2. IsFiniteSet(pools)
  BY PoolsFinite
<1>3. list \in [1..Cardinality(pools) -> pools] /\ Cardinality(pools) \in Nat
  BY <1>2, Listed
<1>4. \A f \in pools : \E m \in Mint, decoded \in BOOLEAN : f = <<"pool", m, decoded>> /\ <<"curve", m>> \in facts
  OBVIOUS
<1> HIDE DEF list, pools
<1>5. ASSUME NEW i \in DOMAIN built'[k]
      PROVE  \E m \in Mint, decoded \in BOOLEAN :
                built'[k][i] = ClaimFee(k, i, m, decoded) /\ <<"curve", m>> \in facts
  <2>1. i \in DOMAIN list /\ list[i] \in pools /\ built'[k][i] = ClaimFee(k, i, list[i][2], list[i][3])
    BY <1>1, <1>3
  <2>2. PICK m \in Mint, decoded \in BOOLEAN : list[i] = <<"pool", m, decoded>> /\ <<"curve", m>> \in facts
    BY <1>4, <2>1
  <2> QED BY <2>1, <2>2
<1> DEFINE of == [i \in DOMAIN list |-> <<"curve", list[i][2]>>]
           n == Cardinality(pools)
<1>6. DOMAIN list = 1..n /\ n \in Nat
  BY <1>3
<1>7. ASSUME NEW i \in DOMAIN list PROVE of[i] \in built'[k][i].needs
  <2>1. list[i] \in pools /\ built'[k][i] = ClaimFee(k, i, list[i][2], list[i][3])
    BY <1>1, <1>3, <1>7
  <2>2. PICK m \in Mint, decoded \in BOOLEAN : list[i] = <<"pool", m, decoded>>
    BY <1>4, <2>1
  <2>3. list[i][2] = m /\ list[i][3] = decoded
    BY <2>2
  <2>4. <<"curve", m>> \in ClaimFee(k, i, m, decoded).needs
    BY ClaimFeeOf
  <2> QED BY <1>7, <2>1, <2>3, <2>4
<1>8. [i \in DOMAIN list |-> Row(k, <<"curve", list[i][2]>>, "pending")] = [i \in DOMAIN list |-> Row(k, of[i], "pending")]
  OBVIOUS
<1> HIDE DEF of, n
<1>9. /\ page' = [page EXCEPT !.rows = [i \in 1..n |-> Row(k, of[i], "pending")]]
      /\ \A i \in 1..n : of[i] \in built'[k][i].needs
  BY <1>1, <1>6, <1>7, <1>8
<1> QED BY <1>1, <1>5, <1>6, <1>9

LEMMA BatchShape ==
    ASSUME BusyInv, CallsOK, SentOK, PageOK, NEW k \in Call, RunOK(k), BatchStep(k)
    PROVE  Shaped(k)
<1>0. /\ {"discover", "build", "signing", "rows", "returned"} \subseteq Place \ Before
      /\ {"discover", "build", "signing", "rows", "returned"} \subseteq Place
  BY DEF Place, Before
<1>1. CASE OpenBatch(k)
  <2>1. Notes(k) /\ todo[k] = <<>> /\ built' = built
    BY <1>1, NotesFacts DEF OpenBatch, At, BusyInv
  <2>2. Stepping(k) /\ facts' = facts
    BY <1>0, <1>1, <2>1, GotoSteps DEF OpenBatch, Return
  <2>3. CASE page' = page
    BY <2>1, <2>2, <2>3, SteppingAside
  <2>4. CASE page' = [page EXCEPT !.busy = TRUE, !.newest = k, !.rows = <<>>]
    <3>1. PageOK' /\ page'.rows = <<>> /\ job[k].cmd \in Loops
      BY <1>1, <2>4, NewRows, WhoIsThere DEF PageOK, OpenBatch, At, Loops
    <3>2. Marks(k)
      BY <2>1, <3>1 DEF Marks, NewList, CallsOK
    <3> QED BY <2>2, <3>2, SteppingShaped
  <2> QED BY <1>1, <2>3, <2>4 DEF OpenBatch
<1>2. CASE Discover(k)
  <2>1. Notes(k) /\ todo[k] = <<>>
    BY <1>2, NotesFacts DEF Discover, At, BusyInv
  <2>2. CASE Rest(k)
    BY <2>1, <2>2, RestShape
  <2>3. CASE Goto(k, "build") /\ UNCHANGED pageVars
    <3>1. Stepping(k) /\ facts' = facts
      BY <1>0, <2>1, <2>3, GotoSteps
    <3> QED BY <2>3, <3>1, SteppingAside DEF pageVars
  <2> QED BY <1>2, <2>2, <2>3 DEF Discover
<1>3. CASE BuildBatch(k)
  <2>1. Notes(k) /\ todo[k] = <<>> /\ Goto(k, "signing") /\ job[k].cmd = "batch" /\ DOMAIN built = Call
    BY <1>3, NotesFacts, WhoIsThere DEF BuildBatch, At, BusyInv, CallsOK
  <2>2. /\ built' = [built EXCEPT ![k] = built'[k]]
        /\ \A i \in DOMAIN built'[k] : \E m \in Mint, decoded \in BOOLEAN : built'[k][i] = ClaimFee(k, i, m, decoded)
        /\ \E n \in Nat : \E of :
              /\ page' = [page EXCEPT !.rows = [i \in 1..n |-> Row(k, of[i], "pending")]]
              /\ \A i \in 1..n : of[i] \in built'[k][i].needs
    <3>1. \A f \in seen[k] : f[1] = "pool" =>
             \E m \in Mint, decoded \in BOOLEAN : f = <<"pool", m, decoded>> /\ <<"curve", m>> \in facts
      BY <2>1 DEF RunOK, Loops
    <3> QED BY <1>3, <2>1, <3>1, ClaimsBuilt
  <2>3. \A i, m : \A decoded \in BOOLEAN : Sends(k, ClaimFee(k, i, m, decoded))
    BY ClaimFeeIs
  <2>4. PageOK' /\ \A i \in DOMAIN page'.rows : Lists(k, i)
    <3>0. PICK n \in Nat : \E of :
             /\ page' = [page EXCEPT !.rows = [i \in 1..n |-> Row(k, of[i], "pending")]]
             /\ \A i \in 1..n : of[i] \in built'[k][i].needs
      BY <2>2
    <3>1. PICK of : /\ page' = [page EXCEPT !.rows = [i \in 1..n |-> Row(k, of[i], "pending")]]
                    /\ \A i \in 1..n : of[i] \in built'[k][i].needs
      BY <3>0
    <3> DEFINE rows == [i \in 1..n |-> Row(k, of[i], "pending")]
    <3>2. /\ rows = [i \in DOMAIN rows |-> rows[i]] /\ DOMAIN rows = 1..n
          /\ \A i \in DOMAIN rows : rows[i] = Row(k, of[i], "pending") /\ rows[i].of = of[i]
      BY DEF Row
    <3> HIDE DEF rows
    <3>3. /\ DOMAIN page' = DOMAIN page /\ page'.rows = rows /\ page'.busy = page.busy
          /\ page'.flag = page.flag /\ page'.newest = page.newest /\ page'.stopped = page.stopped
      BY <3>1 DEF PageOK, rows
    <3>4. PageOK' /\ \A i \in DOMAIN page'.rows : page'.rows[i].listed = k /\ page'.rows[i].status # "confirmed"
      BY <3>2, <3>3, NewRows DEF PageOK, Status
    <3> QED BY <3>1, <3>2, <3>3, <3>4 DEF Lists
  <2>5. Marks(k)
    BY <2>1, <2>2, <2>3, <2>4 DEF Marks, NewList, Loops
  <2>6. Stepping(k) /\ facts' = facts
    BY <1>0, <2>1, GotoSteps
  <2> QED BY <2>5, <2>6, SteppingShaped
<1>4. CASE SignBatch(k)
  <2>1. Notes(k) /\ todo[k] = <<>> /\ UNCHANGED <<facts, page, built>>
    BY <1>4, NotesFacts DEF SignBatch, At, BusyInv
  <2>2. Stepping(k)
    <3>1. 1 \in Nat
      OBVIOUS
    <3> QED BY <1>0, <1>4, <2>1, <3>1 DEF Stepping, SignBatch
  <2> QED BY <2>1, <2>2, SteppingAside
<1>5. CASE BatchFails(k)
  BY <1>5, NotesFacts, RestShape DEF BatchFails, Preparing, At, BusyInv
<1> QED BY <1>1, <1>2, <1>3, <1>4, <1>5 DEF BatchStep

LEMMA TellShape ==
    ASSUME BusyInv, CallsOK, SentOK, PageOK, NEW k \in Call, todo[k] = <<>>, NEW what, Tell(k, what)
    PROVE  Shaped(k)
<1>1. Notes(k) /\ built' = built /\ Goto(k, "returned")
  BY NotesFacts DEF Tell, BusyInv, Return
<1>2. PageOK' /\ page'.rows = page.rows
  BY BusySet DEF Tell, PageOK
<1>3. Marks(k)
  BY <1>1, <1>2, MarksNothing
<1>4. Stepping(k) /\ facts' = facts
  BY <1>1, GotoSteps DEF Place, Before
<1> QED BY <1>3, <1>4, SteppingShaped

\* A step that hands transactions to a node, and notes what the node answers.
LEMMA Adds ==
    ASSUME CallsOK, SentOK, PageOK, NEW k \in Call, Notes(k), todo[k] = <<>>,
           pending \subseteq pending', \A x \in pending' \ pending : Sends(k, x),
           facts' = facts \/ facts' = facts \cup {Accepted(k, round[k])}, fate' = fate, job' = job,
           at' = [at EXCEPT ![k] = at'[k]], at'[k] \in Place \ Before,
           todo' = todo, stage' = stage, rescue' = rescue,
           round' = [round EXCEPT ![k] = round'[k]], round'[k] \in Nat, Marks(k)
    PROVE  Shaped(k)
<1>1. Walks(k)
  <2>1. todo'[k] = <<>> /\ stage'[k] \in {"ready", "sent"} /\ stage'[k] = "ready" /\ ~Creating(k)'
    BY DEF CallsOK, Creating, Prepared
  <2>2. todo' = [todo EXCEPT ![k] = todo'[k]] /\ stage' = [stage EXCEPT ![k] = stage'[k]]
    BY DEF CallsOK
  <2>3. rescue' = [rescue EXCEPT ![k] = rescue'[k]] /\ rescue'[k] \in [Failures -> Place \ Before]
    BY DEF CallsOK
  <2> QED BY <2>1, <2>2, <2>3 DEF Walks, Single
<1>2. Touches(k)
  <2>1. \A f \in facts' \ facts : f[1] \in {"image", "metadata", "accepted"}
    BY DEF Accepted
  <2> QED BY <2>1, NothingHeard DEF Touches, Sends
<1> QED BY <1>1, <1>2 DEF Shaped

\* A launch appends to what it has built.
LEMMA Appended ==
    ASSUME NEW x, NEW y
    PROVE  Append(<<x>>, y) = <<x, y>>
<1> DEFINE t == Append(<<x>>, y)
<1>1. <<x>> \in Seq({x, y}) /\ y \in {x, y} /\ Len(<<x>>) = 1
  OBVIOUS
<1>2. t \in Seq({x, y}) /\ Len(t) = 2 /\ t[1] = x /\ t[2] = y
  BY <1>1
<1> HIDE DEF t
<1>3. DOMAIN t = 1..2 /\ t = [i \in DOMAIN t |-> t[i]]
  BY <1>2
<1>4. t = [i \in 1..2 |-> IF i = 1 THEN x ELSE y]
  BY <1>2, <1>3
<1>5. <<x, y>> = [i \in 1..2 |-> IF i = 1 THEN x ELSE y]
  OBVIOUS
<1> QED BY <1>4, <1>5 DEF t

LEMMA LaunchShape ==
    ASSUME BusyInv, CallsOK, SentOK, PageOK, NEW k \in Call, LaunchOK(k), LaunchStep(k)
    PROVE  Shaped(k)
<1> DEFINE Later == {"uploadImage", "uploadMetadata", "buildCreate", "signCreate", "buildSwap", "signSwap", "nodes",
                     "landed", "relay", "returned", "stopped"}
<1>0. Later \subseteq Place \ Before /\ Later \subseteq Place
  BY DEF Place, Before, InFlight
<1>1. CASE OpenLaunch(k)
  <2>1. Notes(k) /\ todo[k] = <<>> /\ Goto(k, "uploadImage") /\ built' = built /\ page' = [page EXCEPT !.busy = TRUE]
    BY <1>1, NotesFacts DEF OpenLaunch, At, BusyInv
  <2>2. Marks(k)
    BY <2>1, BusySet, MarksNothing
  <2>3. Stepping(k) /\ facts' = facts
    BY <1>0, <2>1, GotoSteps
  <2> QED BY <2>2, <2>3, SteppingShaped
<1>2. CASE Fails(k)
  BY <1>2, TellShape DEF Fails, At
<1>3. CASE UploadImage(k) \/ UploadMetadata(k)
  <2>1. PICK file \in {"image", "metadata"} : \E to \in {"uploadMetadata", "buildCreate"} :
           /\ todo[k] = <<>> /\ Nothing /\ facts' = facts \cup {<<file, k>>}
           /\ Try(k, <<>>, to, Uncaught) /\ UNCHANGED <<round, page, built>>
    BY <1>3 DEF UploadImage, UploadMetadata, UploadFile, At
  <2>2. PICK to \in {"uploadMetadata", "buildCreate"} : Try(k, <<>>, to, Uncaught)
    BY <2>1
  <2>3. Notes(k)
    BY <2>1, NotesFacts DEF BusyInv
  <2>4. Stepping(k)
    BY <1>0, <2>1, <2>2, <2>3 DEF Stepping
  <2>5. Walks(k) /\ pending' = pending /\ fate' = fate
    BY <2>4, SteppingWalks
  <2>6. Touches(k)
    BY <2>1, <2>5, NothingHeard DEF Touches
  <2>7. Marks(k)
    <3>1. PageOK'
      BY <2>1 DEF PageOK
    <3> QED BY <2>1, <3>1, MarksNothing
  <2> QED BY <2>5, <2>6, <2>7 DEF Shaped
<1>4. CASE BuildCreate(k) \/ BuildSwap(k)
  <2>1. /\ Notes(k) /\ todo[k] = <<>> /\ page' = page
        /\ Goto(k, "returned") \/ Goto(k, "signCreate") \/ Goto(k, "signSwap")
    BY <1>4, NotesFacts DEF BuildCreate, BuildSwap, At, BusyInv
  <2>2. Stepping(k) /\ facts' = facts
    BY <1>0, <2>1, GotoSteps
  <2>3. built' = [built EXCEPT ![k] = built'[k]] /\ \A i \in DOMAIN built'[k] : Sends(k, built'[k][i])
    <3>1. CASE BuildCreate(k)
      BY <3>1, LaunchTxs DEF BuildCreate, CallsOK
    <3>2. CASE BuildSwap(k)
      <4>1. at[k] = "buildSwap" /\ job[k].cmd = "launch"
        BY <3>2, WhoIsThere DEF BuildSwap, At, InFlight
      <4>2. built[k] = <<CreateTx(k)>>
        BY <4>1 DEF LaunchOK
      <4>3. built' = [built EXCEPT ![k] = <<CreateTx(k), SwapTx(k)>>]
        <5>1. built' = [built EXCEPT ![k] = Append(<<CreateTx(k)>>, SwapTx(k))]
          BY <3>2, <4>2 DEF BuildSwap
        <5> QED BY <5>1, Appended
      <4> QED BY <4>3, LaunchTxs DEF CallsOK
    <3> QED BY <1>4, <3>1, <3>2
  <2>4. job[k].cmd = "launch"
    BY <1>4, WhoIsThere DEF BuildCreate, BuildSwap, At, InFlight
  <2>5. Marks(k)
    BY <2>1, <2>3, <2>4 DEF Marks, SameList, Follows, PageOK, Loops
  <2> QED BY <2>2, <2>5, SteppingShaped
<1>5. CASE SignCreate(k)
  <2>1. /\ Notes(k) /\ todo[k] = <<>> /\ UNCHANGED <<page, built>>
        /\ GotoRow(k, "buildSwap", 1) \/ GotoRow(k, "nodes", 1)
    BY <1>5, NotesFacts DEF SignCreate, At, BusyInv, GotoRow, pageVars
  <2>2. Stepping(k) /\ facts' = facts
    <3>1. 1 \in Nat
      OBVIOUS
    <3> QED BY <1>0, <2>1, <3>1, GotoRowSteps
  <2> QED BY <2>1, <2>2, SteppingAside
<1>6. CASE SignSwap(k) \/ BuildBundle(k)
  <2>1. /\ Notes(k) /\ todo[k] = <<>> /\ UNCHANGED <<page, built>>
        /\ Goto(k, "nodes") \/ Goto(k, "returned") \/ Goto(k, "relay")
    BY <1>6, NotesFacts DEF SignSwap, BuildBundle, At, BusyInv, pageVars, Return
  <2>2. Stepping(k) /\ facts' = facts
    BY <1>0, <2>1, GotoSteps
  <2> QED BY <2>1, <2>2, SteppingAside
<1>7. CASE SendNext(k)
  <2> DEFINE x == built[k][round[k]]
  <2>1. /\ Notes(k) /\ todo[k] = <<>> /\ at[k] = "nodes" /\ Sends(k, x)
        /\ pending' = pending \cup {x} /\ facts' = facts \cup {Accepted(k, round[k])}
        /\ round' = [round EXCEPT ![k] = @ + 1]
        /\ UNCHANGED <<fate, job, at, todo, stage, rescue, seen, page, built>>
    BY <1>7, NotesFacts DEF SendNext, At, BusyInv, CallsOK, Nothing
  <2> HIDE DEF x
  <2>2. Marks(k)
    BY <2>1, MarksNothing DEF PageOK
  <2>3. /\ at' = [at EXCEPT ![k] = at'[k]] /\ at'[k] \in Place \ Before
        /\ round' = [round EXCEPT ![k] = round'[k]] /\ round'[k] \in Nat
    BY <1>0, <2>1 DEF CallsOK
  <2> QED BY <2>1, <2>2, <2>3, Adds
<1>8. CASE NodeSilent(k)
  <2> DEFINE x == built[k][round[k]]
  <2>1. /\ Notes(k) /\ todo[k] = <<>> /\ at[k] = "nodes" /\ Sends(k, x)
        /\ pending' = pending \cup {x} /\ at' = [at EXCEPT ![k] = "returned"]
        /\ UNCHANGED <<facts, fate, job, todo, stage, round, rescue, built>>
    BY <1>8, NotesFacts DEF NodeSilent, At, BusyInv, CallsOK
  <2> HIDE DEF x
  <2>2. Marks(k)
    BY ZenonT(60), <1>8, <2>1, BusySet, MarksNothing DEF PageOK, NodeSilent
  <2>3. /\ at' = [at EXCEPT ![k] = at'[k]] /\ at'[k] \in Place \ Before
        /\ round' = [round EXCEPT ![k] = round'[k]] /\ round'[k] \in Nat
    BY <1>0, <2>1 DEF CallsOK
  <2> QED BY <2>1, <2>2, <2>3, Adds
<1>9. CASE AllSent(k) \/ Landed(k)
  <2>1. todo[k] = <<>>
    BY <1>9 DEF AllSent, Landed, At
  <2>2. CASE Tell(k, "ok")
    BY <2>1, <2>2, TellShape
  <2>3. CASE Goto(k, "landed") /\ Nothing /\ UNCHANGED pageVars
    <3>1. Notes(k)
      BY <2>3, NotesFacts DEF BusyInv
    <3>2. Stepping(k) /\ facts' = facts
      BY <1>0, <2>1, <2>3, <3>1, GotoSteps
    <3> QED BY <2>3, <3>2, SteppingAside DEF pageVars
  <2> QED BY <1>9, <2>2, <2>3 DEF AllSent, Landed
<1>10. CASE Relay(k)
  <2>1. PICK more \in {{}, {BundleTx(k)}} : pending' = pending \cup more
    BY <1>10 DEF Relay
  <2>2. /\ Notes(k) /\ todo[k] = <<>> /\ at[k] = "relay" /\ at' = [at EXCEPT ![k] = "returned"]
        /\ UNCHANGED <<facts, fate, job, todo, stage, round, rescue, page, built>>
    BY <1>10, NotesFacts DEF Relay, At, BusyInv
  <2>3. \A x \in more : Sends(k, x)
    BY <2>1, LaunchTxs
  <2>4. Marks(k)
    BY <2>2, MarksNothing DEF PageOK
  <2>5. /\ at' = [at EXCEPT ![k] = at'[k]] /\ at'[k] \in Place \ Before
        /\ round' = [round EXCEPT ![k] = round'[k]] /\ round'[k] \in Nat
    BY <1>0, <2>2 DEF CallsOK
  <2> QED BY <2>1, <2>2, <2>3, <2>4, <2>5, Adds
<1>11. CASE BuildLaunch(k)
  <2>1. /\ Notes(k) /\ todo[k] = <<>> /\ UNCHANGED <<page, built>>
        /\ Goto(k, "stopped") \/ Send(k, <<{BundleTx(k)}>>, "returned")
    BY <1>11, NotesFacts DEF BuildLaunch, At, BusyInv, pageVars
  <2>2. Stepping(k) /\ facts' = facts
    BY <1>0, <2>1, LaunchTxs, GotoSteps, SendsSteps
  <2> QED BY <2>1, <2>2, SteppingAside
<1> QED BY <1>1, <1>2, <1>3, <1>4, <1>5, <1>6, <1>7, <1>8, <1>9, <1>10, <1>11 DEF LaunchStep

\* A call begins; and what is sent fails, goes on, or is given up.
LEMMA StartShape ==
    ASSUME BusyInv, CallsOK, SentOK, PageOK, NEW k \in Call, Start(k)
    PROVE  Shaped(k)
<1>1. /\ Notes(k) /\ at[k] \in Before /\ todo[k] = <<>> /\ UNCHANGED <<page, built>> /\ Goto(k, Entry(job[k].cmd))
      /\ job[k].cmd \in Commands /\ job[k].cmd # "none"
  BY NotesFacts DEF Start, BusyInv, Shape, CallsOK, Before, pageVars
<1>2. Entry(job[k].cmd) \in Place
  BY <1>1 DEF Entry, Commands, PositionCommands, Hooks, Place
<1>3. Stepping(k) /\ facts' = facts
  BY <1>1, <1>2, GotoSteps
<1> QED BY <1>1, <1>3, SteppingAside

\* There is one transaction at a time.
LEMMA OneAtATime ==
    ASSUME CallsOK, NEW k \in Call, todo[k] # <<>>
    PROVE  /\ Tail(todo[k]) = <<>> /\ at[k] \notin Before
           /\ \E x : todo[k] = <<{x}>> /\ Batch(k) = {x} /\ Proper(k, x)
           /\ Prepared(k) => \A x \in Batch(k) : Proper(k, x) /\ (x.op = "createPosition" => Creating(k))
<1>1. PICK x : todo[k] = <<{x}>> /\ Proper(k, x)
  BY DEF CallsOK, Single
<1>2. Batch(k) = {x} /\ Tail(todo[k]) = <<>>
  BY <1>1 DEF Batch
<1>3. x.op = "createPosition" => x = createPosition(k)
  BY <1>1 DEF Proper
<1> QED BY <1>1, <1>2, <1>3 DEF CallsOK, Creating

LEMMA ThrowShape ==
    ASSUME CallsOK, SentOK, PageOK, NEW k \in Call, todo[k] # <<>>, Notes(k), NEW how \in Failures, Throw(k, how),
           UNCHANGED <<facts, page, built>>, Forget(k) \/ (Prepared(k) /\ fate' = fate),
           pending' = pending \/ (Prepared(k) /\ \E more \in SUBSET Batch(k) : pending' = pending \cup more)
    PROVE  Shaped(k)
<1>1. /\ job' = job /\ round' = round /\ at' = [at EXCEPT ![k] = rescue[k][how]] /\ todo' = [todo EXCEPT ![k] = <<>>]
      /\ stage' = [stage EXCEPT ![k] = "ready"] /\ rescue' = [rescue EXCEPT ![k] = Uncaught]
      /\ rescue[k][how] \in Place \ Before
  BY DEF Throw, CallsOK
<1>2. Uncaught \in [Failures -> Place \ Before]
  BY CatchesAre
<1>3. Walks(k)
  BY <1>1, <1>2 DEF Walks, CallsOK, Single, Creating, Prepared
<1>4. Touches(k)
  <2>1. fate' = {z \in fate : z[1].by # k}
    BY NothingHeard DEF Forget, Prepared
  <2>2. pending \subseteq pending' /\ \A x \in pending' \ pending : Prepared(k) /\ x \in Batch(k)
    OBVIOUS
  <2> QED BY <2>1, <2>2, OneAtATime DEF Touches
<1>5. Marks(k)
  BY MarksNothing DEF PageOK
<1> QED BY <1>3, <1>4, <1>5 DEF Shaped

LEMMA NextShape ==
    ASSUME CallsOK, SentOK, PageOK, NEW k \in Call, todo[k] # <<>>, Notes(k), Next1(k),
           UNCHANGED <<facts, pending, page, built>>, Forget(k) \/ (Prepared(k) /\ fate' = fate)
    PROVE  Shaped(k)
<1>1. /\ UNCHANGED <<job, at, round, rescue>> /\ todo' = [todo EXCEPT ![k] = <<>>] /\ stage' = [stage EXCEPT ![k] = "ready"]
  BY OneAtATime DEF Next1
<1>2. Walks(k)
  BY <1>1, OneAtATime DEF Walks, CallsOK, Single, Creating, Prepared
<1>3. fate' = {z \in fate : z[1].by # k}
  BY NothingHeard DEF Forget, Prepared
<1>4. Touches(k)
  BY <1>3 DEF Touches
<1>5. Marks(k)
  BY MarksNothing DEF PageOK
<1> QED BY <1>2, <1>4, <1>5 DEF Shaped

LEMMA DeliveryShape ==
    ASSUME BusyInv, CallsOK, SentOK, PageOK, NEW k \in Call, Delivery(k), UNCHANGED pageVars
    PROVE  Shaped(k)
<1>0. UNCHANGED <<page, built>> /\ {"send", "failed", "expired"} \subseteq Failures
  BY DEF pageVars, Failures
<1>1. CASE Simulate(k)
  <2>1. /\ todo[k] # <<>> /\ Prepared(k) /\ Notes(k) /\ UNCHANGED <<facts, pending, fate>>
        /\ Next1(k) \/ Throw(k, "send")
    BY <1>1, NotesFacts DEF Simulate, Prepared, Next1, Throw, Nothing, BusyInv, programVars
  <2> QED BY <1>0, <2>1, ThrowShape, NextShape
<1>2. CASE Submit(k)
  <2>1. /\ Prepared(k) /\ Notes(k) /\ todo[k] # <<>> /\ pending' = pending \cup Batch(k) /\ stage' = [stage EXCEPT ![k] = "sent"]
        /\ UNCHANGED <<at, todo, round, rescue, seen, job, facts, fate>>
    BY <1>2, NotesFacts DEF Submit, Prepared, Nothing, BusyInv
  <2>2. Walks(k)
    BY <2>1, OneAtATime DEF Walks, CallsOK, Creating, Prepared
  <2>3. Touches(k)
    BY <2>1, OneAtATime, NothingHeard DEF Touches, Prepared
  <2>4. Marks(k)
    BY <1>0, MarksNothing DEF PageOK
  <2> QED BY <2>2, <2>3, <2>4 DEF Shaped
<1>3. CASE Refused(k)
  <2>1. /\ todo[k] # <<>> /\ Prepared(k) /\ Notes(k) /\ UNCHANGED <<facts, fate>> /\ Throw(k, "send")
        /\ pending' = pending \cup {x \in Batch(k) : Passes(x)}
    BY <1>3, NotesFacts DEF Refused, Prepared, Throw, Nothing, BusyInv
  <2>2. \E more \in SUBSET Batch(k) : pending' = pending \cup more
    BY <2>1
  <2> QED BY <1>0, <2>1, <2>2, ThrowShape
<1>4. CASE Confirmed(k)
  <2>1. todo[k] # <<>> /\ Notes(k) /\ Next1(k) /\ Forget(k) /\ UNCHANGED <<facts, pending>>
    BY <1>4, NotesFacts DEF Confirmed, Waiting, Next1, Nothing, BusyInv
  <2> QED BY <1>0, <2>1, NextShape
<1>5. CASE NotConfirmed(k)
  <2>1. /\ todo[k] # <<>> /\ Notes(k) /\ Forget(k) /\ UNCHANGED <<facts, pending>>
        /\ Throw(k, "failed") \/ Throw(k, "expired")
    BY <1>5, NotesFacts DEF NotConfirmed, Waiting, Throw, Nothing, BusyInv
  <2> QED BY <1>0, <2>1, ThrowShape
<1> QED BY <1>1, <1>2, <1>3, <1>4, <1>5 DEF Delivery

LEMMA KilledShape ==
    ASSUME BusyInv, CallsOK, SentOK, PageOK, NEW k \in Call, Killed(k)
    PROVE  Shaped(k)
<1>0. UNCHANGED <<page, built>> /\ {"send", "wait"} \subseteq Failures
  BY DEF Killed, pageVars, Failures
<1>1. CASE Fault(k)
  <2>1. /\ todo[k] # <<>> /\ Notes(k) /\ Forget(k) /\ facts' = facts
        /\ Throw(k, "send") \/ Throw(k, "wait")
    BY <1>1, NotesFacts DEF Fault, Throw, Nothing, BusyInv
  <2>2. pending' = pending \/ (Prepared(k) /\ \E more \in SUBSET Batch(k) : pending' = pending \cup more)
    <3>1. {x \in Batch(k) : Passes(x)} \in SUBSET Batch(k)
      OBVIOUS
    <3> QED BY <1>1, <3>1 DEF Fault
  <2> QED BY <1>0, <2>1, <2>2, ThrowShape
<1>2. CASE Stop(k)
  <2>1. /\ Notes(k) /\ Forget(k) /\ UNCHANGED <<round, seen, job, facts, pending>>
        /\ at' = [at EXCEPT ![k] = "stopped"] /\ todo' = [todo EXCEPT ![k] = <<>>]
        /\ stage' = [stage EXCEPT ![k] = "ready"] /\ rescue' = [rescue EXCEPT ![k] = Uncaught]
    BY <1>2, NotesFacts DEF Stop, Nothing, BusyInv
  <2>2. Uncaught \in [Failures -> Place \ Before] /\ "stopped" \in Place \ Before
    BY CatchesAre DEF Place, Before
  <2>3. Walks(k)
    BY <2>1, <2>2 DEF Walks, CallsOK, Single, Creating, Prepared
  <2>4. Touches(k)
    BY <2>1 DEF Touches, Forget
  <2>5. Marks(k)
    BY <1>0, MarksNothing DEF PageOK
  <2> QED BY <2>3, <2>4, <2>5 DEF Shaped
<1> QED BY <1>1, <1>2 DEF Killed

LEMMA GivesUpShape ==
    ASSUME BusyInv, CallsOK, SentOK, PageOK, NEW k \in Call, GivesUp(k)
    PROVE  Shaped(k)
<1>1. /\ Notes(k) /\ at[k] \in InFlight /\ page' = [page EXCEPT !.busy = FALSE]
      /\ UNCHANGED <<built, facts, pending, fate, job, at, todo, stage, round, rescue>>
  BY NotesFacts DEF GivesUp, BusyInv, programVars
<1>2. todo[k] = <<>>
  <2>1. job[k].cmd = "launch"
    BY <1>1, WhoIsThere
  <2> QED BY <1>1, <2>1 DEF BusyInv, Caught, Hooks, InFlight
<1>3. Marks(k)
  BY <1>1, BusySet, MarksNothing
<1>4. /\ round' = [round EXCEPT ![k] = round'[k]] /\ round'[k] \in Nat
      /\ at' = [at EXCEPT ![k] = at'[k]] /\ at'[k] \in Place \ Before
  BY <1>1 DEF CallsOK, InFlight, Before
<1> QED BY <1>1, <1>2, <1>3, <1>4, Adds

\* So every step of a call has the shape.
LEMMA EveryStepShaped ==
    ASSUME BusyInv, CallsOK, SentOK, PageOK, NEW k \in Call, CallOK(k), Start(k) \/ Goes(k) \/ Killed(k) \/ GivesUp(k)
    PROVE  Shaped(k)
  BY StartShape, DammExitShape, BatchShape, LoopShape, ServerShape, LaunchShape, PositionShape, DeliveryShape, KilledShape,
     GivesUpShape DEF CallOK, Goes, OnPage, Elsewhere, Carried

-----------------------------------------------------------------------------
(* How what is there evolves, whoever steps.                               *)

Lasting == {"done", "curve", "accepted", "image", "metadata"}
Evolves ==
    /\ job' = job
    /\ \A f \in facts : f[1] \in Lasting => f \in facts'
    /\ \A f \in facts' \ facts : f[1] \notin {"lp", "vaultIs"}
    /\ \A f \in facts' \ facts : f[1] = "open" => \E j \in Call : f = <<"open", NewPosition[j]>> /\ Ahead(j)
    /\ \A j \in Call : Ahead(j)' => Ahead(j)

\* A step that is nothing to call j.
Silent(j) ==
    /\ at'[j] = at[j] /\ todo'[j] = todo[j] /\ round'[j] = round[j] /\ rescue'[j] = rescue[j]
    /\ seen'[j] = seen[j] /\ built'[j] = built[j]
    /\ \A x \in pending' : x.by = j => x \in pending
    /\ \A z \in fate' : z[1].by = j => z \in fate
    /\ \A f \in facts' \ facts : f[1] \in {"done", "curve", "tip"} => f[2] # j

\* What a call creates depends on its job alone.
LEMMA CreatesAsBefore ==
    ASSUME job' = job, NEW j \in Call
    PROVE  createPosition(j)' = createPosition(j) /\ createPosition(j).by = j /\ createPosition(j).op = "createPosition"
  BY DEF createPosition, Creates, Bare

\* A step of a call.
LEMMA ShapedEvolves ==
    ASSUME CallsOK, \A j \in Call : FreshOK(j), NEW k \in Call, Shaped(k)
    PROVE  Evolves /\ (\A j \in Call : FreshOK(j)') /\ \A j \in Call \ {k} : Silent(j)
<1> USE DEF Shaped
<1>1. job' = job
  BY DEF Walks
<1>2. ASSUME NEW j \in Call \ {k}
      PROVE  /\ Silent(j) /\ stage'[j] = stage[j]
             /\ createPosition(j) \in pending' => createPosition(j) \in pending
  <2>1. \A x \in pending' : x.by = j => x \in pending
    BY DEF Touches, Proper
  <2>2. \A z \in fate' : z[1].by = j => z \in fate
    BY DEF Touches
  <2>3. \A f \in facts' \ facts : f[1] \in {"done", "curve", "tip"} => f[2] # j
    BY DEF Touches
  <2>4. at'[j] = at[j] /\ todo'[j] = todo[j] /\ round'[j] = round[j] /\ rescue'[j] = rescue[j] /\ stage'[j] = stage[j]
    BY DEF Walks, CallsOK
  <2>5. seen'[j] = seen[j] /\ built'[j] = built[j]
    BY DEF Walks, Notes, Marks, CallsOK
  <2> QED BY <1>1, <2>1, <2>2, <2>3, <2>4, <2>5, CreatesAsBefore DEF Silent
<1>3. createPosition(k) \in pending' => createPosition(k) \in pending \/ Creating(k)
  BY <1>1, CreatesAsBefore DEF Touches
<1>4. ASSUME NEW j \in Call, Ahead(j)' PROVE Ahead(j)
  <2>1. createPosition(j)' = createPosition(j)
    BY <1>1, CreatesAsBefore
  <2>2. CASE j = k
    BY <1>1, <1>3, <1>4, <2>1, <2>2 DEF Ahead, Walks
  <2>3. CASE j # k
    <3>1. Creating(j)' = Creating(j)
      BY <1>2, <2>1, <2>3 DEF Creating, Prepared, Batch, Silent
    <3> QED BY <1>1, <1>2, <1>4, <2>1, <2>3, <3>1 DEF Ahead, Silent
  <2> QED BY <2>2, <2>3
<1>5. \A f \in facts' \ facts : f[1] \in {"image", "metadata", "accepted"}
  BY DEF Touches
<1>6. Evolves
  BY <1>1, <1>4, <1>5 DEF Evolves, Touches
<1>7. ASSUME NEW j \in Call PROVE FreshOK(j)'
  <2>1. createPosition(j)' = createPosition(j)
    BY <1>1, CreatesAsBefore
  <2>2. Ahead(j)' => <<"open", NewPosition[j]>> \notin facts'
    BY <1>4, <1>5 DEF FreshOK
  <2>3. (at[j] \in Before \/ Creating(j))' => createPosition(j) \notin pending'
    <3>1. CASE j # k
      <4>1. Creating(j)' = Creating(j)
        BY <1>2, <2>1, <3>1 DEF Creating, Prepared, Batch, Silent
      <4> QED BY <1>2, <3>1, <4>1 DEF FreshOK, Silent
    <3>2. CASE j = k
      <4>1. at'[k] \in Before \/ Creating(k)' => at[k] \in Before
        BY DEF Walks
      <4>2. at[k] \in Before => ~Creating(k)
        BY DEF CallsOK, Creating, Prepared
      <4> QED BY <1>3, <3>2, <4>1, <4>2 DEF FreshOK
    <3> QED BY <3>1, <3>2
  <2> QED BY <2>1, <2>2, <2>3 DEF FreshOK
<1> QED BY <1>2, <1>6, <1>7

\* What an execution adds and takes away.
LEMMA ExecutionFacts ==
    ASSUME NEW x, Proper(x.by, x), Executes(x)
    PROVE  /\ \A f \in facts : f \notin facts' => f[1] \in {"free", "vested", "locked", "fee", "open", "due", "lp"}
           /\ \A f \in facts' \ facts : f \in x.makes \/ f[1] \in {"free", "traded"}
           /\ Fits(x) => x.makes \subseteq facts' /\ Taken(x) \subseteq Tokens(x) /\ facts' \cap Taken(x) \subseteq New(x) \cup Trace(x)
           /\ ~Fits(x) => facts' = facts
<1>1. CASE ~Fits(x)
  BY <1>1 DEF Executes
<1>2. CASE Fits(x)
  <2>1. facts' = (facts \ Gone(x)) \cup New(x) \cup Trace(x)
    BY <1>2 DEF Executes
  <2>2. Taken(x) \in SUBSET Tokens(x)
    BY <1>2 DEF Fits, Taken
  <2>3. \A f \in Gone(x) : f[1] \in {"free", "vested", "locked", "fee", "open", "due", "lp"}
    BY <2>2 DEF Gone, Tokens, Moved, Proper
  <2>4. \A f \in New(x) \cup Trace(x) : f \in x.makes \/ f[1] \in {"free", "traded"}
    BY DEF New, Trace
  <2>5. x.makes \subseteq New(x) /\ Taken(x) \subseteq Gone(x)
    BY DEF New, Gone
  <2> QED BY <1>2, <2>1, <2>2, <2>3, <2>4, <2>5
<1> QED BY <1>1, <1>2

\* A transaction is executed, or expires.
LandsBy(x) == (Execute(x, Awaited(x)) \/ Expire(x, Awaited(x))) /\ UNCHANGED <<processVars, job, built>>

\* A transaction lands: the call it belongs to may be told, and facts change by it.
LEMMA LandsFacts ==
    ASSUME SentOK, NEW x \in pending, LandsBy(x)
    PROVE  /\ x.by \in Call /\ Proper(x.by, x)
           /\ \A f \in facts : f \notin facts' => f[1] \in {"free", "vested", "locked", "fee", "open", "due", "lp"}
           /\ \A f \in facts' \ facts : f \in x.makes \/ f[1] \in {"free", "traded"}
           /\ pending' = pending \ {x}
           /\ \A z \in fate' \ fate : Awaited(x) /\ z \in {x} \X Outcome
           /\ UNCHANGED <<job, at, todo, stage, round, rescue, seen, built>>
<1>1. x.by \in Call /\ Proper(x.by, x)
  BY DEF SentOK
<1>2. Executes(x) \/ facts' = facts
  BY DEF LandsBy, Execute, Expire
<1>3. /\ \A f \in facts : f \notin facts' => f[1] \in {"free", "vested", "locked", "fee", "open", "due", "lp"}
      /\ \A f \in facts' \ facts : f \in x.makes \/ f[1] \in {"free", "traded"}
  BY <1>1, <1>2, ExecutionFacts
<1>4. pending' = pending \ {x} /\ \A z \in fate' \ fate : Awaited(x) /\ z \in {x} \X Outcome
  BY DEF LandsBy, Execute, Expire, Ends, Outcome
<1> QED BY <1>1, <1>3, <1>4 DEF LandsBy, processVars

\* It creates a position only if a call was still ahead of it.
LEMMA LandsEvolves ==
    ASSUME SentOK, \A j \in Call : FreshOK(j), NEW x \in pending, LandsBy(x)
    PROVE  Evolves /\ (\A j \in Call : FreshOK(j)') /\ \A j \in Call \ {x.by} : Silent(j)
<1>1. /\ x.by \in Call /\ Proper(x.by, x)
      /\ \A f \in facts : f \notin facts' => f[1] \in {"free", "vested", "locked", "fee", "open", "due", "lp"}
      /\ \A f \in facts' \ facts : f \in x.makes \/ f[1] \in {"free", "traded"}
      /\ pending' = pending \ {x}
      /\ \A z \in fate' \ fate : z \in {x} \X Outcome
      /\ UNCHANGED <<job, at, todo, stage, round, rescue, seen, built>>
  BY LandsFacts
<1>2. ASSUME NEW j \in Call
      PROVE  createPosition(j)' = createPosition(j) /\ Creating(j)' = Creating(j)
  BY <1>1, CreatesAsBefore DEF Creating, Prepared, Batch
<1>3. ASSUME NEW j \in Call, Ahead(j)' PROVE Ahead(j)
  BY <1>1, <1>2, <1>3 DEF Ahead
<1>4. ASSUME NEW f \in facts' \ facts, f[1] = "open"
      PROVE  f = <<"open", NewPosition[x.by]>> /\ x = createPosition(x.by)
  BY <1>1, <1>4 DEF Proper
<1>5. Evolves
  <2>1. \A f \in facts : f[1] \in Lasting => f \in facts'
    BY <1>1 DEF Lasting
  <2>2. \A f \in facts' \ facts : f[1] \notin {"lp", "vaultIs"}
    BY <1>1 DEF Proper
  <2>3. \A f \in facts' \ facts : f[1] = "open" => f = <<"open", NewPosition[x.by]>> /\ Ahead(x.by)
    BY <1>4 DEF Ahead
  <2> QED BY <1>1, <1>3, <2>1, <2>2, <2>3 DEF Evolves
<1>6. ASSUME NEW j \in Call PROVE FreshOK(j)'
  <2>1. (at[j] \in Before \/ Creating(j))' => createPosition(j)' \notin pending'
    BY <1>1, <1>2 DEF FreshOK
  <2>2. ASSUME Ahead(j)', <<"open", NewPosition[j]>> \in facts' PROVE FALSE
    <3>1. <<"open", NewPosition[j]>> \in facts' \ facts
      BY <1>3, <2>2 DEF FreshOK
    <3>2. NewPosition[j] = NewPosition[x.by] /\ x = createPosition(x.by)
      BY <1>4, <3>1
    <3>3. x.by = j
      BY <1>1, <3>2, PositionAssumption
    <3> QED BY <1>1, <1>2, <2>2, <3>2, <3>3 DEF Ahead, FreshOK
  <2> QED BY <2>1, <2>2 DEF FreshOK
<1>7. ASSUME NEW j \in Call \ {x.by} PROVE Silent(j)
  <2>1. \A z \in fate' : z[1].by = j => z \in fate
    BY <1>1
  <2>2. \A f \in facts' \ facts : f[1] \in {"done", "curve", "tip"} => f[2] # j
    BY <1>1 DEF Proper
  <2> QED BY <1>1, <2>1, <2>2 DEF Silent
<1> QED BY <1>5, <1>6, <1>7

\* Traders and time.
LEMMA WorldEvolves ==
    ASSUME \A j \in Call : FreshOK(j), Trade \/ Mature, UNCHANGED <<processVars, job, built>>
    PROVE  Evolves /\ (\A j \in Call : FreshOK(j)') /\ \A j \in Call : Silent(j)
<1>1. /\ \A f \in facts : f \notin facts' => f[1] = "price"
      /\ \A f \in facts' \ facts : f[1] \in {"price", "fee", "matured"}
      /\ UNCHANGED <<pending, fate, job, at, todo, stage, round, rescue, seen, built>>
  BY DEF Trade, Mature, processVars
<1>2. ASSUME NEW j \in Call
      PROVE  createPosition(j)' = createPosition(j) /\ Creating(j)' = Creating(j) /\ Ahead(j)' = Ahead(j)
  BY <1>1, CreatesAsBefore DEF Creating, Prepared, Batch, Ahead
<1> QED BY <1>1, <1>2 DEF Evolves, FreshOK, Silent, Lasting

\* Nothing of the calls or the chain changes.
LEMMA StillEvolves ==
    ASSUME \A j \in Call : FreshOK(j), UNCHANGED <<programVars, processVars, job, built>>
    PROVE  Evolves /\ (\A j \in Call : FreshOK(j)') /\ \A j \in Call : Silent(j)
<1>1. UNCHANGED <<facts, pending, fate, job, at, todo, stage, round, rescue, seen, built>>
  BY DEF programVars, processVars
<1>2. ASSUME NEW j \in Call
      PROVE  createPosition(j)' = createPosition(j) /\ Creating(j)' = Creating(j) /\ Ahead(j)' = Ahead(j)
  BY <1>1, CreatesAsBefore DEF Creating, Prepared, Batch, Ahead
<1> QED BY <1>1, <1>2 DEF Evolves, FreshOK, Silent

-----------------------------------------------------------------------------
(* What a step that is nothing to a call leaves of it.                     *)

\* What is gone for good stays gone, and what is done stays done.
LEMMA GoneStays ==
    ASSUME Evolves, NEW f, GoneForGood(f)
    PROVE  GoneForGood(f)' /\ (f \notin facts => f \notin facts')
  BY DEF Evolves, GoneForGood, Lasting

LEMMA RowStays ==
    ASSUME Evolves, NEW k \in Call, NEW i, NEW x, RowTx(k, i, x)
    PROVE  RowTx(k, i, x)' /\ (~(x.needs \subseteq facts) => ~(x.needs \subseteq facts'))
  BY GoneStays DEF RowTx

LEMMA DoneStays ==
    ASSUME Evolves, NEW k, NEW i
    PROVE  /\ IsDone(k, i) => IsDone(k, i)'
           /\ Silent(k) => (IsDone(k, i)' <=> IsDone(k, i))
  BY DEF Evolves, Silent, IsDone, Done, Lasting

LEMMA SettledStays ==
    ASSUME Evolves, NEW k \in Call, NEW i, RowTx(k, i, built[k][i]), Settled(k, i), built'[k] = built[k]
    PROVE  Settled(k, i)'
  BY RowStays, DoneStays DEF Settled

LEMMA LpsShrink ==
    ASSUME Evolves, NEW n
    PROVE  Lps(n)' \subseteq Lps(n)
  BY DEF Evolves, Lps

\* A balance only shrinks.
LEMMA BalanceStays ==
    ASSUME Evolves, NEW k \in Call, NEW n, NEW a \in Nat, Balance(k, n, a), \A i \in Nat : IsDone(k, i)' <=> IsDone(k, i)
    PROVE  Balance(k, n, a)'
<1>1. IsFiniteSet(Lps(n)) /\ Lps(n)' \in SUBSET Lps(n)
  BY LpsShrink DEF Balance
<1>2. /\ IsFiniteSet(Lps(n)') /\ Cardinality(Lps(n)') <= Cardinality(Lps(n))
      /\ Cardinality(Lps(n)') \in Nat /\ Cardinality(Lps(n)) \in Nat
  BY <1>1, FS_Subset, FS_CardinalityType
<1>3. IsFiniteSet(Lps(n))' /\ Cardinality(Lps(n))' <= Cardinality(Lps(n)) /\ Cardinality(Lps(n))' \in Nat
  BY <1>2
<1>4. CASE Cardinality(Lps(n)) <= a /\ \A i \in Nat : ~IsDone(k, i)
  BY <1>2, <1>3, <1>4 DEF Balance
<1>5. CASE Lps(n) = {} /\ \E i \in 1..Attempts : \A j \in Nat : IsDone(k, j) <=> j = i
  <2>1. PICK i \in 1..Attempts : \A j \in Nat : IsDone(k, j) <=> j = i
    BY <1>5
  <2>2. \A j \in Nat : IsDone(k, j)' <=> j = i
    BY <2>1
  <2>3. Lps(n)' = {}
    BY <1>1, <1>5
  <2> QED BY <1>3, <2>2, <2>3 DEF Balance
<1> QED BY <1>4, <1>5 DEF Balance

LEMMA LpTxStays ==
    ASSUME NEW k, NEW n, NEW a
    PROVE  LpTx(k, round[k], n, a)' = LpTx(k, round'[k], n, a)
  BY DEF LpTx, Bare

\* What is known of a call survives the steps of all others.
LEMMA SilentBullet ==
    ASSUME Evolves, NEW k \in Call, Silent(k), BulletOK(k)
    PROVE  BulletOK(k)'
<1> SUFFICES ASSUME job'[k].cmd = "bulletproof"
             PROVE  Unbegun(k)' \/ \E n \in LpPool, a \in Nat \ {0} : Trying(k, n, a)'
  BY DEF BulletOK
<1>1. job[k].cmd = "bulletproof"
  BY DEF Evolves
<1>2. \A i : IsDone(k, i)' <=> IsDone(k, i)
  BY DoneStays
<1>3. CASE Unbegun(k)
  BY <1>2, <1>3 DEF Unbegun, Silent
<1>4. ASSUME NEW n \in LpPool, NEW a \in Nat \ {0}, Trying(k, n, a)
      PROVE  Trying(k, n, a)'
  <2>1. Balance(k, n, a)'
    BY <1>2, <1>4, BalanceStays DEF Trying
  <2>2. LpTx(k, round[k], n, a)' = LpTx(k, round[k], n, a)
    BY LpTxStays DEF Silent
  <2>3. \A x \in pending' : x.by = k => \E i \in 1..Attempts : x = LpTx(k, i, n, a)
    BY <1>4 DEF Trying, Silent
  <2>4. <<LpTx(k, round[k], n, a), "ok">> \in fate' => IsDone(k, round[k])'
    <3>1. LpTx(k, round[k], n, a).by = k
      BY LpTxIs
    <3> QED BY <1>2, <1>4, <3>1 DEF Trying, Silent
  <2>5. At(k, "success")' \/ <<"answer", "success">> \in seen'[k] => \E i \in Nat : IsDone(k, i)'
    BY <1>2, <1>4 DEF Trying, Silent, At
  <2>6. round'[k] = round[k]
    BY DEF Silent
  <2> QED BY <1>4, <2>1, <2>2, <2>3, <2>4, <2>5, <2>6 DEF Trying, Silent
<1> QED BY <1>1, <1>3, <1>4 DEF BulletOK

LEMMA SilentRun ==
    ASSUME Evolves, NEW k \in Call, Silent(k), RunOK(k)
    PROVE  RunOK(k)'
<1> SUFFICES ASSUME job[k].cmd \in Loops
             PROVE  RunOK(k)'
  BY DEF RunOK, Evolves
<1>1. \A i \in DOMAIN built[k] : RowTx(k, i, built[k][i])
  BY DEF RunOK
<1>2. ASSUME NEW i \in DOMAIN built'[k]
      PROVE  RowTx(k, i, built[k][i])'
  <2>1. i \in DOMAIN built[k] /\ built'[k][i] = built[k][i]
    BY DEF Silent
  <2> QED BY <1>1, <2>1, GoneStays DEF RowTx
<1>3. \A i \in DOMAIN built[k] : Settled(k, i) => Settled(k, i)'
  BY <1>1, SettledStays DEF Silent
<1>4. job' = job /\ at'[k] = at[k] /\ todo'[k] = todo[k] /\ round'[k] = round[k] /\ built'[k] = built[k] /\ seen'[k] = seen[k]
  BY DEF Evolves, Silent
<1>5. /\ \A z \in fate' : z[1].by = k => z \in fate
      /\ \A m : <<"curve", m>> \in facts => <<"curve", m>> \in facts'
  BY DEF Evolves, Silent, Lasting
<1> QED BY <1>2, <1>3, <1>4, <1>5 DEF RunOK, At, Loops

LEMMA SilentLaunch ==
    ASSUME Evolves, NEW k \in Call, Silent(k), LaunchOK(k)
    PROVE  LaunchOK(k)'
<1> SUFFICES ASSUME job[k].cmd = "launch"
             PROVE  LaunchOK(k)'
  BY DEF LaunchOK, Evolves
<1>1. job' = job /\ at'[k] = at[k] /\ todo'[k] = todo[k] /\ round'[k] = round[k] /\ built'[k] = built[k] /\ seen'[k] = seen[k]
  BY DEF Evolves, Silent
<1>2. /\ \A f \in {<<"image", k>>, <<"metadata", k>>} : f \in facts => f \in facts'
      /\ \A i : Accepted(k, i) \in facts => Accepted(k, i) \in facts'
      /\ \A f \in {<<"curve", k>>, <<"tip", k>>} : f \in facts' => f \in facts
  BY DEF Evolves, Silent, Lasting, Accepted
<1>3. \A x \in pending' : x.by = k => x \in pending
  BY DEF Silent
<1>4. SwapTx(k) \in pending' => SwapTx(k) \in pending
  BY <1>3, LaunchTxs DEF Sends, Proper
<1> QED BY <1>1, <1>2, <1>3, <1>4 DEF LaunchOK, Files, AllAccepted, Told

LEMMA SilentKeeps ==
    ASSUME Evolves, NEW k \in Call, Silent(k), CallOK(k), FreshOK(k)'
    PROVE  CallOK(k)'
  BY SilentBullet, SilentRun, SilentLaunch DEF CallOK

-----------------------------------------------------------------------------
(* A transaction of the call itself is executed, or expires.               *)

\* It is executed, or found not to fit, or its blockhash expires.
LEMMA LandsHow ==
    ASSUME SentOK, NEW x \in pending, LandsBy(x)
    PROVE  \/ Fits(x) /\ Executes(x) /\ fate' \subseteq fate \cup {<<x, "ok">>}
           \/ ~Fits(x) /\ facts' = facts /\ fate' \subseteq fate \cup {<<x, "failed">>}
           \/ facts' = facts /\ fate' \subseteq fate \cup {<<x, "expired">>}
  BY DEF LandsBy, Execute, Executes, Expire, Ends

\* The whole balance is gone once an attempt was executed: no second one can be.
LEMMA OwnBullet ==
    ASSUME SentOK, Evolves, NEW x \in pending, LandsBy(x), BulletOK(x.by)
    PROVE  BulletOK(x.by)'
<1> DEFINE k == x.by
<1>0. /\ k \in Call /\ Proper(k, x) /\ pending' = pending \ {x}
      /\ \A f \in facts' \ facts : f \in x.makes \/ f[1] \in {"free", "traded"}
      /\ UNCHANGED <<job, at, todo, stage, round, rescue, seen, built>>
  BY LandsFacts
<1> SUFFICES ASSUME job[k].cmd = "bulletproof"
             PROVE  \E n \in LpPool, a \in Nat \ {0} : Trying(k, n, a)'
  BY <1>0 DEF BulletOK
<1>1. PICK n \in LpPool, a \in Nat \ {0} : Trying(k, n, a)
  BY DEF BulletOK, Unbegun
<1>2. PICK i \in 1..Attempts : x = LpTx(k, i, n, a)
  BY <1>1 DEF Trying
<1>3. x.makes = {Done(k, i)} /\ x.takes = <<n, a>> /\ x.att = i /\ Tokens(x) = Lps(n)
  BY <1>0, <1>2, LpTxIs DEF Tokens, Lps
<1>4. i \in Nat /\ round[k] \in 1..Attempts /\ round[k] \in Nat
  BY <1>1, AttemptsAssumption DEF Trying
<1>5. LpTx(k, round[k], n, a)' = LpTx(k, round[k], n, a) /\ LpTx(k, round[k], n, a).att = round[k]
  BY <1>0, LpTxStays, LpTxIs
<1>6. \A j : IsDone(k, j) => IsDone(k, j)'
  BY DoneStays
<1>7. Balance(k, n, a)' /\ (<<LpTx(k, round[k], n, a), "ok">> \in fate' => IsDone(k, round[k])')
  <2>1. CASE facts' = facts /\ fate' \subseteq fate \cup ({x} \X {"failed", "expired"})
    <3>1. \A j \in Nat : IsDone(k, j)' <=> IsDone(k, j)
      BY <2>1 DEF IsDone
    <3>2. Balance(k, n, a)'
      BY <1>0, <1>1, <3>1, BalanceStays DEF Trying
    <3>3. <<LpTx(k, round[k], n, a), "ok">> \in fate' => <<LpTx(k, round[k], n, a), "ok">> \in fate
      BY <2>1
    <3>4. IsDone(k, round[k]) => IsDone(k, round[k])'
      BY <1>0, <1>6 DEF IsDone
    <3> QED BY <1>1, <3>2, <3>3, <3>4 DEF Trying
  <2>2. CASE Fits(x) /\ Executes(x) /\ fate' \subseteq fate \cup {<<x, "ok">>}
    <3>1. /\ x.makes \subseteq facts' /\ Taken(x) \subseteq Lps(n) /\ facts' \cap Taken(x) \subseteq New(x) \cup Trace(x)
      BY <1>0, <1>3, <2>2, ExecutionFacts
    <3>2. Taken(x) \in SUBSET Lps(n) /\ Cardinality(Taken(x)) = a
      BY <1>3, <2>2 DEF Fits, Taken
    <3>3. IsFiniteSet(Lps(n))
      BY <1>1 DEF Trying, Balance
    <3>4. Cardinality(Taken(x)) <= Cardinality(Lps(n)) /\ (Cardinality(Lps(n)) = Cardinality(Taken(x)) => Lps(n) = Taken(x))
          /\ Cardinality(Lps(n)) \in Nat
      BY <3>2, <3>3, FS_Subset, FS_CardinalityType
    <3>5. Lps(n) # {}
      BY <3>2, <3>4, FS_EmptySet
    <3>6. Cardinality(Lps(n)) <= a /\ \A j \in Nat : ~IsDone(k, j)
      BY <1>1, <3>5 DEF Trying, Balance
    <3>7. Lps(n) = Taken(x)
      BY <3>2, <3>4, <3>6
    <3>8. \A f \in New(x) \cup Trace(x) : f[1] # "lp"
      BY <1>3 DEF New, Trace, Done
    <3>9. Lps(n)' = {}
      <4>1. Lps(n)' \subseteq Taken(x) \cap facts'
        BY <3>7, LpsShrink DEF Lps
      <4>2. \A f \in Lps(n)' : f[1] = "lp"
        BY DEF Lps
      <4> QED BY <3>1, <3>8, <4>1, <4>2
    <3>10. IsDone(k, i)'
      BY <1>3, <3>1 DEF IsDone
    <3>11. ASSUME NEW j \in Nat, IsDone(k, j)' PROVE j = i
      <4>1. Done(k, j) \in facts' \ facts
        BY <3>6, <3>11 DEF IsDone
      <4>2. Done(k, j) \in {Done(k, i)}
        BY <1>0, <1>3, <4>1 DEF Done
      <4> QED BY <4>2 DEF Done
    <3>12. Balance(k, n, a)'
      <4>1. IsFiniteSet(Lps(n))'
        BY <3>9, FS_EmptySet
      <4> QED BY <3>9, <3>10, <3>11, <4>1 DEF Balance
    <3>13. <<LpTx(k, round[k], n, a), "ok">> \in fate' => IsDone(k, round[k])'
      <4>1. LpTx(k, round[k], n, a) = x => round[k] = i
        BY <1>3, <1>5
      <4>2. round'[k] = round[k] /\ (IsDone(k, i)' => (round[k] = i => IsDone(k, round[k])'))
        BY <1>0 DEF IsDone
      <4>3. IsDone(k, round[k]) => IsDone(k, round[k])'
        BY <1>0, <1>6 DEF IsDone
      <4> QED BY <1>1, <2>2, <3>10, <4>1, <4>2, <4>3 DEF Trying
    <3> QED BY <3>12, <3>13
  <2> QED BY <2>1, <2>2, LandsHow
<1>8. At(k, "success")' \/ <<"answer", "success">> \in seen'[k] => \E j \in Nat : IsDone(k, j)'
  BY <1>0, <1>1, <1>6 DEF Trying, At
<1>9. Trying(k, n, a)'
  <2>1. /\ at'[k] = at[k] /\ seen'[k] = seen[k] /\ round'[k] = round[k] /\ todo'[k] = todo[k] /\ rescue'[k] = rescue[k]
        /\ \A y \in pending' : y \in pending
    BY <1>0
  <2> QED BY <1>1, <1>5, <1>7, <1>8, <2>1 DEF Trying
<1> QED BY <1>9

LEMMA OwnRun ==
    ASSUME SentOK, Evolves, NEW x \in pending, LandsBy(x), RunOK(x.by)
    PROVE  RunOK(x.by)'
<1> DEFINE k == x.by
<1>0. /\ k \in Call /\ \A z \in fate' \ fate : Awaited(x)
      /\ UNCHANGED <<job, at, todo, stage, round, rescue, seen, built>>
  BY LandsFacts
<1> SUFFICES ASSUME job[k].cmd \in Loops
             PROVE  RunOK(k)'
  BY <1>0 DEF RunOK
<1>1. \A i \in DOMAIN built[k] : RowTx(k, i, built[k][i])
  BY DEF RunOK
<1>2. ASSUME NEW i \in DOMAIN built'[k]
      PROVE  RowTx(k, i, built[k][i])'
  <2>1. i \in DOMAIN built[k] /\ built'[k][i] = built[k][i]
    BY <1>0
  <2> QED BY <1>1, <2>1, GoneStays DEF RowTx
<1>3. \A i \in DOMAIN built[k] : Settled(k, i) => Settled(k, i)'
  BY <1>0, <1>1, SettledStays
<1>4. \A m : <<"curve", m>> \in facts => <<"curve", m>> \in facts'
  BY DEF Evolves, Lasting
<1>5. ASSUME NEW z \in fate', z[1].by = k, z[2] # "expired"
      PROVE  round[k] \in DOMAIN built[k] /\ Settled(k, round[k])'
  <2>1. CASE z \in fate
    BY <1>0, <1>3, <1>5, <2>1 DEF RunOK
  <2>2. CASE z \notin fate
    <3>1. todo[k] # <<>> /\ x \in Batch(k)
      BY <1>0, <2>2 DEF Awaited, Waiting
    <3>2. round[k] \in DOMAIN built[k] /\ x = built[k][round[k]]
      BY <3>1 DEF RunOK, Batch
    <3>3. RowTx(k, round[k], x)
      BY <1>1, <3>2
    <3>4. CASE Fits(x) /\ Executes(x)
      <4>1. x.makes \subseteq facts'
        BY <3>4, ExecutionFacts DEF SentOK
      <4>2. Done(k, round[k]) \in facts'
        BY <3>3, <4>1 DEF RowTx
      <4> QED BY <1>0, <3>2, <4>2 DEF Settled, IsDone, Done
    <3>5. CASE ~Fits(x) /\ facts' = facts
      <4>1. {} \in SUBSET Tokens(x) /\ Cardinality({}) = x.takes[2]
        BY <3>3, FS_EmptySet DEF RowTx
      <4>2. ~(x.needs \subseteq facts)
        BY <3>3, <3>5, <4>1 DEF Fits, RowTx
      <4> QED BY <1>0, <3>2, <3>5, <4>2 DEF Settled
    <3> QED BY <1>5, <2>2, <3>4, <3>5, LandsHow
  <2> QED BY <2>1, <2>2
<1> QED BY <1>0, <1>2, <1>3, <1>4, <1>5 DEF RunOK, At, Loops

LEMMA OwnLaunch ==
    ASSUME SentOK, Evolves, NEW x \in pending, LandsBy(x), LaunchOK(x.by)
    PROVE  LaunchOK(x.by)'
<1> DEFINE k == x.by
<1>0. /\ k \in Call /\ pending' = pending \ {x}
      /\ \A f \in facts' \ facts : f \in x.makes \/ f[1] \in {"free", "traded"}
      /\ UNCHANGED <<job, at, todo, stage, round, rescue, seen, built>>
  BY LandsFacts
<1> SUFFICES ASSUME job[k].cmd = "launch"
             PROVE  LaunchOK(k)'
  BY <1>0 DEF LaunchOK
<1>1. x \in {CreateTx(k), SwapTx(k)} /\ built[k] # <<>>
  BY DEF LaunchOK
<1>2. /\ \A f \in {<<"image", k>>, <<"metadata", k>>} : f \in facts => f \in facts'
      /\ \A i : Accepted(k, i) \in facts => Accepted(k, i) \in facts'
  BY DEF Evolves, Lasting, Accepted
<1>3. <<"tip", k>> \in facts' => <<"tip", k>> \in facts \/ SwapTx(k) \in pending
  BY <1>0, <1>1, LaunchTxs
<1>4. SwapTx(k) \in pending' => SwapTx(k) \in pending
  BY <1>0
<1> QED BY <1>0, <1>1, <1>2, <1>3, <1>4 DEF LaunchOK, Files, AllAccepted, Told

LEMMA OwnKeeps ==
    ASSUME SentOK, Evolves, NEW x \in pending, LandsBy(x), CallOK(x.by), FreshOK(x.by)'
    PROVE  CallOK(x.by)'
  BY OwnBullet, OwnRun, OwnLaunch DEF CallOK

-----------------------------------------------------------------------------
(* A step of the call itself, by its command.                              *)

\* Where a call may be and do what it does, by its command.
LEMMA StepPlaces ==
    ASSUME NEW k \in Call
    PROVE  /\ Start(k) => at[k] = "idle"
           /\ PositionStep(k) => todo[k] = <<>> /\ at[k] \in PositionPlaces \cup {"position", "quoted"}
           /\ DammExitStep(k) => todo[k] = <<>> /\
                 at[k] \in {"exitAll", "listing", "signing", "exitOne", "picked", "exitAuto", "findLp", "signLp"}
           /\ BatchStep(k) => todo[k] = <<>> /\ at[k] \in {"batch", "discover", "build", "signing"}
           /\ LoopStep(k) => todo[k] = <<>> /\ at[k] \in {"rows", "rowDone", "rowFailed"}
           /\ ServerStep(k) => todo[k] = <<>> /\
                 at[k] \in {"bulletproof", "attempt", "again", "success", "gaveUp", "removeLp", "removeAll", "buildClaim"}
           /\ LaunchStep(k) => todo[k] = <<>> /\
                 at[k] \in InFlight \cup {"launch", "signCreate", "signSwap", "bundle", "submitBundle", "relay", "buildLaunch"}
           /\ Delivery(k) \/ Fault(k) => todo[k] # <<>>
           /\ GivesUp(k) => at[k] \in InFlight
<1>1. PositionStep(k) => todo[k] = <<>> /\ at[k] \in PositionPlaces \cup {"position", "quoted"}
  BY SMTT(40)
      DEF PositionStep, FetchPool, NoPosition, ChoosePosition, PositionGone, SplitCreate, SplitPosition, ClaimPositionFee,
     AddLiquidity, Refetch, RemoveLiquidity, RemoveQuoted, RemoveRemains, RemoveClose, ClosePosition, Doing, At, PositionPlaces
<1>2. DammExitStep(k) => todo[k] = <<>> /\
                 at[k] \in {"exitAll", "listing", "signing", "exitOne", "picked", "exitAuto", "findLp", "signLp"}
  BY Zenon
      DEF DammExitStep, OpenExitAll, ExitAllFails, ListPositions, SignExitAll, NoPositionForPool, PickPosition, BuildExit,
     OpenExitAuto, findBestDammLpAndPool, ExitAutoFails, SubmitLp, At
<1>3. BatchStep(k) => todo[k] = <<>> /\ at[k] \in {"batch", "discover", "build", "signing"}
  BY DEF BatchStep, OpenBatch, Discover, BuildBatch, SignBatch, BatchFails, Preparing, At
<1>4. LoopStep(k) => todo[k] = <<>> /\ at[k] \in {"rows", "rowDone", "rowFailed"}
  BY DEF LoopStep, SendRow, RowDone, RowFailed, RowUnsigned, RowsEnd, RowIs, At
<1>5. ServerStep(k) => todo[k] = <<>> /\
                 at[k] \in {"bulletproof", "attempt", "again", "success", "gaveUp", "removeLp", "removeAll", "buildClaim"}
  BY DEF ServerStep, ScanLp, Attempt, Again, Answered, ResolveKeys, NoKeys, RemoveAllLp, BuildClaim, At
<1>6. LaunchStep(k) => todo[k] = <<>> /\
                 at[k] \in InFlight \cup {"launch", "signCreate", "signSwap", "bundle", "submitBundle", "relay", "buildLaunch"}
  BY DEF LaunchStep, OpenLaunch, Fails, UploadImage, UploadMetadata, UploadFile, BuildCreate, SignCreate, BuildSwap, SignSwap,
     SendNext, NodeSilent, AllSent, Landed, BuildBundle, Relay, BuildLaunch, At, InFlight
<1>7. Delivery(k) \/ Fault(k) => todo[k] # <<>>
  BY DEF Delivery, Simulate, Submit, Refused, Confirmed, NotConfirmed, Prepared, Waiting, Fault
<1> QED BY <1>1, <1>2, <1>3, <1>4, <1>5, <1>6, <1>7 DEF Start, GivesUp

\* Nothing of what the call has made, or has had executed, changes.
LEMMA OwnFacts ==
    ASSUME NEW k \in Call, Shaped(k)
    PROVE  /\ \A i : IsDone(k, i)' <=> IsDone(k, i)
           /\ \A z \in fate' : z[1].by # k
           /\ \A f \in facts : f \in facts'
           /\ \A f \in facts' \ facts : f[1] \in {"image", "metadata", "accepted"}
  BY DEF Shaped, Touches, IsDone, Done

\* What a delivery may do to the call that waits for it.
LEMMA DeliveryFacts ==
    ASSUME CallsOK, NEW k \in Call, Delivery(k) \/ Fault(k)
    PROVE  /\ todo[k] # <<>> /\ UNCHANGED <<round, seen, job>>
           /\ \A x \in pending' : x \in pending \/ x \in Batch(k)
           /\ \/ \E how \in Failures :
                    /\ at'[k] = rescue[k][how] /\ todo'[k] = <<>> /\ rescue'[k] = Uncaught
                    /\ how = "failed" => \E x \in Batch(k) : <<x, "failed">> \in fate
              \/ at'[k] = at[k] /\ todo'[k] = <<>> /\ \A x \in Batch(k) : <<x, "ok">> \in fate
              \/ at'[k] = at[k] /\ todo'[k] = todo[k] /\ rescue'[k] = rescue[k]
              \/ at'[k] = at[k] /\ todo'[k] = <<>> /\ job[k].dry
<1>0. {"send", "wait", "failed", "expired"} = Failures
  BY DEF Failures
<1>1. ASSUME NEW how \in Failures, Throw(k, how)
      PROVE  at'[k] = rescue[k][how] /\ todo'[k] = <<>> /\ rescue'[k] = Uncaught /\ UNCHANGED <<round, seen, job>>
  BY <1>1 DEF Throw, CallsOK
<1>2. ASSUME Next1(k), todo[k] # <<>>
      PROVE  at'[k] = at[k] /\ todo'[k] = <<>> /\ UNCHANGED <<round, seen, job>>
  BY <1>2, OneAtATime DEF Next1, CallsOK
<1>3. CASE Simulate(k)
  BY <1>0, <1>1, <1>2, <1>3 DEF Simulate, Prepared, Pretends, programVars
<1>4. CASE Submit(k)
  BY <1>4 DEF Submit, Prepared
<1>5. CASE Refused(k)
  BY <1>0, <1>1, <1>5 DEF Refused, Prepared
<1>6. CASE Confirmed(k)
  BY <1>2, <1>6 DEF Confirmed, Waiting
<1>7. CASE NotConfirmed(k)
  <2>1. PICK x \in Batch(k), how \in {"failed", "expired"} : <<x, how>> \in fate /\ Throw(k, how)
    BY <1>7 DEF NotConfirmed
  <2> QED BY <1>0, <1>1, <1>7, <2>1 DEF NotConfirmed, Waiting
<1>8. CASE Fault(k)
  BY <1>0, <1>1, <1>8 DEF Fault
<1> QED BY <1>3, <1>4, <1>5, <1>6, <1>7, <1>8 DEF Delivery

-----------------------------------------------------------------------------
\* The amount that an attempt takes is the one the scan has noted.
LEMMA AmountIs ==
    ASSUME NEW k \in Call, NEW n, NEW a, Trying(k, n, a)
    PROVE  Amount(k)[1] = n /\ Amount(k)[2] = a
<1>1. {<<f[2], f[3]>> : f \in {g \in seen[k] : g[1] = "amount"}} = {<<n, a>>}
  BY DEF Trying, Answers
<1>2. Amount(k) = CHOOSE z \in {<<n, a>>} : TRUE
  BY <1>1 DEF Amount
<1>3. Amount(k) \in {<<n, a>>}
  BY <1>2
<1> QED BY <1>3

LEMMA TryingGoesOn ==
    ASSUME Evolves, NEW k \in Call, Shaped(k), NEW n \in LpPool, NEW a \in Nat \ {0}, Trying(k, n, a),
           at'[k] \in {"attempt", "again", "success", "gaveUp", "returned", "stopped"},
           seen[k] \subseteq seen'[k], seen'[k] \subseteq seen[k] \cup Answers, round'[k] \in 1..Attempts,
           \A x \in pending' : x \in pending \/ (todo[k] # <<>> /\ x \in Batch(k)),
           todo'[k] # <<>> => todo'[k] = <<{LpTx(k, round'[k], n, a)}>> /\ at'[k] = "success" /\ rescue'[k] = AttemptCatch,
           (at'[k] = "success" /\ todo'[k] = <<>>) \/ <<"answer", "success">> \in seen'[k] => \E i \in Nat : IsDone(k, i)
    PROVE  Trying(k, n, a)'
<1>1. Balance(k, n, a)'
  BY BalanceStays, OwnFacts DEF Trying
<1>2. LpTx(k, round[k], n, a)' = LpTx(k, round'[k], n, a)
  BY LpTxStays
<1>3. LpTx(k, round'[k], n, a).by = k
  BY LpTxIs
<1>4. <<LpTx(k, round'[k], n, a), "ok">> \notin fate'
  BY <1>3, OwnFacts
<1>5. ASSUME NEW x \in pending', x.by = k PROVE \E i \in 1..Attempts : x = LpTx(k, i, n, a)
  <2>1. CASE x \in pending
    BY <1>5, <2>1 DEF Trying
  <2>2. CASE todo[k] # <<>> /\ x \in Batch(k)
    BY <2>2 DEF Trying, Batch
  <2> QED BY <2>1, <2>2
<1>6. At(k, "success")' \/ <<"answer", "success">> \in seen'[k] => \E i \in Nat : IsDone(k, i)'
  BY OwnFacts DEF At
<1> QED BY <1>1, <1>2, <1>4, <1>5, <1>6 DEF Trying

LEMMA UnbegunGoesOn ==
    ASSUME NEW k \in Call, Shaped(k), Unbegun(k), pending' = pending, todo'[k] = <<>>,
           at'[k] \in {"bulletproof", "gaveUp", "returned", "stopped"},
           IF at'[k] = "bulletproof" THEN seen'[k] = {} ELSE seen'[k] \subseteq seen[k] \cup {<<"answer", "gaveUp">>}
    PROVE  Unbegun(k)'
  BY OwnFacts DEF Unbegun

\* The steps of the bulletproof exit.
LEMMA BulletServer ==
    ASSUME BusyInv, CallsOK, SentOK, Evolves, NEW k \in Call, Shaped(k), BulletOK(k), ServerStep(k), job[k].cmd = "bulletproof"
    PROVE  BulletOK(k)'
<1>0. todo[k] = <<>> /\ pending' = pending /\ DOMAIN at = Call /\ DOMAIN todo = Call /\ DOMAIN round = Call /\ DOMAIN rescue = Call
  BY StepPlaces DEF CallsOK, ServerStep, ScanLp, Attempt, Again, Answered, ResolveKeys, NoKeys, RemoveAllLp, BuildClaim,
     GotoRow, Goto, Send, Return, Try
<1>1. CASE ScanLp(k)
  <2>1. at[k] = "bulletproof" /\ Unbegun(k)
    BY <1>1 DEF BulletOK, ScanLp, At, Trying
  <2>2. CASE Goto(k, "gaveUp") /\ Nothing
    <3>1. at'[k] = "gaveUp" /\ todo'[k] = <<>> /\ seen' = seen
      BY <1>0, <2>2 DEF Goto, Send, Try, Nothing
    <3> QED BY <1>0, <2>1, <3>1, UnbegunGoesOn DEF BulletOK
  <2>3. CASE ~(Goto(k, "gaveUp") /\ Nothing)
    <3>1. PICK n \in LpPool :
             /\ Lps(n) # {} /\ Keep(k, {<<"amount", n, Cardinality(Lps(n))>>})
             /\ Try(k, <<>>, "attempt", Uncaught) /\ round' = [round EXCEPT ![k] = 1]
      BY <1>1, <2>3 DEF ScanLp
    <3>0. IsFiniteSet(Lps(n)) /\ Cardinality(Lps(n)) \in Nat \ {0}
      <4>1. Lps(n) \in SUBSET {f \in facts : f[1] = "lp"}
        BY DEF Lps
      <4>2. IsFiniteSet(Lps(n))
        BY <4>1, FS_Subset DEF SentOK
      <4> QED BY <3>1, <4>2, FS_CardinalityType, FS_EmptySet
    <3>2. PICK a \in Nat \ {0} : a = Cardinality(Lps(n))
      BY <3>0
    <3>3. /\ at'[k] = "attempt" /\ todo'[k] = <<>> /\ round'[k] = 1 /\ seen'[k] = {<<"amount", n, a>>}
      BY <1>0, <2>1, <3>1, <3>2, NotesFacts DEF Try, Unbegun, BusyInv
    <3>4. Balance(k, n, a)'
      <4>1. Balance(k, n, a)
        BY <2>1, <3>0, <3>2 DEF Balance, Unbegun
      <4> QED BY <4>1, BalanceStays, OwnFacts
    <3>5. 1 \in 1..Attempts
      BY AttemptsAssumption
    <3>6. \A z \in fate' : z # <<LpTx(k, 1, n, a), "ok">>
      BY OwnFacts, LpTxIs
    <3>7. LpTx(k, round[k], n, a)' = LpTx(k, 1, n, a)
      BY <3>3, LpTxStays
    <3>8. Trying(k, n, a)'
      BY <1>0, <2>1, <3>3, <3>4, <3>5, <3>6, <3>7 DEF Trying, Unbegun, At
    <3> QED BY <3>2, <3>8 DEF BulletOK
  <2> QED BY <2>2, <2>3
<1>2. ASSUME at[k] \in {"attempt", "again", "success"}
      PROVE  \E n \in LpPool, a \in Nat \ {0} : Trying(k, n, a)
  BY <1>2 DEF BulletOK, Unbegun
<1>3. CASE Attempt(k)
  <2>1. PICK n \in LpPool, a \in Nat \ {0} : Trying(k, n, a)
    BY <1>2, <1>3 DEF Attempt, At
  <2>2. /\ at'[k] = "success" /\ todo'[k] = <<{LpTx(k, round[k], n, a)}>> /\ rescue'[k] = AttemptCatch
        /\ round' = round /\ seen' = seen
    BY <1>0, <1>3, <2>1, AmountIs DEF Attempt, Try, Nothing
  <2>3. round'[k] = round[k] /\ round'[k] \in 1..Attempts /\ todo'[k] # <<>>
    BY <2>1, <2>2 DEF Trying
  <2>4. <<"answer", "success">> \in seen'[k] => \E i \in Nat : IsDone(k, i)
    BY <2>1, <2>2 DEF Trying
  <2>5. Trying(k, n, a)'
    BY <1>0, <2>1, <2>2, <2>3, <2>4, TryingGoesOn
  <2> QED BY <2>5 DEF BulletOK
<1>4. CASE Again(k)
  <2>1. PICK n \in LpPool, a \in Nat \ {0} : Trying(k, n, a)
    BY <1>2, <1>4 DEF Again, At
  <2>2. /\ at'[k] \in {"attempt", "gaveUp"} /\ todo'[k] = <<>> /\ seen' = seen /\ round'[k] \in 1..Attempts
    <3>1. round[k] \in 1..Attempts /\ Attempts \in Nat
      BY <2>1, AttemptsAssumption DEF Trying
    <3> QED BY <1>0, <1>4, <3>1 DEF Again, GotoRow, Goto, Send, Try, Nothing
  <2>3. Trying(k, n, a)'
    BY <1>0, <2>1, <2>2, TryingGoesOn DEF Trying
  <2> QED BY <2>3 DEF BulletOK
<1>5. CASE Answered(k)
  <2>1. /\ at'[k] = "returned" /\ todo'[k] = <<>> /\ round' = round /\ at[k] \in {"success", "gaveUp"}
        /\ seen'[k] = seen[k] \cup {<<"answer", at[k]>>}
    BY <1>0, <1>5, NotesFacts DEF Answered, Return, Goto, Send, Try, At, BusyInv
  <2>2. CASE Unbegun(k)
    <3>1. at[k] = "gaveUp"
      BY <2>1, <2>2 DEF Unbegun
    <3> QED BY <1>0, <2>1, <2>2, <3>1, UnbegunGoesOn DEF BulletOK
  <2>3. ASSUME NEW n \in LpPool, NEW a \in Nat \ {0}, Trying(k, n, a) PROVE BulletOK(k)'
    <3>1. <<"answer", "success">> \in seen'[k] => \E i \in Nat : IsDone(k, i)
      BY <1>0, <2>1, <2>3 DEF Trying, At
    <3>2. Trying(k, n, a)'
      BY <1>0, <2>1, <2>3, <3>1, TryingGoesOn DEF Trying, Answers
    <3> QED BY <3>2 DEF BulletOK
  <2> QED BY <2>2, <2>3 DEF BulletOK
<1>6. CASE ResolveKeys(k) \/ NoKeys(k) \/ RemoveAllLp(k) \/ BuildClaim(k)
  BY <1>6 DEF ResolveKeys, NoKeys, RemoveAllLp, BuildClaim, At, BulletOK, Unbegun, Trying
<1> QED BY <1>1, <1>3, <1>4, <1>5, <1>6 DEF ServerStep

LEMMA BulletKeeps ==
    ASSUME BusyInv, CallsOK, SentOK, Evolves, NEW k \in Call, Shaped(k), BulletOK(k),
           Start(k) \/ Goes(k) \/ Killed(k) \/ GivesUp(k)
    PROVE  BulletOK(k)'
<1>0. job' = job
  BY DEF Evolves
<1> SUFFICES ASSUME job[k].cmd = "bulletproof"
             PROVE  BulletOK(k)'
  BY <1>0 DEF BulletOK
<1>1. at[k] \in {"idle", "bulletproof", "gaveUp", "returned", "stopped", "attempt", "again", "success"}
  BY DEF BulletOK, Unbegun, Trying
<1>2. CASE Start(k)
  <2>1. at[k] = "idle" /\ Unbegun(k)
    BY <1>2 DEF Start, BulletOK, Trying
  <2>2. at'[k] = "bulletproof" /\ todo'[k] = <<>> /\ seen' = seen /\ pending' = pending
    BY <1>2 DEF Start, Goto, Send, Try, Nothing, CallsOK, Entry, PositionCommands
  <2> QED BY <2>1, <2>2, UnbegunGoesOn DEF Unbegun, BulletOK
<1>3. CASE ServerStep(k)
  BY <1>3, BulletServer
<1>4. CASE Delivery(k) \/ Fault(k)
  <2>1. todo[k] # <<>>
    BY <1>4, StepPlaces
  <2>2. PICK n \in LpPool, a \in Nat \ {0} : Trying(k, n, a)
    BY <2>1 DEF BulletOK, Unbegun
  <2>3. /\ Batch(k) = {LpTx(k, round[k], n, a)} /\ at[k] = "success" /\ rescue[k] = AttemptCatch
        /\ round[k] \in Nat
    BY <2>1, <2>2 DEF Trying, Batch, CallsOK
  <2>4. UNCHANGED <<round, seen>> /\ \A x \in pending' : x \in pending \/ x \in Batch(k)
    BY <1>4, DeliveryFacts
  <2>5. ~job[k].dry
    BY DEF CallsOK, PositionCommands
  <2>6. \/ at'[k] = "again" /\ todo'[k] = <<>>
        \/ at'[k] = "success" /\ todo'[k] = <<>> /\ IsDone(k, round[k])
        \/ at'[k] = "success" /\ todo'[k] = todo[k] /\ rescue'[k] = rescue[k]
    <3>1. \A how \in Failures : AttemptCatch[how] = "again"
      BY DEF AttemptCatch, CaughtAs
    <3>2. (\A x \in Batch(k) : <<x, "ok">> \in fate) => IsDone(k, round[k])
      BY <2>2, <2>3 DEF Trying
    <3> QED BY <1>4, <2>3, <2>5, <3>1, <3>2, DeliveryFacts
  <2>7. Trying(k, n, a)'
    BY <2>1, <2>2, <2>3, <2>4, <2>6, TryingGoesOn DEF Trying
  <2> QED BY <2>7 DEF BulletOK
<1>5. CASE Stop(k)
  <2>1. at'[k] = "stopped" /\ todo'[k] = <<>> /\ UNCHANGED <<round, seen, pending>>
    BY <1>5 DEF Stop, CallsOK
  <2>2. CASE Unbegun(k)
    BY <2>1, <2>2, UnbegunGoesOn DEF BulletOK
  <2>3. ASSUME NEW n \in LpPool, NEW a \in Nat \ {0}, Trying(k, n, a) PROVE BulletOK(k)'
    <3>1. Trying(k, n, a)'
      BY <2>1, <2>3, TryingGoesOn DEF Trying
    <3> QED BY <3>1 DEF BulletOK
  <2> QED BY <2>2, <2>3 DEF BulletOK
<1> QED BY <1>1, <1>2, <1>3, <1>4, <1>5, StepPlaces DEF Goes, OnPage, Elsewhere, Carried, Killed, InFlight, PositionPlaces

-----------------------------------------------------------------------------
(* The loops over rows.                                                    *)

PoolsThere(notes) ==
    \A f \in notes : f[1] = "pool" =>
        \E m \in Mint, decoded \in BOOLEAN : f = <<"pool", m, decoded>> /\ <<"curve", m>> \in facts

\* What a run of rows keeps from one row to the next.
LEMMA RunGoesOn ==
    ASSUME Evolves, NEW k \in Call, Shaped(k),
           \A i \in DOMAIN built'[k] : RowTx(k, i, built'[k][i]),
           at'[k] \in {"signing", "rows", "rowDone", "rowFailed"} => ~job[k].dry,
           at'[k] \in {"rowDone", "rowFailed"} => round'[k] \in DOMAIN built'[k],
           at'[k] = "rowDone" /\ todo'[k] = <<>> => built'[k] = built[k] /\ Settled(k, round'[k]),
           todo'[k] # <<>> => round'[k] \in DOMAIN built'[k] /\ todo'[k] = <<{built'[k][round'[k]]}>>,
           job[k].cmd = "batch" => PoolsThere(seen'[k])
    PROVE  RunOK(k)'
<1>1. job' = job
  BY DEF Evolves
<1>2. ASSUME NEW i \in DOMAIN built'[k]
      PROVE  RowTx(k, i, built[k][i])'
  <2>1. RowTx(k, i, built'[k][i])
    OBVIOUS
  <2> QED BY <2>1, GoneStays DEF RowTx
<1>3. At(k, "rowDone")' => Settled(k, round[k])'
  <2>1. \A i : RowTx(k, i, built[k][i]) /\ Settled(k, i) /\ built'[k] = built[k] => Settled(k, i)'
    BY SettledStays
  <2>2. SUFFICES ASSUME at'[k] = "rowDone", todo'[k] = <<>>
                 PROVE  Settled(k, round[k])'
    BY DEF At
  <2>3. PICK i : i = round'[k]
    OBVIOUS
  <2>4. built'[k] = built[k] /\ Settled(k, i) /\ i \in DOMAIN built'[k]
    BY <2>2, <2>3
  <2>5. Settled(k, i)'
    BY <2>1, <2>4
  <2> QED BY <2>3, <2>5
<1>4. \A z \in fate' : z[1].by # k
  BY OwnFacts
<1>5. job[k].cmd = "batch" => PoolsThere(seen[k])'
  BY DEF PoolsThere, Evolves, Lasting
<1> QED BY <1>1, <1>2, <1>3, <1>4, <1>5 DEF RunOK, PoolsThere

\* A step of a loop that builds nothing and waits for nothing.
LEMMA RunPauses ==
    ASSUME Evolves, CallsOK, NEW k \in Call, Shaped(k), RunOK(k), job[k].cmd \in Loops, built'[k] = built[k], todo'[k] = <<>>,
           at'[k] \notin {"rowDone", "rowFailed"}, at'[k] \in {"signing", "rows"} => ~job[k].dry,
           \A f \in seen'[k] \ seen[k] : f[1] = "pool" =>
              \E m \in Mint, decoded \in BOOLEAN : f = <<"pool", m, decoded>> /\ <<"curve", m>> \in facts
    PROVE  RunOK(k)'
<1>1. \A i \in DOMAIN built'[k] : RowTx(k, i, built'[k][i])
  BY DEF RunOK
<1>2. job[k].cmd = "batch" => PoolsThere(seen'[k])
  BY DEF RunOK, PoolsThere
<1> QED BY <1>1, <1>2, RunGoesOn

\* The rows are built once.
LEMMA ListedKeeps ==
    ASSUME BusyInv, CallsOK, \A j \in Call : FreshOK(j), Evolves, NEW k \in Call, Shaped(k), ListPositions(k)
    PROVE  RunOK(k)'
<1>1. job[k].cmd = "exitAll" /\ todo[k] = <<>> /\ DOMAIN at = Call /\ DOMAIN todo = Call /\ DOMAIN built = Call
  BY WhoIsThere DEF ListPositions, At, CallsOK
<1>2. /\ at'[k] \in {"returned", "signing"} /\ todo'[k] = <<>>
      /\ at'[k] = "signing" => ~job[k].dry
  BY <1>1 DEF ListPositions, Goto, Send, Try
<1>3. ASSUME NEW i \in DOMAIN built'[k]
      PROVE  RowTx(k, i, built'[k][i])
  <2>1. PICK p \in Position : built'[k][i] = RemoveAllTx(k, i, p) /\ <<"open", p>> \in facts
    BY <1>1, PositionsBuilt
  <2>2. GoneForGood(<<"open", p>>)
    BY <2>1 DEF GoneForGood, FreshOK
  <2>3. /\ RemoveAllTx(k, i, p).makes = {Done(k, i)} /\ RemoveAllTx(k, i, p).without = {}
        /\ RemoveAllTx(k, i, p).takes = <<0, 0>> /\ RemoveAllTx(k, i, p).needs = {<<"open", p>>}
    BY RemoveAllTxIs
  <2> QED BY <2>1, <2>2, <2>3 DEF RowTx
<1> QED BY <1>1, <1>2, <1>3, RunGoesOn

LEMMA BatchBuiltKeeps ==
    ASSUME BusyInv, CallsOK, Evolves, NEW k \in Call, Shaped(k), RunOK(k), BuildBatch(k)
    PROVE  RunOK(k)'
<1>1. job[k].cmd = "batch" /\ todo[k] = <<>> /\ DOMAIN at = Call /\ DOMAIN todo = Call /\ DOMAIN built = Call
  BY WhoIsThere DEF BuildBatch, At, CallsOK
<1>2. at'[k] = "signing" /\ todo'[k] = <<>> /\ ~job[k].dry /\ seen' = seen
  BY <1>1 DEF BuildBatch, Goto, Send, Try, Nothing, CallsOK, PositionCommands
<1>3. PoolsThere(seen[k])
  BY <1>1 DEF RunOK, Loops, PoolsThere
<1>4. ASSUME NEW i \in DOMAIN built'[k]
      PROVE  RowTx(k, i, built'[k][i])
  <2>1. PICK m \in Mint, decoded \in BOOLEAN : built'[k][i] = ClaimFee(k, i, m, decoded) /\ <<"curve", m>> \in facts
    <3>1. \A f \in seen[k] : f[1] = "pool" =>
             \E m \in Mint, decoded \in BOOLEAN : f = <<"pool", m, decoded>> /\ <<"curve", m>> \in facts
      BY <1>3 DEF PoolsThere
    <3> QED BY <1>1, <3>1, ClaimsBuilt
  <2>2. GoneForGood(<<"curve", m>>) /\ GoneForGood(<<"vaultIs", m, "pool">>)
    BY <2>1 DEF GoneForGood
  <2>3. /\ ClaimFee(k, i, m, decoded).makes = {Done(k, i)} /\ ClaimFee(k, i, m, decoded).without = {}
        /\ ClaimFee(k, i, m, decoded).takes = <<0, 0>>
        /\ ClaimFee(k, i, m, decoded).needs \subseteq {<<"curve", m>>, <<"vaultIs", m, "pool">>}
    BY ClaimFeeIs
  <2> QED BY <2>1, <2>2, <2>3 DEF RowTx
<1> QED BY <1>1, <1>2, <1>3, <1>4, RunGoesOn

\* A row is told executed only when it was, or was not to be any more.
LEMMA RunDelivered ==
    ASSUME BusyInv, CallsOK, Evolves, NEW k \in Call, Shaped(k), RunOK(k), Delivery(k) \/ Fault(k), built'[k] = built[k],
           job[k].cmd \in Loops
    PROVE  RunOK(k)'
<1>1. todo[k] # <<>> /\ UNCHANGED <<round, seen, job>>
  BY DeliveryFacts
<1>2. /\ at[k] = "rowDone" /\ rescue[k] = RowCatch /\ ~job[k].dry
      /\ round[k] \in DOMAIN built[k] /\ todo[k] = <<{built[k][round[k]]}>>
  BY <1>1 DEF BusyInv, Caught, Hooks, Loops, RunOK
<1> DEFINE x == built[k][round[k]]
<1>3. Batch(k) = {x} /\ x.by = k
  BY <1>2 DEF Batch, CallsOK, Sends, Proper
<1> HIDE DEF x
<1>4. \A how \in Failures : <<x, how>> \in fate /\ how # "expired" => Settled(k, round[k])
  BY <1>2, <1>3 DEF RunOK
<1>5. <<x, "ok">> \in fate => Settled(k, round[k])
  BY <1>2, <1>3 DEF RunOK
<1>6. \A i \in DOMAIN built'[k] : RowTx(k, i, built'[k][i])
  BY DEF RunOK
<1>7. job[k].cmd = "batch" => PoolsThere(seen'[k])
  BY <1>1 DEF RunOK, PoolsThere
<1>8. \/ at'[k] = "rowFailed" /\ todo'[k] = <<>>
      \/ at'[k] = "rowDone" /\ todo'[k] = <<>> /\ Settled(k, round[k])
      \/ at'[k] = "rowDone" /\ todo'[k] = todo[k]
  <2>1. /\ RowCatch["failed"] = "rowDone" /\ "failed" \in Failures
        /\ \A how \in Failures : how # "failed" => RowCatch[how] = "rowFailed"
    BY DEF RowCatch, CaughtAs, Failures
  <2>2. ASSUME NEW how \in Failures, at'[k] = RowCatch[how], how = "failed" => \E y \in Batch(k) : <<y, "failed">> \in fate
        PROVE  at'[k] = "rowFailed" \/ (at'[k] = "rowDone" /\ Settled(k, round[k]))
    BY <1>3, <1>4, <2>1, <2>2
  <2>3. (\A y \in Batch(k) : <<y, "ok">> \in fate) => Settled(k, round[k])
    BY <1>3, <1>5
  <2> QED BY <1>2, <2>2, <2>3, DeliveryFacts
<1>9. todo'[k] # <<>> => round'[k] \in DOMAIN built'[k] /\ todo'[k] = <<{built'[k][round'[k]]}>>
  BY <1>1, <1>2, <1>8
<1> QED BY <1>1, <1>2, <1>6, <1>7, <1>8, <1>9, RunGoesOn

LEMMA RunKeeps ==
    ASSUME BusyInv, CallsOK, \A j \in Call : FreshOK(j), Evolves, NEW k \in Call, Shaped(k), RunOK(k),
           Start(k) \/ Goes(k) \/ Killed(k) \/ GivesUp(k)
    PROVE  RunOK(k)'
<1>0. job' = job /\ Shape /\ DOMAIN at = Call /\ DOMAIN todo = Call /\ DOMAIN round = Call
  BY DEF Evolves, BusyInv, CallsOK
<1> SUFFICES ASSUME job[k].cmd \in Loops
             PROVE  RunOK(k)'
  BY <1>0 DEF RunOK
<1>1. /\ at[k] \in {"exitAll", "batch", "idle", "listing", "discover", "build", "signing", "rows", "rowDone", "rowFailed",
                    "returned"}
      /\ job[k].cmd = "exitAll" => at[k] \notin {"batch", "discover", "build"}
      /\ job[k].cmd = "batch" => at[k] \notin {"exitAll", "listing"}
  BY DEF BusyInv, InItsPlace, ActiveAt, Loops, Hooks
<1>2. CASE Start(k)
  <2>1. at'[k] = job[k].cmd /\ todo'[k] = <<>> /\ seen' = seen /\ built' = built
    BY <1>0, <1>2 DEF Start, Goto, Send, Try, Nothing, Entry, PositionCommands, Loops, pageVars
  <2> QED BY <1>0, <2>1, RunPauses DEF Loops
<1>3. CASE OpenExitAll(k)
  <2>1. at'[k] = "listing" /\ todo'[k] = <<>> /\ seen'[k] \subseteq seen[k] \cup {<<"abortFlag", 0>>} /\ built' = built
    BY <1>0, <1>3, NotesFacts DEF OpenExitAll, Goto, Send, Try
  <2> QED BY <1>0, <2>1, RunPauses
<1>4. CASE ExitAllFails(k) \/ BatchFails(k) \/ RowsEnd(k)
  <2>1. at'[k] = "returned" /\ todo'[k] = <<>> /\ seen' = seen /\ built' = built
    BY <1>0, <1>4 DEF ExitAllFails, BatchFails, RowsEnd, Rest, Return, Goto, Send, Try, Nothing
  <2> QED BY <1>0, <2>1, RunPauses
<1>5. CASE ListPositions(k)
  BY <1>5, ListedKeeps
<1>6. CASE SignExitAll(k)
  <2>1. at'[k] = "rows" /\ todo'[k] = <<>> /\ seen' = seen /\ built' = built /\ at[k] = "signing"
    BY <1>0, <1>6 DEF SignExitAll, GotoRow, Try, Nothing, At, pageVars
  <2> QED BY <1>0, <2>1, RunPauses DEF RunOK
<1>7. CASE OpenBatch(k)
  <2>1. at'[k] \in {"returned", "discover"} /\ todo'[k] = <<>> /\ seen' = seen /\ built' = built
    BY <1>0, <1>7 DEF OpenBatch, Return, Goto, Send, Try, Nothing
  <2> QED BY <1>0, <2>1, RunPauses
<1>8. CASE Discover(k)
  <2>1. PICK found \in SUBSET {m \in Mint : {<<"holds", m>>, <<"curve", m>>} \subseteq facts} :
        \E decoded \in SUBSET found :
          /\ Keep(k, {<<"pool", m, m \in decoded>> : m \in found})
          /\ IF found = {} THEN Rest(k) ELSE Goto(k, "build") /\ UNCHANGED pageVars
    BY <1>8 DEF Discover
  <2>2. PICK decoded \in SUBSET found : Keep(k, {<<"pool", m, m \in decoded>> : m \in found})
    BY <2>1
  <2>3. at'[k] \in {"returned", "build"} /\ todo'[k] = <<>> /\ built' = built
    BY <1>0, <2>1 DEF Rest, Return, Goto, Send, Try, pageVars
  <2>4. seen'[k] = seen[k] \cup {<<"pool", m, m \in decoded>> : m \in found}
    BY <1>0, <2>2, NotesFacts
  <2>5. \A f \in seen'[k] \ seen[k] : f[1] = "pool" =>
           \E m \in Mint, was \in BOOLEAN : f = <<"pool", m, was>> /\ <<"curve", m>> \in facts
    <3>1. \A m \in found : m \in Mint /\ <<"curve", m>> \in facts
      BY Zenon, <2>1
    <3>2. ASSUME NEW m \in found
          PROVE  \E was \in BOOLEAN : <<"pool", m, m \in decoded>> = <<"pool", m, was>>
      <4>1. CASE m \in decoded
        BY <4>1
      <4>2. CASE m \notin decoded
        <5>1. (m \in decoded) = FALSE
          BY <4>2
        <5> QED BY <5>1
      <4> QED BY <4>1, <4>2
    <3> QED BY <2>4, <3>1, <3>2
  <2> QED BY <1>0, <2>3, <2>5, RunPauses
<1>9. CASE BuildBatch(k)
  BY <1>9, BatchBuiltKeeps
<1>10. CASE SignBatch(k)
  <2>1. PICK refused \in SUBSET (DOMAIN built[k]) : Keep(k, {<<"unsigned", i>> : i \in refused})
    BY <1>10 DEF SignBatch
  <2>2. seen'[k] = seen[k] \cup {<<"unsigned", i>> : i \in refused}
    BY <1>0, <2>1, NotesFacts
  <2>3. at'[k] = "rows" /\ todo'[k] = <<>> /\ built' = built /\ at[k] = "signing"
    BY <1>0, <1>10 DEF SignBatch, Try, At
  <2>4. ~job[k].dry /\ \A f \in seen'[k] \ seen[k] : f[1] = "unsigned"
    BY <2>2, <2>3 DEF RunOK
  <2> QED BY <1>0, <2>3, <2>4, RunPauses
<1>11. CASE SendRow(k)
  <2>1. /\ at[k] = "rows" /\ at'[k] = "rowDone" /\ todo'[k] = <<{built[k][round[k]]}>> /\ round[k] \in DOMAIN built[k]
        /\ UNCHANGED <<built, round, seen>>
    BY <1>0, <1>11 DEF SendRow, Try, At, Nothing
  <2>2. ~job[k].dry /\ \A i \in DOMAIN built'[k] : RowTx(k, i, built'[k][i])
    BY <2>1 DEF RunOK
  <2>3. job[k].cmd = "batch" => PoolsThere(seen'[k])
    BY <2>1 DEF RunOK, PoolsThere
  <2>4. todo'[k] # <<>> /\ built'[k] = built[k] /\ round'[k] = round[k]
    BY <2>1
  <2>5. round'[k] \in DOMAIN built'[k] /\ todo'[k] = <<{built'[k][round'[k]]}>>
    BY <2>1, <2>4
  <2> QED BY <2>2, <2>3, <2>4, <2>5, RunGoesOn
<1>12. CASE RowDone(k) \/ RowFailed(k) \/ RowUnsigned(k)
  <2>1. /\ at[k] \in {"rows", "rowDone", "rowFailed"} /\ at'[k] = "rows" /\ todo'[k] = <<>> /\ seen' = seen /\ built' = built
    BY <1>0, <1>12 DEF RowDone, RowFailed, RowUnsigned, RowIs, GotoRow, Try, Nothing, At
  <2> QED BY <1>0, <2>1, RunPauses DEF RunOK
<1>13. CASE (Delivery(k) /\ UNCHANGED pageVars) \/ (Fault(k) /\ UNCHANGED pageVars)
  BY <1>13, RunDelivered DEF pageVars
<1>14. DammExitStep(k) => OpenExitAll(k) \/ ExitAllFails(k) \/ ListPositions(k) \/ SignExitAll(k)
  BY <1>1 DEF DammExitStep, NoPositionForPool, PickPosition, BuildExit, OpenExitAuto, findBestDammLpAndPool, ExitAutoFails,
     SubmitLp, At
<1>15. ~PositionStep(k) /\ ~ServerStep(k) /\ ~LaunchStep(k) /\ ~GivesUp(k)
  BY <1>1, StepPlaces DEF InFlight, PositionPlaces
<1>16. job[k].cmd \in Hooks
  BY DEF Hooks, Loops
<1> QED BY <1>2, <1>3, <1>4, <1>5, <1>6, <1>7, <1>8, <1>9, <1>10, <1>11, <1>12, <1>13, <1>14, <1>15, <1>16
       DEF Goes, OnPage, Elsewhere, Carried, Killed, BatchStep, LoopStep

-----------------------------------------------------------------------------
(* The form.                                                               *)

\* A step of the form that builds nothing and sends nothing.
LEMMA FormGoesOn ==
    ASSUME Evolves, NEW k \in Call, Shaped(k), LaunchOK(k), job[k].cmd = "launch",
           built'[k] = built[k], pending' = pending,
           at'[k] \in {"idle", "launch", "uploadImage", "uploadMetadata", "buildCreate"} => built[k] = <<>>,
           at'[k] \in {"uploadMetadata", "buildCreate"} => <<"image", k>> \in facts',
           at'[k] = "buildCreate" => Files(k) \subseteq facts',
           at'[k] \in {"signCreate", "buildSwap"} => built[k] = <<CreateTx(k)>>,
           at'[k] \in {"buildSwap", "signSwap"} => round'[k] = 1,
           at'[k] = "nodes" => round'[k] >= 1 /\ \A i \in DOMAIN built[k] : i < round'[k] => Accepted(k, i) \in facts,
           at'[k] = "landed" => AllAccepted(k),
           <<"told", "ok">> \in seen'[k] => AllAccepted(k) /\ at'[k] = "returned"
    PROVE  LaunchOK(k)'
<1>1. job' = job
  BY DEF Evolves
<1>2. /\ \A f \in {<<"image", k>>, <<"metadata", k>>} : f \in facts => f \in facts'
      /\ \A i : Accepted(k, i) \in facts => Accepted(k, i) \in facts'
      /\ \A f \in {<<"curve", k>>, <<"tip", k>>} : f \in facts' => f \in facts
  BY OwnFacts DEF Accepted
<1> QED BY <1>1, <1>2 DEF LaunchOK, Files, AllAccepted, Told

\* What a launch may be at.
FormPlace == {"idle", "launch", "signCreate", "signSwap", "returned"} \cup InFlight
LEMMA FormPlaces ==
    ASSUME BusyInv, NEW k \in Call, job[k].cmd = "launch"
    PROVE  at[k] \in FormPlace /\ todo[k] = <<>>
  BY DEF BusyInv, InItsPlace, Caught, ActiveAt, Hooks, FormPlace, InFlight

\* A launch builds one transaction or two.
LEMMA BuiltLength ==
    ASSUME NEW k \in Call, built[k] \in {<<>>, <<CreateTx(k)>>, <<CreateTx(k), SwapTx(k)>>}
    PROVE  /\ \A i \in DOMAIN built[k] : i = 1 \/ i = 2
           /\ 1 \in DOMAIN built[k] => built[k][1] = CreateTx(k)
           /\ 2 \in DOMAIN built[k] => 1 \in DOMAIN built[k] /\ built[k][2] = SwapTx(k)
<1> DEFINE c == CreateTx(k)
           s == SwapTx(k)
<1>1. built[k] \in {<<>>, <<c>>, <<c, s>>}
  OBVIOUS
<1> HIDE DEF c, s
<1>2. /\ \A i \in DOMAIN built[k] : i = 1 \/ i = 2
      /\ 1 \in DOMAIN built[k] => built[k][1] = c
      /\ 2 \in DOMAIN built[k] => 1 \in DOMAIN built[k] /\ built[k][2] = s
  BY <1>1
<1> QED BY <1>2 DEF c, s

\* A transaction of the form is handed to a node: the swap only after the create
\* was accepted.
LEMMA FormSends ==
    ASSUME CallsOK, Evolves, NEW k \in Call, Shaped(k), LaunchOK(k), job[k].cmd = "launch", at[k] = "nodes",
           round[k] \in DOMAIN built[k], pending' = pending \cup {built[k][round[k]]}, built' = built,
           \/ /\ at'[k] = "nodes" /\ seen' = seen
              /\ facts' = facts \cup {Accepted(k, round[k])} /\ round'[k] = round[k] + 1
           \/ at'[k] = "returned" /\ facts' = facts /\ seen'[k] \subseteq seen[k] \cup {<<"told", "error">>}
    PROVE  LaunchOK(k)'
<1> DEFINE x == built[k][round[k]]
<1>1. job' = job /\ round[k] \in Nat
  BY DEF Evolves, CallsOK
<1>2. /\ \A f \in {<<"image", k>>, <<"metadata", k>>} : f \in facts => f \in facts'
      /\ \A i : Accepted(k, i) \in facts => Accepted(k, i) \in facts'
      /\ \A f \in {<<"curve", k>>, <<"tip", k>>} : f \in facts' => f \in facts
  BY OwnFacts DEF Accepted
<1>3. /\ built[k] \in {<<>>, <<CreateTx(k)>>, <<CreateTx(k), SwapTx(k)>>}
      /\ round[k] >= 1 /\ \A i \in DOMAIN built[k] : i < round[k] => Accepted(k, i) \in facts
      /\ Files(k) \subseteq facts /\ built[k] # <<>> /\ <<"told", "ok">> \notin seen[k]
  BY DEF LaunchOK, Told
<1>4. CreateTx(k) # SwapTx(k)
  BY LaunchTxs
<1>5. /\ x \in {CreateTx(k), SwapTx(k)}
      /\ x = SwapTx(k) => Accepted(k, 1) \in facts
  <2>1. round[k] = 1 => x = CreateTx(k)
    BY <1>3, BuiltLength
  <2>2. round[k] = 2 => x = SwapTx(k) /\ Accepted(k, 1) \in facts
    BY <1>3, BuiltLength
  <2> QED BY <1>3, <1>4, <2>1, <2>2, BuiltLength
<1> HIDE DEF x
<1>6. pending' = pending \cup {x} /\ <<"told", "ok">> \notin seen'[k]
  BY <1>3 DEF x
<1>7. at'[k] = "nodes" => round'[k] >= 1 /\ \A i \in DOMAIN built[k] : i < round'[k] => Accepted(k, i) \in facts'
  <2>1. \A i \in DOMAIN built[k] : i \in Nat
    BY <1>3, BuiltLength
  <2>2. SUFFICES ASSUME at'[k] = "nodes"
                 PROVE  round'[k] >= 1 /\ \A i \in DOMAIN built[k] : i < round'[k] => Accepted(k, i) \in facts'
    OBVIOUS
  <2>3. facts' = facts \cup {Accepted(k, round[k])} /\ round'[k] = round[k] + 1
    BY <2>2
  <2>4. ASSUME NEW i \in DOMAIN built[k], i < round'[k] PROVE Accepted(k, i) \in facts'
    <3>1. i < round[k] \/ i = round[k]
      BY <1>1, <2>1, <2>3, <2>4
    <3> QED BY <1>3, <2>3, <3>1
  <2> QED BY <1>1, <2>3, <2>4
<1>8. Files(k) \subseteq facts'
  BY <1>2, <1>3 DEF Files
<1>9. \A y \in pending' : y.by = k => y \in {CreateTx(k), SwapTx(k)}
  BY <1>5, <1>6 DEF LaunchOK
<1>10. SwapTx(k) \in pending' \/ <<"tip", k>> \in facts' => Accepted(k, 1) \in facts'
  BY <1>2, <1>5, <1>6 DEF LaunchOK
<1>11. at'[k] \in {"nodes", "returned"} /\ built'[k] = built[k]
  OBVIOUS
<1> QED BY <1>1, <1>3, <1>6, <1>7, <1>8, <1>9, <1>10, <1>11 DEF LaunchOK, Files, Told

\* The form tells success only after every transaction was accepted.
LEMMA FormKeeps ==
    ASSUME BusyInv, CallsOK, Evolves, NEW k \in Call, Shaped(k), LaunchOK(k),
           Start(k) \/ Goes(k) \/ Killed(k) \/ GivesUp(k)
    PROVE  LaunchOK(k)'
<1>0. job' = job /\ Shape /\ DOMAIN at = Call /\ DOMAIN todo = Call /\ DOMAIN round = Call /\ DOMAIN built = Call
  BY DEF Evolves, BusyInv, CallsOK
<1> SUFFICES ASSUME job[k].cmd = "launch"
             PROVE  LaunchOK(k)'
  BY <1>0 DEF LaunchOK
<1>1. at[k] \in FormPlace /\ todo[k] = <<>>
  BY FormPlaces
<1>2. /\ built[k] \in {<<>>, <<CreateTx(k)>>, <<CreateTx(k), SwapTx(k)>>}
      /\ at[k] # "returned" => <<"told", "ok">> \notin seen[k]
      /\ facts \subseteq facts'
  BY DEF LaunchOK, Told, Shaped, Touches
<1>3. CASE Start(k)
  <2>1. at[k] = "idle" /\ at'[k] = "launch" /\ UNCHANGED <<seen, built, pending>>
    BY <1>0, <1>3 DEF Start, Goto, Send, Try, Nothing, Entry, PositionCommands, pageVars
  <2>2. built[k] = <<>>
    BY <2>1 DEF LaunchOK
  <2> QED BY <1>2, <2>1, <2>2, FormGoesOn
<1>4. CASE OpenLaunch(k)
  <2>1. at[k] = "launch" /\ at'[k] = "uploadImage" /\ UNCHANGED <<seen, built, pending>>
    BY <1>0, <1>4 DEF OpenLaunch, Goto, Send, Try, Nothing, At
  <2>2. built[k] = <<>>
    BY <2>1 DEF LaunchOK
  <2> QED BY <1>2, <2>1, <2>2, FormGoesOn
<1>5. CASE Fails(k)
  <2>1. at[k] # "returned" /\ at'[k] = "returned" /\ built' = built /\ pending' = pending
    BY <1>0, <1>5 DEF Fails, Tell, Return, Goto, Send, Try, InFlight
  <2>2. seen'[k] \subseteq seen[k] \cup {<<"told", "error">>}
    BY <1>0, <1>5, NotesFacts DEF Fails, Tell
  <2> QED BY <1>2, <2>1, <2>2, FormGoesOn
<1>6. CASE UploadImage(k)
  <2>1. /\ at[k] = "uploadImage" /\ at'[k] = "uploadMetadata" /\ <<"image", k>> \in facts'
        /\ UNCHANGED <<seen, built, pending>>
    BY <1>0, <1>6 DEF UploadImage, UploadFile, Try, Nothing, At
  <2>2. built[k] = <<>>
    BY <2>1 DEF LaunchOK
  <2> QED BY <1>2, <2>1, <2>2, FormGoesOn
<1>7. CASE UploadMetadata(k)
  <2>1. /\ at[k] = "uploadMetadata" /\ at'[k] = "buildCreate" /\ <<"metadata", k>> \in facts'
        /\ UNCHANGED <<seen, built, pending>>
    BY <1>0, <1>7 DEF UploadMetadata, UploadFile, Try, Nothing, At
  <2>2. built[k] = <<>> /\ <<"image", k>> \in facts'
    BY <1>2, <2>1 DEF LaunchOK
  <2>3. Files(k) \subseteq facts'
    BY <2>1, <2>2 DEF Files
  <2> QED BY <1>2, <2>1, <2>2, <2>3, FormGoesOn
<1>8. CASE BuildCreate(k)
  <2>1. /\ at[k] = "buildCreate" /\ at'[k] \in {"returned", "signCreate"} /\ built'[k] = <<CreateTx(k)>>
        /\ UNCHANGED <<seen, pending, facts>>
    BY <1>0, <1>8 DEF BuildCreate, Goto, Send, Try, Nothing, At
  <2>2. Files(k) \subseteq facts /\ <<"told", "ok">> \notin seen'[k] /\ built[k] = <<>>
    BY <1>2, <2>1 DEF LaunchOK
  <2>3. /\ \A x \in pending' : x.by # k
        /\ SwapTx(k) \in pending' \/ <<"tip", k>> \in facts' => Accepted(k, 1) \in facts'
    BY <2>1, <2>2 DEF LaunchOK
  <2> QED BY <1>0, <2>1, <2>2, <2>3 DEF LaunchOK, Files, Told
<1>9. CASE SignCreate(k)
  <2>1. /\ at[k] = "signCreate" /\ at'[k] \in {"buildSwap", "nodes"} /\ round'[k] = 1
        /\ UNCHANGED <<seen, built, pending>>
    BY <1>0, <1>9 DEF SignCreate, GotoRow, Try, Nothing, At, pageVars
  <2>2. built[k] = <<CreateTx(k)>> /\ \A i \in DOMAIN built[k] : i = 1 \/ i = 2
    BY <1>2, <2>1, BuiltLength DEF LaunchOK
  <2>3. round'[k] >= 1 /\ \A i \in DOMAIN built[k] : i < round'[k] => Accepted(k, i) \in facts
    BY <2>1, <2>2
  <2>4. built'[k] = built[k] /\ <<"told", "ok">> \notin seen'[k]
    BY <1>2, <2>1
  <2> QED BY <2>1, <2>2, <2>3, <2>4, FormGoesOn
<1>10. CASE BuildSwap(k)
  <2>1. /\ at[k] = "buildSwap" /\ at'[k] \in {"returned", "signSwap"} /\ built' = [built EXCEPT ![k] = Append(@, SwapTx(k))]
        /\ UNCHANGED <<seen, pending, facts, round>>
    BY <1>0, <1>10 DEF BuildSwap, Goto, Send, Try, Nothing, At
  <2>2. /\ Files(k) \subseteq facts /\ <<"told", "ok">> \notin seen'[k] /\ built[k] = <<CreateTx(k)>> /\ round[k] = 1
    BY <1>2, <2>1 DEF LaunchOK
  <2>3. built'[k] = <<CreateTx(k), SwapTx(k)>>
    <3>1. built'[k] = Append(<<CreateTx(k)>>, SwapTx(k))
      BY <1>0, <2>1, <2>2
    <3> QED BY <3>1, Appended
  <2>4. /\ \A x \in pending' : x.by = k => x \in {CreateTx(k), SwapTx(k)}
        /\ SwapTx(k) \in pending' \/ <<"tip", k>> \in facts' => Accepted(k, 1) \in facts'
    BY <2>1, <2>2 DEF LaunchOK
  <2>5. built'[k] # <<>> /\ round'[k] = 1 /\ Files(k) \subseteq facts'
    BY <2>1, <2>2, <2>3
  <2> QED BY <1>0, <2>1, <2>2, <2>3, <2>4, <2>5 DEF LaunchOK, Files, Told
<1>11. CASE SignSwap(k)
  <2>1. /\ at[k] = "signSwap" /\ at'[k] = "nodes" /\ UNCHANGED <<seen, built, pending, round>>
    BY <1>0, <1>11 DEF SignSwap, Goto, Send, Try, Nothing, At, pageVars
  <2>2. round[k] = 1 /\ \A i \in DOMAIN built[k] : ~(i < 1)
    BY <1>2, <2>1, BuiltLength DEF LaunchOK
  <2>3. round'[k] >= 1 /\ \A i \in DOMAIN built[k] : i < round'[k] => Accepted(k, i) \in facts
    BY <2>1, <2>2
  <2>4. built'[k] = built[k] /\ <<"told", "ok">> \notin seen'[k]
    BY <1>2, <2>1
  <2> QED BY <2>1, <2>3, <2>4, FormGoesOn
<1>12. CASE SendNext(k)
  <2>1. /\ at[k] = "nodes" /\ round[k] \in DOMAIN built[k] /\ pending' = pending \cup {built[k][round[k]]}
        /\ UNCHANGED <<at, seen, built>> /\ facts' = facts \cup {Accepted(k, round[k])} /\ round'[k] = round[k] + 1
    BY <1>0, <1>12 DEF SendNext, At
  <2>2. at'[k] = "nodes"
    BY <2>1
  <2> QED BY <2>1, <2>2, FormSends
<1>13. CASE NodeSilent(k)
  <2>1. /\ at[k] = "nodes" /\ round[k] \in DOMAIN built[k] /\ pending' = pending \cup {built[k][round[k]]}
        /\ at'[k] = "returned" /\ UNCHANGED <<facts, built>>
    BY <1>0, <1>13 DEF NodeSilent, At
  <2>2. seen'[k] \subseteq seen[k] \cup {<<"told", "error">>}
    BY <1>0, <1>13, NotesFacts DEF NodeSilent
  <2> QED BY <2>1, <2>2, FormSends
<1>14. CASE AllSent(k) \/ Landed(k)
  <2>1. /\ at[k] \in {"nodes", "landed"} /\ at'[k] \in {"landed", "returned"} /\ UNCHANGED <<built, pending>>
        /\ at'[k] = "landed" => seen' = seen
    BY <1>0, <1>14 DEF AllSent, Landed, Tell, Return, Goto, Send, Try, Nothing, At, pageVars
  <2>2. AllAccepted(k)
    <3>1. CASE at[k] = "landed"
      BY <3>1 DEF LaunchOK
    <3>2. CASE at[k] = "nodes"
      <4>1. /\ round[k] \notin DOMAIN built[k] /\ round[k] \in Nat /\ round[k] >= 1
            /\ \A i \in DOMAIN built[k] : i < round[k] => Accepted(k, i) \in facts
        BY <1>14, <3>2 DEF AllSent, Landed, At, LaunchOK, CallsOK
      <4>2. ASSUME NEW i \in DOMAIN built[k] PROVE i < round[k]
        <5>1. i = 1 \/ (i = 2 /\ 1 \in DOMAIN built[k])
          BY <1>2, BuiltLength
        <5> QED BY <4>1, <5>1
      <4> QED BY <4>1, <4>2 DEF AllAccepted
    <3> QED BY <2>1, <3>1, <3>2
  <2> QED BY <1>2, <2>1, <2>2, FormGoesOn
<1>15. CASE GivesUp(k)
  <2>1. /\ at' = at /\ at[k] \in InFlight /\ UNCHANGED <<built, pending, facts, round>>
    BY <1>15 DEF GivesUp, programVars
  <2>2. seen'[k] \subseteq seen[k] \cup {<<"told", "error">>}
    BY <1>0, <1>15, NotesFacts DEF GivesUp
  <2>3. <<"told", "ok">> \notin seen'[k] /\ at'[k] = at[k] /\ round'[k] = round[k]
    BY <1>2, <2>1, <2>2 DEF InFlight
  <2> QED BY <2>1, <2>3, FormGoesOn DEF LaunchOK
<1>16. ~PositionStep(k) /\ ~DammExitStep(k) /\ ~BatchStep(k) /\ ~LoopStep(k) /\ ~ServerStep(k) /\ ~Delivery(k) /\ ~Fault(k)
  BY <1>1, StepPlaces DEF FormPlace, InFlight, PositionPlaces
<1>17. ~BuildBundle(k) /\ ~Relay(k) /\ ~BuildLaunch(k) /\ job[k].cmd \in Hooks
  BY <1>1 DEF BuildBundle, Relay, BuildLaunch, At, FormPlace, InFlight, Hooks
<1> QED BY <1>3, <1>4, <1>5, <1>6, <1>7, <1>8, <1>9, <1>10, <1>11, <1>12, <1>13, <1>14, <1>15, <1>16, <1>17
       DEF Goes, OnPage, Elsewhere, Carried, Killed, LaunchStep

-----------------------------------------------------------------------------
(* All together.                                                           *)

LEMMA ProperStays ==
    ASSUME job' = job, NEW k \in Call, NEW x
    PROVE  (Proper(k, x)' <=> Proper(k, x)) /\ (Sends(k, x)' <=> Sends(k, x))
  BY CreatesAsBefore DEF Proper, Sends

LEMMA FewerLps ==
    ASSUME SentOK, Evolves
    PROVE  IsFiniteSet({f \in facts' : f[1] = "lp"})
<1>1. {f \in facts' : f[1] = "lp"} \in SUBSET {f \in facts : f[1] = "lp"}
  BY DEF Evolves
<1> QED BY <1>1, FS_Subset DEF SentOK

\* The parts of the invariant under a step of one call.
LEMMA ShapedCalls ==
    ASSUME CallsOK, NEW k \in Call, Shaped(k)
    PROVE  CallsOK'
<1>1. job' = job /\ Walks(k) /\ built' = [built EXCEPT ![k] = built'[k]] /\ \A i \in DOMAIN built'[k] : Sends(k, built'[k][i])
  BY DEF Shaped, Walks, Marks
<1>2. /\ \A j \in Call : \A x : (Proper(j, x)' <=> Proper(j, x)) /\ (Sends(j, x)' <=> Sends(j, x))
  BY <1>1, ProperStays
<1>3. /\ at' \in [Call -> Place] /\ stage' \in [Call -> {"ready", "sent"}] /\ round' \in [Call -> Nat]
      /\ rescue' \in [Call -> [Failures -> Place \ Before]] /\ DOMAIN seen' = Call
      /\ DOMAIN todo' = Call /\ todo' = [j \in Call |-> todo'[j]]
      /\ DOMAIN built' = Call /\ built' = [j \in Call |-> built'[j]]
  BY ZenonT(60), <1>1 DEF CallsOK, Walks, Notes
<1>4. ASSUME NEW j \in Call
      PROVE  /\ Single(j, todo[j])'
             /\ todo'[j] = <<>> => stage'[j] = "ready"
             /\ at'[j] \in Before => todo'[j] = <<>>
             /\ \A i \in DOMAIN built'[j] : Sends(j, built[j][i])'
  <2>1. /\ Single(j, todo'[j]) /\ \A i \in DOMAIN built'[j] : Sends(j, built'[j][i])
        /\ todo'[j] = <<>> => stage'[j] = "ready"
        /\ at'[j] \in Before => todo'[j] = <<>>
    <3>1. CASE j = k
      BY <1>1, <3>1 DEF Walks
    <3>2. CASE j # k
      <4>1. at'[j] = at[j] /\ todo'[j] = todo[j] /\ stage'[j] = stage[j] /\ built'[j] = built[j]
        BY <1>1, <3>2 DEF Walks, CallsOK
      <4> QED BY <4>1 DEF CallsOK
    <3> QED BY <3>1, <3>2
  <2>2. Single(j, todo[j])'
    BY <1>2, <2>1 DEF Single
  <2> QED BY <1>2, <2>1, <2>2
<1>5. \A j \in Call : job'[j].dry => job'[j].cmd \in PositionCommands \cup {"exitAll"}
  BY <1>1 DEF CallsOK
<1> QED BY <1>3, <1>4, <1>5 DEF CallsOK

LEMMA ShapedSent ==
    ASSUME CallsOK, SentOK, Evolves, NEW k \in Call, Shaped(k)
    PROVE  SentOK'
<1>1. job' = job /\ Walks(k) /\ Touches(k)
  BY DEF Shaped, Walks
<1>2. ASSUME NEW x \in pending' PROVE x.by \in Call /\ Proper(x.by, x)'
  <2>1. x.by \in Call /\ Proper(x.by, x)
    BY <1>1 DEF Touches, SentOK, Proper
  <2> QED BY <1>1, <2>1, ProperStays
<1>3. ASSUME NEW z \in fate' PROVE z[2] \in Outcome /\ z[1].by \in Call /\ Awaited(z[1])'
  <2>1. z \in fate /\ z[1].by # k
    BY <1>1 DEF Touches
  <2>2. z[2] \in Outcome /\ z[1].by \in Call /\ Awaited(z[1])
    BY <2>1 DEF SentOK
  <2>3. todo'[z[1].by] = todo[z[1].by] /\ stage'[z[1].by] = stage[z[1].by]
    BY <1>1, <2>1, <2>2 DEF Walks, CallsOK
  <2> QED BY <2>2, <2>3 DEF Awaited, Waiting, Batch
<1> QED BY <1>2, <1>3, FewerLps DEF SentOK

LEMMA ShapedRows ==
    ASSUME CallsOK, PageOK, RowsOK, \A j \in Call : RunOK(j), Evolves, NEW k \in Call, Shaped(k)
    PROVE  RowsOK'
<1>1. job' = job /\ Marks(k)
  BY DEF Shaped, Walks
<1>2. CASE NewList(k)
  BY <1>1, <1>2 DEF NewList, Lists, RowsOK, RowIsOwn, NoneSkipped
<1>3. CASE SameList(k)
  <2>1. \A j \in Call : job[j].cmd \in Loops => built'[j] = built[j]
    BY <1>1, <1>3 DEF Marks, SameList, CallsOK
  <2>2. \A i \in DOMAIN page.rows : page.rows[i].listed \in Call /\ page.rows[i].by \in Call
    BY DEF PageOK, IsRow
  <2>3. ASSUME NEW i \in DOMAIN page'.rows
        PROVE  job'[page'.rows[i].listed].cmd \in Loops /\ RowIsOwn(page.rows[i].listed, i, page.rows[i].of)'
    BY <1>1, <1>3, <2>1, <2>2 DEF SameList, Follows, RowsOK, RowIsOwn, NoneSkipped
  <2>4. ASSUME NEW i \in DOMAIN page'.rows, page'.rows[i].status = "confirmed",
               NEW j, j = page'.rows[i].by
        PROVE  job'[j].cmd \in Loops /\ i \in DOMAIN built'[j] /\ Settled(j, i)'
    <3>1. j \in Call /\ job[j].cmd \in Loops /\ i \in DOMAIN built[j] /\ Settled(j, i)
      <4>1. i \in DOMAIN page.rows /\ Follows(k, i)
        BY <1>3 DEF SameList
      <4>2. CASE page.rows[i].status = "confirmed" /\ page'.rows[i].by = page.rows[i].by
        BY <2>2, <2>4, <4>1, <4>2 DEF RowsOK
      <4>3. CASE At(k, "rowDone") /\ i = round[k] /\ job[k].cmd \in Loops /\ page'.rows[i].by = k
        BY <2>4, <4>3 DEF RunOK, At
      <4> QED BY <2>4, <4>1, <4>2, <4>3 DEF Follows
    <3>2. built'[j] = built[j]
      BY <2>1, <3>1
    <3>3. Settled(j, i)'
      BY <3>1, <3>2, SettledStays DEF RunOK
    <3> QED BY <1>1, <3>1, <3>2, <3>3
  <2> QED BY <2>3, <2>4 DEF RowsOK
<1> QED BY <1>1, <1>2, <1>3 DEF Marks

\* A step of a call.
LEMMA CallTold ==
    ASSUME BusyInv, ToldInv, NEW k \in Call, Start(k) \/ Goes(k) \/ Killed(k) \/ GivesUp(k)
    PROVE  ToldInv'
<1>1. CallsOK /\ SentOK /\ PageOK /\ RowsOK /\ \A j \in Call : CallOK(j) /\ FreshOK(j) /\ RunOK(j)
  BY DEF ToldInv, CallOK
<1>2. Shaped(k)
  BY <1>1, EveryStepShaped
<1>3. Evolves /\ (\A j \in Call : FreshOK(j)') /\ \A j \in Call \ {k} : Silent(j)
  BY <1>1, <1>2, ShapedEvolves
<1>4. CallsOK' /\ SentOK' /\ PageOK' /\ RowsOK'
  BY <1>1, <1>2, <1>3, ShapedCalls, ShapedSent, ShapedRows DEF Shaped, Marks
<1>5. ASSUME NEW j \in Call PROVE CallOK(j)'
  <2>1. CASE j # k
    BY <1>1, <1>3, <2>1, SilentKeeps
  <2>2. CASE j = k
    <3>1. BulletOK(k)' /\ RunOK(k)' /\ LaunchOK(k)'
      BY <1>1, <1>2, <1>3, BulletKeeps, RunKeeps, FormKeeps DEF CallOK
    <3> QED BY <1>3, <2>2, <3>1 DEF CallOK
  <2> QED BY <2>1, <2>2
<1> QED BY <1>4, <1>5 DEF ToldInv

\* A step of no call.
LEMMA WorldTold ==
    ASSUME ToldInv, Evolves, PageOK', page'.rows = page.rows, UNCHANGED <<job, at, todo, stage, round, rescue, seen, built>>,
           pending' \subseteq pending, \A z \in fate' \ fate : z[2] \in Outcome /\ z[1].by \in Call /\ Awaited(z[1]),
           \A j \in Call : CallOK(j)'
    PROVE  ToldInv'
<1>1. \A j \in Call : \A x : (Proper(j, x)' <=> Proper(j, x)) /\ (Sends(j, x)' <=> Sends(j, x))
  BY ProperStays
<1>2. CallsOK'
  <2>1. \A j \in Call : Single(j, todo[j])'
    <3>1. \A j \in Call : Single(j, todo[j])
      BY DEF ToldInv, CallsOK
    <3> QED BY <1>1, <3>1 DEF Single
  <2>2. \A j \in Call : \A i \in DOMAIN built'[j] : Sends(j, built[j][i])'
    <3>1. \A j \in Call : \A i \in DOMAIN built'[j] : Sends(j, built'[j][i])
      BY DEF ToldInv, CallsOK
    <3> QED BY <1>1, <3>1
  <2> QED BY <2>1, <2>2 DEF ToldInv, CallsOK
<1>3. SentOK'
  <2>1. ASSUME NEW z \in fate' PROVE z[2] \in Outcome /\ z[1].by \in Call /\ Awaited(z[1])'
    <3>1. z[2] \in Outcome /\ z[1].by \in Call /\ Awaited(z[1])
      BY DEF ToldInv, SentOK
    <3> QED BY <3>1 DEF Awaited, Waiting, Batch
  <2>2. IsFiniteSet({f \in facts' : f[1] = "lp"})
    BY FewerLps DEF ToldInv
  <2>3. ASSUME NEW x \in pending' PROVE x.by \in Call /\ Proper(x.by, x)'
    BY <1>1 DEF ToldInv, SentOK
  <2> QED BY <2>1, <2>2, <2>3 DEF SentOK
<1>4. RowsOK'
  <2>1. ASSUME NEW i \in DOMAIN page'.rows, page'.rows[i].status = "confirmed",
               NEW j, j = page'.rows[i].by
        PROVE  job'[j].cmd \in Loops /\ i \in DOMAIN built'[j] /\ Settled(j, i)'
    <3>1. j \in Call /\ job[j].cmd \in Loops /\ i \in DOMAIN built[j] /\ Settled(j, i)
      BY <2>1 DEF ToldInv, RowsOK, PageOK, IsRow
    <3>2. Settled(j, i)'
      BY <3>1, SettledStays DEF ToldInv, CallOK, RunOK
    <3> QED BY <3>1, <3>2
  <2>2. \A i \in DOMAIN page'.rows : job'[page'.rows[i].listed].cmd \in Loops /\ RowIsOwn(page.rows[i].listed, i, page.rows[i].of)'
    BY DEF ToldInv, RowsOK, RowIsOwn, NoneSkipped
  <2> QED BY <2>1, <2>2 DEF RowsOK
<1> QED BY <1>2, <1>3, <1>4 DEF ToldInv

\* The steps of no call: the cluster, the world and the user.
LEMMA LandsTold ==
    ASSUME ToldInv, NEW x \in pending, LandsBy(x), UNCHANGED page
    PROVE  ToldInv'
<1>1. SentOK /\ \A j \in Call : CallOK(j) /\ FreshOK(j)
  BY DEF ToldInv, CallOK
<1>2. Evolves /\ (\A j \in Call : FreshOK(j)') /\ \A j \in Call \ {x.by} : Silent(j)
  BY <1>1, LandsEvolves
<1>3. /\ x.by \in Call /\ pending' = pending \ {x}
      /\ \A z \in fate' \ fate : Awaited(x) /\ z \in {x} \X Outcome
      /\ UNCHANGED <<job, at, todo, stage, round, rescue, seen, built>>
  BY <1>1, LandsFacts
<1>4. ASSUME NEW j \in Call PROVE CallOK(j)'
  <2>1. CASE j # x.by
    BY <1>1, <1>2, <2>1, SilentKeeps
  <2>2. CASE j = x.by
    <3>1. CallOK(x.by)'
      BY <1>1, <1>2, <1>3, OwnKeeps
    <3> QED BY <2>2, <3>1
  <2> QED BY <2>1, <2>2
<1>5. \A z \in fate' \ fate : z[2] \in Outcome /\ z[1].by \in Call /\ Awaited(z[1])
  BY <1>3
<1>6. PageOK' /\ page'.rows = page.rows /\ pending' \subseteq pending
  BY <1>3 DEF ToldInv, PageOK
<1> QED BY <1>2, <1>3, <1>4, <1>5, <1>6, WorldTold

LEMMA QuietTold ==
    ASSUME ToldInv, Evolves, \A j \in Call : FreshOK(j)' /\ Silent(j), PageOK', page'.rows = page.rows,
           UNCHANGED <<pending, fate, job, at, todo, stage, round, rescue, seen, built>>
    PROVE  ToldInv'
<1>1. \A j \in Call : CallOK(j)'
  BY SilentKeeps DEF ToldInv
<1> QED BY <1>1, WorldTold

\* Every step keeps what was told true, and it is true at first.
LEMMA ToldStep == BusyInv /\ ToldInv /\ [Next]_vars => ToldInv'
<1> SUFFICES ASSUME BusyInv, ToldInv, [Next]_vars
             PROVE  ToldInv'
  OBVIOUS
<1>0. PageOK /\ \A j \in Call : FreshOK(j)
  BY DEF ToldInv, CallOK
<1>1. CASE \E k \in Call : (Start(k) \/ Goes(k) \/ Killed(k) \/ GivesUp(k)) /\ Apart
  BY <1>1, CallTold
<1>2. CASE Abort
  <2>1. UNCHANGED <<programVars, processVars, job, built>>
    BY <1>2 DEF Abort
  <2>2. UNCHANGED <<pending, fate, job, at, todo, stage, round, rescue, seen, built>>
    BY <2>1 DEF programVars, processVars
  <2>3. PageOK' /\ page'.rows = page.rows
    <3>1. CASE page' = [page EXCEPT !.flag = TRUE]
      BY <1>0, <3>1 DEF PageOK
    <3>2. CASE page.newest \in Call /\ page' = [page EXCEPT !.stopped = @ \cup {page.newest}, !.busy = FALSE]
      <4>1. /\ DOMAIN page' = DOMAIN page /\ page'.busy = FALSE /\ page'.flag = page.flag /\ page'.rows = page.rows
            /\ page'.newest = page.newest /\ page'.stopped = page.stopped \cup {page.newest}
        BY <1>0, <3>2 DEF PageOK
      <4> QED BY <1>0, <3>2, <4>1 DEF PageOK
    <3> QED BY <1>2, <3>1, <3>2 DEF Abort
  <2> QED BY <1>0, <2>1, <2>2, <2>3, StillEvolves, QuietTold
<1>3. CASE Cluster /\ UNCHANGED pageVars
  <2>1. PICK x \in pending : Execute(x, Awaited(x)) \/ Expire(x, Awaited(x))
    BY <1>3 DEF Cluster
  <2>2. LandsBy(x) /\ UNCHANGED page
    BY <1>3, <2>1 DEF LandsBy, Cluster, pageVars
  <2> QED BY <2>2, LandsTold
<1>4. CASE World /\ UNCHANGED pageVars
  <2>1. (Trade \/ Mature) /\ UNCHANGED <<processVars, job, built>> /\ page' = page
    BY <1>4 DEF World, pageVars
  <2>2. UNCHANGED <<pending, fate, job, at, todo, stage, round, rescue, seen, built>>
    BY <2>1 DEF Trade, Mature, processVars
  <2>3. PageOK' /\ page'.rows = page.rows
    BY <1>0, <2>1 DEF PageOK
  <2> QED BY <1>0, <2>1, <2>2, <2>3, WorldEvolves, QuietTold
<1>5. CASE UNCHANGED callVars
  <2>1. UNCHANGED <<programVars, processVars, job, built>> /\ page' = page
    BY <1>5 DEF callVars, pageVars
  <2>2. UNCHANGED <<pending, fate, job, at, todo, stage, round, rescue, seen, built>>
    BY <2>1 DEF programVars, processVars
  <2>3. PageOK' /\ page'.rows = page.rows
    BY <1>0, <2>1 DEF PageOK
  <2> QED BY <1>0, <2>1, <2>2, <2>3, StillEvolves, QuietTold
<1> QED BY <1>1, <1>2, <1>3, <1>4, <1>5 DEF Next, Happens, vars

LEMMA ToldInit == Init => ToldInv
<1> SUFFICES ASSUME Init
             PROVE  ToldInv
  OBVIOUS
<1>1. PICK input \in Inputs : job = input.job /\ facts = input.facts
  BY DEF Init
<1>2. /\ DOMAIN job = Call /\ \A k \in Call : job[k].dry => job[k].cmd \in PositionCommands \cup {"exitAll"}
      /\ IsFiniteSet(facts) /\ \A f \in facts : f[1] \notin {"done", "tip"}
      /\ \A k \in Call : <<"curve", k>> \notin facts /\ <<"open", NewPosition[k]>> \notin facts
  BY <1>1, InputsAssumption
<1>3. /\ pending = {} /\ fate = {}
      /\ at = [k \in Call |-> "idle"] /\ todo = [k \in Call |-> <<>>] /\ stage = [k \in Call |-> "ready"]
      /\ round = [k \in Call |-> 0] /\ rescue = [k \in Call |-> Uncaught] /\ seen = [k \in Call |-> {}]
      /\ page = EmptyPage /\ built = [k \in Call |-> <<>>]
  BY DEF Init
<1>4. CallsOK
  <2>1. "idle" \in Place /\ Uncaught \in [Failures -> Place \ Before] /\ 0 \in Nat
    BY CatchesAre DEF Place
  <2> QED BY <1>2, <1>3, <2>1 DEF CallsOK, Single
<1>5. SentOK
  <2>1. IsFiniteSet({f \in facts : f[1] = "lp"})
    BY <1>2, FS_Subset
  <2> QED BY <1>3, <2>1 DEF SentOK
<1>6. PageOK /\ RowsOK
  BY <1>3 DEF PageOK, RowsOK, EmptyPage
<1>7. ASSUME NEW k \in Call PROVE CallOK(k)
  <2>0. /\ at[k] = "idle" /\ todo[k] = <<>> /\ round[k] = 0 /\ seen[k] = {} /\ built[k] = <<>> /\ DOMAIN built[k] = {}
    BY <1>3
  <2>1. FreshOK(k)
    BY <1>2, <1>3, <2>0 DEF FreshOK
  <2>2. Unbegun(k)
    BY <1>2, <1>3, <2>0 DEF Unbegun, IsDone, Done
  <2>3. RunOK(k)
    BY <1>3, <2>0 DEF RunOK, At
  <2>4. LaunchOK(k)
    BY <1>2, <1>3, <2>0 DEF LaunchOK, Told
  <2> QED BY <2>1, <2>2, <2>3, <2>4 DEF CallOK, BulletOK
<1> QED BY <1>4, <1>5, <1>6, <1>7 DEF ToldInv

-----------------------------------------------------------------------------
(* Only the bulletproof exit tries again and answers.                      *)

BulletPlace == {"bulletproof", "attempt", "again", "success", "gaveUp"}
Mute(k) ==
    job[k].cmd # "bulletproof" =>
       /\ at[k] \notin BulletPlace /\ \A how \in Failures : rescue[k][how] \notin BulletPlace
       /\ \A f \in seen[k] : f[1] # "answer"
MuteInv == \A k \in Call : Mute(k)

\* A step to one of the other places, which catches nothing itself and notes
\* nothing that is an answer.
MuteStep(k) ==
    /\ at'[k] \notin BulletPlace /\ \A how \in Failures : rescue'[k][how] \notin BulletPlace
    /\ \A f \in seen'[k] \ seen[k] : f[1] # "answer"

\* Of the ways to catch a failure, only that of the attempts leads to another one.
LEMMA CatchesNoBullet ==
    \A how \in Failures : Uncaught[how] \notin BulletPlace /\ RowCatch[how] \notin BulletPlace
  BY DEF Uncaught, RowCatch, CaughtAs, Failures, BulletPlace

LEMMA MuteTry ==
    ASSUME Shape, NEW k \in Call, NEW point, point \notin BulletPlace, NEW batches, NEW catch \in {Uncaught, RowCatch},
           Try(k, batches, point, catch), \A f \in seen'[k] \ seen[k] : f[1] # "answer"
    PROVE  MuteStep(k)
  BY CatchesNoBullet DEF Try, MuteStep, Shape

\* The forms of such a step.
LEMMA MuteForms ==
    ASSUME NEW k \in Call
    PROVE  /\ \A point : Goto(k, point) => Try(k, <<>>, point, Uncaught)
           /\ \A batches, point : Send(k, batches, point) => Try(k, batches, point, Uncaught)
           /\ \A point, i : GotoRow(k, point, i) => Try(k, <<>>, point, Uncaught) /\ Nothing
           /\ Return(k) => Try(k, <<>>, "returned", Uncaught)
           /\ Rest(k) => Try(k, <<>>, "returned", Uncaught)
           /\ \A point \in {"listing", "signing", "rows", "stopped", "picked", "returned", "findLp", "signLp", "discover",
                              "build", "removeAll"} : point \notin BulletPlace
  BY DEF Goto, Send, GotoRow, Return, Rest, BulletPlace

\* No other command leads to an attempt or notes an answer.
LEMMA MutePosition ==
    ASSUME BusyInv, NEW k \in Call, PositionStep(k)
    PROVE  MuteStep(k)
<1>0. Shape
  BY DEF BusyInv
<1>1. \E point, batches : Try(k, batches, point, Uncaught) /\ point \notin BulletPlace
  <2>1. CASE FetchPool(k) \/ NoPosition(k) \/ ChoosePosition(k) \/ PositionGone(k)
    BY <2>1 DEF FetchPool, NoPosition, ChoosePosition, PositionGone, Goto, Return, Send, BulletPlace
  <2>2. CASE SplitCreate(k) \/ SplitPosition(k) \/ ClaimPositionFee(k)
    BY <2>2 DEF SplitCreate, SplitPosition, ClaimPositionFee, Goto, Send, BulletPlace
  <2>3. CASE AddLiquidity(k) \/ Refetch(k)
    BY <2>3 DEF AddLiquidity, Refetch, Goto, Send, BulletPlace
  <2>4. CASE RemoveLiquidity(k) \/ RemoveQuoted(k)
    BY <2>4 DEF RemoveLiquidity, RemoveQuoted, Goto, Return, Send, BulletPlace
  <2>5. CASE RemoveRemains(k) \/ RemoveClose(k) \/ ClosePosition(k)
    BY <2>5 DEF RemoveRemains, RemoveClose, ClosePosition, Goto, Return, Send, BulletPlace
  <2> QED BY <2>1, <2>2, <2>3, <2>4, <2>5 DEF PositionStep
<1>2. /\ \A p : \A f \in State(p) : f[1] # "answer"
      /\ \A f \in Prices \cup {<<"open", NewPosition[k]>>} : f[1] # "answer"
  BY DEF State, Liquidity, Prices
<1>3. /\ \A about : Read(k, about) => seen'[k] \subseteq seen[k] \cup about
      /\ \A p : ReadButFee(k, p) => seen'[k] \subseteq seen[k] \cup State(p)
      /\ \A news : Keep(k, news) => seen'[k] \subseteq seen[k] \cup news
      /\ Nothing => seen'[k] \subseteq seen[k]
  BY <1>0 DEF Read, ReadButFee, Keep, Nothing, Shape
<1>4. \A f \in seen'[k] \ seen[k] : f[1] # "answer"
  <2>1. CASE FetchPool(k) \/ NoPosition(k) \/ ChoosePosition(k) \/ PositionGone(k)
    <3>1. CASE FetchPool(k)
      BY <1>2, <1>3, <3>1 DEF FetchPool
    <3>2. CASE NoPosition(k) \/ PositionGone(k)
      BY <1>3, <3>2 DEF NoPosition, PositionGone
    <3>3. CASE ChoosePosition(k)
      <4>1. \E p : Keep(k, {<<"chosen", p>>})
        BY <3>3 DEF ChoosePosition
      <4> QED BY <1>3, <4>1
    <3> QED BY <2>1, <3>1, <3>2, <3>3
  <2>2. CASE SplitCreate(k) \/ SplitPosition(k) \/ ClaimPositionFee(k)
    BY <1>2, <1>3, <2>2 DEF SplitCreate, SplitPosition, ClaimPositionFee
  <2>3. CASE AddLiquidity(k) \/ Refetch(k)
    BY <1>2, <1>3, <2>3 DEF AddLiquidity, Refetch
  <2>4. CASE RemoveLiquidity(k) \/ RemoveQuoted(k)
    BY <1>2, <1>3, <2>4 DEF RemoveLiquidity, RemoveQuoted
  <2>5. CASE RemoveRemains(k) \/ RemoveClose(k) \/ ClosePosition(k)
    BY <1>2, <1>3, <2>5 DEF RemoveRemains, RemoveClose, ClosePosition
  <2> QED BY <2>1, <2>2, <2>3, <2>4, <2>5 DEF PositionStep
<1> QED BY <1>0, <1>1, <1>4, MuteTry

LEMMA MuteDammExit ==
    ASSUME BusyInv, NEW k \in Call, DammExitStep(k), Mute(k), job[k].cmd # "bulletproof"
    PROVE  MuteStep(k)
<1>0. Shape
  BY DEF BusyInv
<1>1. /\ \A news : Keep(k, news) => seen'[k] \subseteq seen[k] \cup news
      /\ Nothing => seen'[k] \subseteq seen[k]
      /\ \A p : \A f \in State(p) : f[1] # "answer"
  BY <1>0 DEF Keep, Nothing, Shape, State, Liquidity
<1>2. CASE ExitAllFails(k) \/ ExitAutoFails(k) \/ SignExitAll(k) \/ NoPositionForPool(k) \/ OpenExitAuto(k)
  <2>1. /\ Nothing
        /\ \E point \in {"returned", "rows", "stopped", "findLp"} : Try(k, <<>>, point, Uncaught)
    BY <1>2, MuteForms DEF ExitAllFails, ExitAutoFails, SignExitAll, NoPositionForPool, OpenExitAuto
  <2> QED BY <1>0, <1>1, <2>1, MuteTry, MuteForms
<1>3. CASE OpenExitAll(k)
  <2>1. seen'[k] \subseteq seen[k] \cup {<<"abortFlag", 0>>} /\ Try(k, <<>>, "listing", Uncaught)
    BY <1>1, <1>3, MuteForms DEF OpenExitAll
  <2> QED BY <1>0, <2>1, MuteTry, MuteForms
<1>4. CASE ListPositions(k)
  <2>1. Nothing /\ (Goto(k, "returned") \/ Goto(k, "signing"))
    BY <1>4 DEF ListPositions
  <2> QED BY <1>0, <1>1, <2>1, MuteTry, MuteForms
<1>5. CASE PickPosition(k)
  <2>1. Goto(k, "picked") /\ \E p : Keep(k, {<<"chosen", p>>} \cup (State(p) \cap facts))
    BY <1>5 DEF PickPosition
  <2>2. \A f \in seen'[k] \ seen[k] : f[1] # "answer"
    BY <1>1, <2>1
  <2> QED BY <1>0, <2>1, <2>2, MuteTry, MuteForms
<1>6. CASE BuildExit(k)
  <2>1. Nothing /\ \E batches : Send(k, batches, "returned")
    BY <1>6 DEF BuildExit
  <2> QED BY <1>0, <1>1, <2>1, MuteTry, MuteForms
<1>7. CASE findBestDammLpAndPool(k)
  <2>1. Goto(k, "signLp") /\ \E n, a : Keep(k, {<<"amount", n, a>>})
    BY <1>7 DEF findBestDammLpAndPool
  <2>2. \A f \in seen'[k] \ seen[k] : f[1] # "answer"
    BY <1>1, <2>1
  <2> QED BY <1>0, <2>1, <2>2, MuteTry, MuteForms
<1>8. CASE SubmitLp(k)
  BY <1>0, <1>8 DEF SubmitLp, Nothing, MuteStep, Mute, Shape, BulletPlace
<1> QED BY <1>2, <1>3, <1>4, <1>5, <1>6, <1>7, <1>8 DEF DammExitStep

LEMMA MuteBatch ==
    ASSUME BusyInv, NEW k \in Call, BatchStep(k) \/ LoopStep(k)
    PROVE  MuteStep(k)
<1>0. Shape
  BY DEF BusyInv
<1>1. /\ \A news : Keep(k, news) => seen'[k] \subseteq seen[k] \cup news
      /\ Nothing => seen'[k] \subseteq seen[k]
  BY <1>0 DEF Keep, Nothing, Shape
<1>2. CASE OpenBatch(k) \/ BuildBatch(k) \/ BatchFails(k)
  <2>1. Nothing /\ \E point \in {"returned", "discover", "signing"} : Try(k, <<>>, point, Uncaught)
    BY <1>2, MuteForms DEF OpenBatch, BuildBatch, BatchFails
  <2> QED BY <1>0, <1>1, <2>1, MuteTry, MuteForms
<1>3. CASE Discover(k)
  <2>1. /\ Rest(k) \/ Goto(k, "build")
        /\ \E news : Keep(k, news) /\ \A f \in news : f[1] = "pool"
    BY <1>3 DEF Discover
  <2>2. \A f \in seen'[k] \ seen[k] : f[1] # "answer"
    BY <1>1, <2>1
  <2> QED BY <1>0, <2>1, <2>2, MuteTry, MuteForms
<1>4. CASE SignBatch(k)
  <2>1. Try(k, <<>>, "rows", Uncaught) /\ \E news : Keep(k, news) /\ \A f \in news : f[1] = "unsigned"
    BY <1>4 DEF SignBatch
  <2>2. \A f \in seen'[k] \ seen[k] : f[1] # "answer"
    BY <1>1, <2>1
  <2> QED BY <1>0, <2>1, <2>2, MuteTry, MuteForms
<1>5. CASE SendRow(k)
  <2>1. Nothing /\ \E batches : Try(k, batches, "rowDone", RowCatch)
    BY <1>5 DEF SendRow
  <2>2. "rowDone" \notin BulletPlace
    BY DEF BulletPlace
  <2> QED BY <1>0, <1>1, <2>1, <2>2, MuteTry
<1>6. CASE RowDone(k) \/ RowFailed(k) \/ RowUnsigned(k)
  <2>1. \E i : GotoRow(k, "rows", i)
    BY <1>6 DEF RowDone, RowFailed, RowUnsigned, RowIs
  <2> QED BY <1>0, <1>1, <2>1, MuteTry, MuteForms
<1>7. CASE RowsEnd(k)
  <2>1. Nothing /\ Rest(k)
    BY <1>7 DEF RowsEnd
  <2> QED BY <1>0, <1>1, <2>1, MuteTry, MuteForms
<1> QED BY <1>2, <1>3, <1>4, <1>5, <1>6, <1>7 DEF BatchStep, LoopStep

LEMMA MuteServer ==
    ASSUME BusyInv, NEW k \in Call, ServerStep(k), Mute(k), job[k].cmd # "bulletproof"
    PROVE  MuteStep(k)
<1>0. Shape
  BY DEF BusyInv
<1>1. /\ \A news : Keep(k, news) => seen'[k] \subseteq seen[k] \cup news
      /\ Nothing => seen'[k] \subseteq seen[k]
  BY <1>0 DEF Keep, Nothing, Shape
<1>2. ResolveKeys(k) \/ NoKeys(k) \/ RemoveAllLp(k) \/ BuildClaim(k)
  BY DEF ServerStep, ScanLp, Attempt, Again, Answered, At, Mute, BulletPlace
<1>3. CASE ResolveKeys(k)
  <2>1. Goto(k, "removeAll") /\ \E n : Keep(k, {<<"keys", n>>})
    BY <1>3 DEF ResolveKeys
  <2>2. \A f \in seen'[k] \ seen[k] : f[1] # "answer"
    BY <1>1, <2>1
  <2> QED BY <1>0, <2>1, <2>2, MuteTry, MuteForms
<1>4. CASE NoKeys(k)
  <2>1. Nothing /\ Goto(k, "stopped")
    BY <1>4 DEF NoKeys
  <2> QED BY <1>0, <1>1, <2>1, MuteTry, MuteForms
<1>5. CASE RemoveAllLp(k)
  <2>1. Nothing /\ (Return(k) \/ \E batches : Send(k, batches, "returned"))
    BY <1>5 DEF RemoveAllLp
  <2> QED BY <1>0, <1>1, <2>1, MuteTry, MuteForms
<1>6. CASE BuildClaim(k)
  <2>1. Nothing /\ (Goto(k, "stopped") \/ \E batches : Send(k, batches, "returned"))
    BY <1>6 DEF BuildClaim
  <2> QED BY <1>0, <1>1, <2>1, MuteTry, MuteForms
<1> QED BY <1>2, <1>3, <1>4, <1>5, <1>6

LEMMA MuteLaunch ==
    ASSUME BusyInv, NEW k \in Call, LaunchStep(k) \/ GivesUp(k), Mute(k), job[k].cmd # "bulletproof"
    PROVE  MuteStep(k)
<1>0. Shape
  BY DEF BusyInv
<1>1. /\ \A news : Keep(k, news) => seen'[k] \subseteq seen[k] \cup news
      /\ Nothing => seen'[k] \subseteq seen[k]
  BY <1>0 DEF Keep, Nothing, Shape
<1>2. CASE OpenLaunch(k) \/ Fails(k) \/ UploadImage(k) \/ UploadMetadata(k) \/ BuildCreate(k)
  <2>1. \E point, batches : Try(k, batches, point, Uncaught) /\ point \notin BulletPlace
    BY <1>2 DEF OpenLaunch, Fails, UploadImage, UploadMetadata, UploadFile, BuildCreate, Tell, Goto, Return, Send, BulletPlace
  <2>2. \A f \in seen'[k] \ seen[k] : f[1] # "answer"
    BY <1>1, <1>2 DEF OpenLaunch, Fails, UploadImage, UploadMetadata, UploadFile, BuildCreate, Tell
  <2> QED BY <1>0, <2>1, <2>2, MuteTry
<1>3. CASE SignCreate(k) \/ BuildSwap(k) \/ SignSwap(k) \/ AllSent(k) \/ Landed(k) \/ BuildBundle(k) \/ BuildLaunch(k)
  <2>1. \E point, batches : Try(k, batches, point, Uncaught) /\ point \notin BulletPlace
    BY <1>3 DEF SignCreate, BuildSwap, SignSwap, AllSent, Landed, BuildBundle, BuildLaunch, Tell, GotoRow, Goto, Return, Send,
       BulletPlace
  <2>2. \A f \in seen'[k] \ seen[k] : f[1] # "answer"
    BY <1>1, <1>3 DEF SignCreate, BuildSwap, SignSwap, AllSent, Landed, BuildBundle, BuildLaunch, Tell, GotoRow
  <2> QED BY <1>0, <2>1, <2>2, MuteTry
<1>4. CASE SendNext(k) \/ NodeSilent(k) \/ Relay(k) \/ GivesUp(k)
  <2>1. \A f \in seen'[k] \ seen[k] : f[1] # "answer"
    BY <1>1, <1>4 DEF SendNext, NodeSilent, Relay, GivesUp
  <2>2. at'[k] \in {at[k], "returned"} /\ rescue' = rescue
    BY <1>0, <1>4 DEF SendNext, NodeSilent, Relay, GivesUp, Shape
  <2> QED BY <2>1, <2>2 DEF MuteStep, Mute, BulletPlace
<1> QED BY <1>2, <1>3, <1>4 DEF LaunchStep

LEMMA MuteDelivery ==
    ASSUME BusyInv, CallsOK, NEW k \in Call, Delivery(k) \/ Fault(k) \/ Stop(k), Mute(k), job[k].cmd # "bulletproof"
    PROVE  MuteStep(k)
<1>1. CASE Stop(k)
  BY <1>1, CatchesNoBullet DEF Stop, MuteStep, Mute, CallsOK, BulletPlace
<1>2. CASE Delivery(k) \/ Fault(k)
  <2>1. seen' = seen
    BY <1>2, DeliveryFacts
  <2>2. \/ \E how \in Failures : at'[k] = rescue[k][how] /\ rescue'[k] = Uncaught
        \/ at'[k] = at[k] /\ rescue' = rescue
    <3>1. \A how \in Failures : Throw(k, how) => at'[k] = rescue[k][how] /\ rescue'[k] = Uncaught
      BY DEF Throw, CallsOK
    <3>2. {"send", "wait", "failed", "expired"} = Failures
      BY DEF Failures
    <3>3. Next1(k) => at'[k] = at[k] /\ rescue' = rescue
      BY DEF Next1
    <3>4. CASE Simulate(k) \/ Submit(k) \/ Refused(k)
      BY <3>1, <3>2, <3>3, <3>4 DEF Simulate, Submit, Refused
    <3>5. CASE Confirmed(k) \/ NotConfirmed(k) \/ Fault(k)
      BY <3>1, <3>2, <3>3, <3>5 DEF Confirmed, NotConfirmed, Fault
    <3> QED BY <1>2, <3>4, <3>5 DEF Delivery
  <2> QED BY <2>1, <2>2, CatchesNoBullet DEF MuteStep, Mute
<1> QED BY <1>1, <1>2

\* So no call but a bulletproof exit answers.
LEMMA MuteKeeps ==
    ASSUME BusyInv, CallsOK, job' = job, NEW k \in Call, Mute(k), Start(k) \/ Goes(k) \/ Killed(k) \/ GivesUp(k)
    PROVE  Mute(k)'
<1> SUFFICES ASSUME job[k].cmd # "bulletproof"
             PROVE  Mute(k)'
  BY DEF Mute
<1>1. CASE Start(k)
  <2>1. Shape /\ Entry(job[k].cmd) \notin BulletPlace
    BY DEF BusyInv, Shape, Entry, BulletPlace, Commands, PositionCommands, Hooks
  <2>2. Try(k, <<>>, Entry(job[k].cmd), Uncaught) /\ seen' = seen
    BY <1>1 DEF Start, Goto, Send, Nothing
  <2>3. MuteStep(k)
    BY <2>1, <2>2, MuteTry
  <2> QED BY <2>3 DEF MuteStep, Mute
<1>2. CASE Goes(k) \/ Killed(k) \/ GivesUp(k)
  <2>1. MuteStep(k)
    BY <1>2, MutePosition, MuteDammExit, MuteBatch, MuteServer, MuteLaunch, MuteDelivery
       DEF Goes, OnPage, Elsewhere, Carried, Killed
  <2> QED BY <2>1 DEF MuteStep, Mute
<1> QED BY <1>1, <1>2

LEMMA MuteInit == Init => MuteInv
<1> SUFFICES ASSUME Init, NEW k \in Call
             PROVE  Mute(k)
  BY DEF MuteInv
<1>1. at[k] = "idle" /\ rescue[k] = Uncaught /\ seen[k] = {}
  BY DEF Init
<1>2. "idle" \notin BulletPlace
  BY DEF BulletPlace
<1> QED BY <1>1, <1>2, CatchesNoBullet DEF Mute

LEMMA MuteAll == BusyInv /\ ToldInv /\ MuteInv /\ [Next]_vars => MuteInv'
<1> SUFFICES ASSUME BusyInv, ToldInv, MuteInv, [Next]_vars
             PROVE  MuteInv'
  OBVIOUS
<1>1. CASE \E k \in Call : (Start(k) \/ Goes(k) \/ Killed(k) \/ GivesUp(k)) /\ Apart
  <2>1. PICK k \in Call : Start(k) \/ Goes(k) \/ Killed(k) \/ GivesUp(k)
    BY <1>1
  <2>2. CallsOK /\ SentOK /\ PageOK /\ \A j \in Call : FreshOK(j) /\ CallOK(j)
    BY DEF ToldInv, CallOK
  <2>3. Shaped(k)
    BY <2>1, <2>2, EveryStepShaped
  <2>4. job' = job /\ \A j \in Call \ {k} : Silent(j)
    BY <2>2, <2>3, ShapedEvolves DEF Evolves
  <2>5. Mute(k)'
    BY <2>1, <2>2, <2>4, MuteKeeps DEF MuteInv
  <2>6. ASSUME NEW j \in Call \ {k} PROVE Mute(j)'
    BY <2>4 DEF MuteInv, Mute, Silent
  <2> QED BY <2>5, <2>6 DEF MuteInv
<1>2. CASE UNCHANGED <<job, at, rescue, seen>>
  BY <1>2 DEF MuteInv, Mute
<1>3. CASE Abort
  BY <1>2, <1>3 DEF Abort, processVars
<1>4. CASE Happens
  BY <1>2, <1>4 DEF Happens, Cluster, World, processVars
<1>5. CASE UNCHANGED callVars
  BY <1>2, <1>5 DEF callVars, processVars
<1> QED BY <1>1, <1>3, <1>4, <1>5 DEF Next, vars

\* The exits that are done are then exactly one.
LEMMA OneExitFollows ==
    ASSUME ToldInv, MuteInv
    PROVE  SuccessIsOneExit
<1> SUFFICES ASSUME NEW k \in Call, <<"answer", "success">> \in seen[k]
             PROVE  Cardinality({n \in 1..Attempts : IsDone(k, n)}) = 1
  BY DEF SuccessIsOneExit
<1>1. job[k].cmd = "bulletproof"
  BY DEF MuteInv, Mute
<1>2. ~Unbegun(k)
  BY DEF Unbegun
<1>3. PICK n \in LpPool, a \in Nat \ {0} : Trying(k, n, a)
  BY <1>1, <1>2 DEF ToldInv, CallOK, BulletOK
<1>4. PICK i \in 1..Attempts : \A j \in Nat : IsDone(k, j) <=> j = i
  BY <1>3 DEF Trying, Balance
<1>5. {j \in 1..Attempts : IsDone(k, j)} = {i}
  BY <1>4, AttemptsAssumption
<1> QED BY <1>5, FS_Singleton

\* What the pages tell.
LEMMA ToldFollows ==
    ASSUME ToldInv, ContextInv, ChartInv
    PROVE  ToldIsTrue
<1>1. TypeOK
  <2>1. \A x \in pending : x.by \in Call
    BY DEF ToldInv, SentOK
  <2>2. \A z \in fate : z[2] \in Outcome /\ z[1].by \in Call
    BY DEF ToldInv, SentOK
  <2>3. ASSUME NEW k \in Call, NEW i \in DOMAIN todo[k], NEW x \in todo[k][i] PROVE x.by = k
    <3>1. Single(k, todo[k])
      BY DEF ToldInv, CallsOK
    <3>2. PICK y : todo[k] = <<{y}>> /\ Proper(k, y)
      BY <2>3, <3>1 DEF Single
    <3> QED BY <2>3, <3>2 DEF Proper
  <2>4. \A k \in Call : \A i \in DOMAIN built[k] : built[k][i].by = k
    BY DEF ToldInv, CallsOK, Sends, Proper
  <2>5. at \in [Call -> Place] /\ stage \in [Call -> {"ready", "sent"}] /\ round \in [Call -> Nat]
    BY DEF ToldInv, CallsOK
  <2>6. rescue \in [Call -> [Failures -> Place]]
    BY DEF ToldInv, CallsOK
  <2>7. /\ page.busy \in BOOLEAN /\ page.flag \in BOOLEAN
        /\ \A i \in DOMAIN page.rows :
              page.rows[i].status \in Status /\ {page.rows[i].listed, page.rows[i].by} \subseteq Call
        /\ page.newest \in Call \cup {"none"} /\ page.stopped \subseteq Call
    BY DEF ToldInv, PageOK, IsRow
  <2>8. /\ ctx.wallet \in Wallet \cup {"none"} /\ ctx.shown \in Shows
        /\ ctx.selected \in Shows \cup {"ALL"}
    BY DEF ContextInv, CtxType, CtxRecord, Choice
  <2>9. chart.token \in Token \cup {"none"} /\ DOMAIN chart.bars \subseteq Token
    BY DEF ChartInv
  <2> QED BY <2>1, <2>2, <2>3, <2>4, <2>5, <2>6, <2>7, <2>8, <2>9 DEF TypeOK
<1>2. ConfirmedRowIsDone
  BY DEF ToldInv, RowsOK, Settled, RowIsOwn, ConfirmedRowIsDone
<1>3. ToldMeansAccepted /\ PoolHasFiles
  BY DEF ToldInv, CallOK, LaunchOK, AllAccepted, Files, ToldMeansAccepted, PoolHasFiles
<1> QED BY <1>1, <1>2, <1>3 DEF ToldIsTrue

-----------------------------------------------------------------------------
(* The site as a whole.                                                    *)

SiteInv == ContextInv /\ ChartInv /\ BusyInv

\* The invariant of the flags, the pools and the chart.
LEMMA SiteInit == Init => SiteInv
  BY InputsAssumption, FreshContext, FreshChart, BusyInit DEF Init, SiteInv, Hook

LEMMA SiteStep == SiteInv /\ [Next]_vars => SiteInv'
<1> SUFFICES ASSUME SiteInv, [Next]_vars
             PROVE  SiteInv'
  OBVIOUS
<1> USE DEF SiteInv
<1>1. ASSUME NEW k \in Call, Start(k) \/ Goes(k) \/ Killed(k) \/ GivesUp(k), Apart
      PROVE  SiteInv'
  <2>1. ContextInv' /\ ChartInv'
    BY <1>1, ContextApart, ChartApart DEF Apart
  <2>2. BusyInv'
    <3>1. CASE Goes(k)
      BY <3>1, DammExitKeeps, BatchKeeps, LoopKeeps, ServerKeeps, LaunchKeeps, PositionKeeps, DeliveryKeeps
         DEF Goes, OnPage, Elsewhere, Carried, pageVars
    <3> QED BY <1>1, <3>1, StartKeeps, KilledKeeps, GivesUpKeeps
  <2> QED BY <2>1, <2>2
<1>2. CASE (Abort \/ Happens) /\ Apart
  <2>1. ContextInv' /\ ChartInv'
    BY <1>2, ContextApart, ChartApart DEF Apart
  <2>2. CASE Abort
    <3>1. UNCHANGED <<job, at, todo, rescue, seen>>
      BY <2>2 DEF Abort, processVars
    <3>2. DOMAIN page' = PageFields /\ page'.busy \in {page.busy, FALSE}
      BY <2>2 DEF Abort, BusyInv, Shape, PageFields
    <3> QED BY <2>1, <3>1, <3>2, BusyApart
  <2>3. CASE Happens
    <3>1. UNCHANGED <<job, at, todo, rescue, seen, page>>
      BY <2>3 DEF Happens, Cluster, World, processVars, pageVars
    <3> QED BY <2>1, <3>1, BusyApart DEF BusyInv, Shape
  <2> QED BY <1>2, <2>2, <2>3
<1>3. CASE UNCHANGED callVars /\ ((ContextStep /\ UNCHANGED chart) \/ (ChartStep /\ UNCHANGED ctx))
  <2>1. BusyInv'
    BY <1>3, BusyApart DEF callVars, processVars, pageVars, BusyInv, Shape
  <2> QED BY <1>3, <2>1, ContextStepKeeps, ChartStepKeeps, ContextApart, ChartApart
<1>4. CASE UNCHANGED vars
  BY <1>4, ContextApart, ChartApart, BusyApart DEF vars, callVars, processVars, pageVars, BusyInv, Shape
<1> QED
  <2>1. CASE \E k \in Call : (Start(k) \/ Goes(k) \/ Killed(k) \/ GivesUp(k)) /\ Apart
    <3>1. PICK k \in Call : (Start(k) \/ Goes(k) \/ Killed(k) \/ GivesUp(k)) /\ Apart
      BY <2>1
    <3> QED BY <1>1, <3>1
  <2>2. CASE (ContextStep /\ UNCHANGED <<callVars, chart>>) \/ (ChartStep /\ UNCHANGED <<callVars, ctx>>)
    <3>1. UNCHANGED callVars
      BY <2>2 DEF callVars
    <3>2. (ContextStep /\ UNCHANGED chart) \/ (ChartStep /\ UNCHANGED ctx)
      BY <2>2
    <3> QED BY <1>3, <3>1, <3>2
  <2>3. CASE (Abort \/ Happens) /\ Apart
    BY <1>2, <2>3
  <2>4. CASE UNCHANGED vars
    BY <1>4, <2>4
  <2> QED BY <2>1, <2>2, <2>3, <2>4 DEF Next

\* Once the pool context is quiet it shows the demo pools, or nothing without a
\* wallet, and a selection that is among what it shows (DbcPoolContext.tsx).
THEOREM QuietCorrect == Spec => []QuietMeansSettled
<1>1. SiteInv => QuietMeansSettled
  BY QuietFollows DEF SiteInv
<1> QED BY <1>1, SiteInit, SiteStep, PTL DEF Spec

\* The last candle of every token is well-formed and made of that token's trades,
\* whatever the stream sends and the library asks (TokenChartProvider.tsx,
\* bars.ts, datafeed.ts).
THEOREM BarCorrect == Spec => []BarIsSound
<1>1. SiteInv => BarIsSound
  BY SoundFollows DEF SiteInv
<1> QED BY <1>1, SiteInit, SiteStep, PTL DEF Spec

\* No flag outlives what it stands for: running and loading of the exit, batch
\* and launch hooks, loading of the pools, and the dead buttons of the marks.
THEOREM FlagsCorrect == Spec => []FlagsAreHonest
<1>1. BusyInv => BusyMeansRun
  <2> SUFFICES ASSUME BusyInv, NEW k \in Call, Holding(k)
               PROVE  \/ Running(k) /\ job[k].cmd \in Hooks
                      \/ Over(k) /\ job[k].cmd = "exitAll" /\ job[k].dry
    BY DEF BusyInv, BusyMeansRun
  <2> QED BY DEF Holding, ActiveAt, Running, Over, At, Hooks, InFlight
<1>2. SiteInv => FlagsAreHonest
  BY <1>1 DEF SiteInv, FlagsAreHonest, ContextInv, ChartInv
<1> QED BY <1>2, SiteInit, SiteStep, PTL DEF Spec

\* A row that says "confirmed" has a transaction that was executed, or could not be,
\* and it is the one of the row's own position or pool when its run listed it and
\* skipped none; what the form says was created a node has accepted, no tip is paid
\* otherwise, and a pool has its files; whatever calls run next to each other, fail
\* or are given up (the rows of useDammV2ExitAll.ts and useDbcAutoBatchExit.ts, the
\* form of create-pool.tsx).
THEOREM ToldCorrect == Spec => []ToldIsTrue
<1>1. Init => SiteInv /\ ToldInv
  BY SiteInit, ToldInit
<1>2. SiteInv /\ ToldInv /\ [Next]_vars => SiteInv' /\ ToldInv'
  BY SiteStep, ToldStep DEF SiteInv
<1>3. SiteInv /\ ToldInv => ToldIsTrue
  BY ToldFollows DEF SiteInv
<1> QED BY <1>1, <1>2, <1>3, PTL DEF Spec

\* executeBulletproofDbcExit (dbc-adapter.ts) answers success only for an exit that
\* was executed, and of all its attempts, late ones included, exactly one was.
THEOREM OneExitCorrect == Spec => []SuccessIsOneExit
<1>1. Init => SiteInv /\ ToldInv /\ MuteInv
  BY SiteInit, ToldInit, MuteInit
<1>2. SiteInv /\ ToldInv /\ MuteInv /\ [Next]_vars => SiteInv' /\ ToldInv' /\ MuteInv'
  BY SiteStep, ToldStep, MuteAll DEF SiteInv
<1>3. SiteInv /\ ToldInv /\ MuteInv => SuccessIsOneExit
  BY OneExitFollows
<1> QED BY <1>1, <1>2, <1>3, PTL DEF Spec
=============================================================================
