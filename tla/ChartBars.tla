----------------------------- MODULE ChartBars ------------------------------
(***************************************************************************)
(* The chart of the token page (contexts/TokenChartProvider.tsx with       *)
(* contexts/TokenChart/bars.ts, components/TokenChart/datafeed.ts and      *)
(* TokenChart.tsx): the last candle of each token, as a request for        *)
(* candles answers it and as the trades of the stream extend it, and the   *)
(* loading of the marks.                                                   *)
(*                                                                         *)
(* The charting library is external: it asks for candles and marks         *)
(* whenever it likes, of the token that is shown, at any interval.  Times  *)
(* and prices are small numbers; volumes, older candles, colours and the   *)
(* texts of marks are left out.                                            *)
(***************************************************************************)
EXTENDS Naturals, Sequences, FiniteSetsExt

CONSTANTS
    Token,
    Interval,   \* lengths of a candle
    Candle,     \* what the server answers: time and price of a last candle
    Message,    \* what the stream sends: sequences of trades
    Supply,     \* circSupply, the factor from prices to market caps
    MarkPages,  \* MAX_PAGES, 4 in the code
    Moves       \* bound: what the user, the library and the stream do

ASSUME ChartAssumption ==
    /\ Candle \subseteq [time : Nat, price : Nat]
    /\ Message \subseteq Seq([token : Token, time : Nat, price : Nat, valid : BOOLEAN])
    /\ Interval \subseteq Nat \ {0} /\ Supply \in Nat \ {0}
    /\ MarkPages \in Nat \ {0} /\ Moves \in Nat

VARIABLE chart

\* bars: the map from a token to its last candle, with the tokens it was made of
\* (history); asks: requests for candles under way; marks: getMarks under way,
\* with the traders still awaited.
NewChart(open) ==
    [open |-> open, token |-> "none", interval |-> CHOOSE i \in Interval : TRUE, unit |-> 1,
     bars |-> <<>>, asks |-> {}, dev |-> TRUE, user |-> TRUE, loading |-> FALSE,
     marks |-> {}, moves |-> 0]

Acts(new) == chart.open /\ chart.moves < Moves /\ chart' = [new EXCEPT !.moves = @ + 1]

IntervalStart(time, interval) == time - (time % interval)

\* The trades of a message that are drawn, by their place in it, and those of
\* them that make its first candle.
Drawn(trades, token) == {n \in DOMAIN trades : trades[n].token = token /\ trades[n].valid}
Begins(trades, n, interval) == IntervalStart(trades[n].time, interval)
InFirst(trades, drawn, interval) ==
    {n \in drawn : Begins(trades, n, interval) = Begins(trades, Min(drawn), interval)}
PricesAt(trades, places, unit) == {trades[n].price * unit : n \in places}
Closing(trades, places, unit) == trades[Max(places)].price * unit

\* What becomes of a candle by them: only the first candle they make is used,
\* and none is made when they go back behind it.
Opened(bar, time, prices, closing) ==
    LET all == prices \cup {bar.close}
    IN [bar EXCEPT !.time = time, !.open = bar.close, !.close = closing,
                   !.high = Max(all), !.low = Min(all)]
Merged(bar, prices, closing) ==
    [bar EXCEPT !.high = Max(prices \cup {@}), !.low = Min(prices \cup {@}), !.close = closing]
NextBar(bar, trades, drawn, interval, unit) ==
    LET start == Begins(trades, Min(drawn), interval)
        first == InFirst(trades, drawn, interval)
        prices == PricesAt(trades, first, unit)
        closing == Closing(trades, first, unit)
    IN IF start > Begins(trades, Max(drawn), interval) THEN bar
       ELSE IF start > bar.time THEN Opened(bar, start, prices, closing)
       ELSE Merged(bar, prices, closing)

\* The stream's handler: nothing is drawn before candles of the token are known.
Received ==
    \E m \in Message :
       LET t == chart.token
           drawn == Drawn(m, t)
           bar == NextBar(chart.bars[t], m, drawn, chart.interval, chart.unit)
       IN /\ t # "none" /\ drawn # {} /\ t \in DOMAIN chart.bars
          /\ Acts([chart EXCEPT !.bars[t] = [bar EXCEPT !.of = @ \cup {m[n].token : n \in drawn}]])

\* getBars: a first request for the candles of the token that is shown by then.
FreeAsk(n) == n \in 1..2 /\ \A a \in chart.asks : a.n # n
AskBars ==
    \E n \in 1..2, i \in Interval :
       /\ FreeAsk(n) /\ chart.token # "none"
       /\ Acts([chart EXCEPT !.asks = @ \cup
             {[n |-> n, token |-> chart.token, interval |-> i, unit |-> chart.unit]}])

\* Its last candle is kept under the token it was asked for.
Slip_KeyAfterAwait(a) == IF chart.token = "none" THEN a.token ELSE chart.token
KeyOf(a) == a.token
AskAnswered ==
    \E a \in chart.asks, c \in Candle :
       LET price == c.price * a.unit
           bar == [time |-> IntervalStart(c.time, a.interval), open |-> price, high |-> price,
                   low |-> price, close |-> price, of |-> {a.token}]
       IN chart' = [chart EXCEPT !.asks = @ \ {a},
                      !.bars = [t \in DOMAIN @ \cup {KeyOf(a)} |-> IF t = KeyOf(a) THEN bar ELSE @[t]]]

\* It fails, or there are no candles.
AskFailed == \E a \in chart.asks : chart' = [chart EXCEPT !.asks = @ \ {a}]

\* The router shows another token, or none while its data is loaded.
ShowToken == \E t \in Token \cup {"none"} : t # chart.token /\ Acts([chart EXCEPT !.token = t])

\* The buttons and the interval menu; the candles they ask for anew are an AskBars.
ToggleType == Acts([chart EXCEPT !.unit = IF @ = 1 THEN Supply ELSE 1])
ChangeInterval == \E i \in Interval : i # chart.interval /\ Acts([chart EXCEPT !.interval = i])
ToggleMarks ==
    /\ ~chart.loading
    /\ \/ Acts([chart EXCEPT !.dev = ~@])
       \/ Acts([chart EXCEPT !.user = ~@])

\* getMarks: of the token's maker and of the connected wallet, if there are such
\* and they are to be shown.
Traders == {x \in {"dev", "user"} : chart[x]}
MarksAsked(n, who) ==
    IF who = {} THEN chart
    ELSE [chart EXCEPT !.loading = TRUE, !.marks = @ \cup {[n |-> n, who |-> who, page |-> 1]}]
AskMarks ==
    \E n \in 1..2 : \E who \in SUBSET Traders :
       /\ chart.token # "none" /\ \A g \in chart.marks : g.n # n
       /\ Acts(MarksAsked(n, who))

\* One trader's marks are there or refused; the last one lowers the flag, also
\* while a later getMarks is under way.
MarksEnd(g, x) ==
    chart' = IF g.who = {x} THEN [chart EXCEPT !.marks = @ \ {g}, !.loading = FALSE]
             ELSE [chart EXCEPT !.marks = (@ \ {g}) \cup {[g EXCEPT !.who = @ \ {x}]}]

\* The wallet's trades come in pages, at most MarkPages of them.
NextPage(g) ==
    /\ "user" \in g.who /\ g.page < MarkPages
    /\ chart' = [chart EXCEPT !.marks = (@ \ {g}) \cup {[g EXCEPT !.page = @ + 1]}]
MarksAnswered == \E g \in chart.marks : NextPage(g) \/ \E x \in g.who : MarksEnd(g, x)

ChartStep ==
    \/ ShowToken \/ AskBars \/ AskAnswered \/ AskFailed \/ Received
    \/ ToggleType \/ ChangeInterval \/ ToggleMarks \/ AskMarks \/ MarksAnswered

-----------------------------------------------------------------------------
\* Open and close lie within every candle, whatever its trades were: older than
\* it, out of order, intervals apart, or in another unit than before.
BarIsWellFormed ==
    \A t \in DOMAIN chart.bars :
       LET bar == chart.bars[t] IN
       bar.low <= bar.open /\ bar.low <= bar.close /\ bar.open <= bar.high /\ bar.close <= bar.high

\* A token's candle is made of its own candles and trades only, although the
\* token that is shown changes while its candles are requested.
BarOfItsToken == \A t \in DOMAIN chart.bars : chart.bars[t].of = {t}

\* What is drawn as the last candle of a token is one, and that token's.
BarIsSound == BarIsWellFormed /\ BarOfItsToken

\* The buttons of the marks do not stay dead: while they are, a load is under way
\* whose end wakes them, however many overlap.
DeadButtonsMeanLoad == chart.loading => chart.marks # {}
=============================================================================
