---------------------------- MODULE MCSiteTools -----------------------------
(* Small instances of SiteTools.                                           *)
EXTENDS SiteTools, TLC

CONSTANTS k1, k2, p1, p2, n1, n2, u1, u2, u3, m1, m2, l1, l2, wa, wb, ta, tb

MCNewPosition == k1 :> n1 @@ k2 :> n2

Plain == [cmd |-> "none", dry |-> FALSE, owner |-> "wallet", after |-> {}, position |-> "any",
          percent |-> 100, field |-> TRUE, largestOnly |-> TRUE, route |-> "exit/build",
          buy |-> TRUE, reads |-> FALSE]
Does(c) == [Plain EXCEPT !.cmd = c]

Pair(a, b) == k1 :> a @@ k2 :> b
\* Two calls next to each other, or the second when the first is over.
Beside(as, bs, chains) == {[job |-> Pair(a, b), facts |-> c, hook |-> "none"] : a \in as, b \in bs, c \in chains}
Behind(as, bs, chains) == Beside(as, {[b EXCEPT !.after = {k1}] : b \in bs}, chains)

Mine(p) == {<<"open", p>>, <<"owner", p, "wallet">>}
\* Without a price there are no traders.
Positions == {<<"free", p1, u1>>, <<"free", p1, u2>>, <<"free", p2, u3>>} \cup Mine(p1) \cup Mine(p2)
OnePosition == {<<"price", 1>>, <<"free", p1, u1>>} \cup Mine(p1)
SomeVested == OnePosition \cup {<<"vested", p2, u3>>} \cup Mine(p2)

Part == [Does("exitOne") EXCEPT !.percent = 50]
DammInputs ==
    Beside({Does("exitAll")}, {Does("exitAll")}, {Positions})
    \cup Behind({[Does("exitAll") EXCEPT !.dry = TRUE]}, {Does("exitAll")}, {SomeVested})
    \cup Beside({Does("exitAll")}, {Does("remove"), Does("exitOne")}, {SomeVested})
    \cup Beside({Part, [Does("exitOne") EXCEPT !.position = p1]}, {Does("add"), Does("split")}, {OnePosition})

Lp == {<<"lp", l1, 1>>, <<"lp", l1, 2>>, <<"lp", l2, 1>>}
Routes == {[Does("removeLp") EXCEPT !.route = r, !.largestOnly = b] : r \in {"exit/build", "dammv2/exit"}, b \in BOOLEAN}
LpInputs ==
    Beside({Does("exitAuto")}, {Does("exitAuto"), Does("bulletproof")} \cup Routes, {Lp})
    \cup Beside({Does("bulletproof")}, {Does("bulletproof")}, {Lp})

Owing == {<<"holds", m1>>, <<"curve", m1>>, <<"due", m1>>, <<"holds", m2>>, <<"curve", m2>>, <<"due", m2>>}
OneMint == {<<"holds", m1>>, <<"curve", m1>>, <<"due", m1>>, <<"holds", m2>>}
BatchInputs ==
    Beside({Does("batch")}, {Does("batch"), Does("buildClaim")}, {OneMint})
    \cup Behind({[Does("batch") EXCEPT !.field = f] : f \in BOOLEAN}, {Does("batch")}, {OneMint})
    \cup Beside({Does("batch")}, {Plain}, {Owing})

Reading == [Does("bundle") EXCEPT !.reads = TRUE]
LaunchInputs ==
    Beside({Does("launch")}, {Does("launch"), [Does("launch") EXCEPT !.buy = FALSE]}, {{}})
    \cup Beside({Does("bundle"), Reading}, {Does("submitBundle"), Does("buildLaunch")}, {{}})

\* The page of a wallet that looks for its pools.
ScanInputs == {[job |-> Pair(Plain, Plain), facts |-> {}, hook |-> h] : h \in {"context", "discovery", "derived"}}

\* The page of a token.
ChartInputs == {[job |-> Pair(Plain, Plain), facts |-> {}, hook |-> "chart"]}
MCCandle == {[time |-> 0, price |-> 1], [time |-> 3, price |-> 2]}
Traded(t, time, price) == [token |-> t, time |-> time, price |-> price, valid |-> TRUE]
\* One trade, older or newer; another token's and one that is not drawn; two
\* intervals at once; out of order.
MCMessage ==
    {<<Traded(ta, 4, 1)>>, <<Traded(tb, 1, 3)>>,
     <<Traded(tb, 4, 3), [Traded(ta, 2, 3) EXCEPT !.valid = FALSE], Traded(ta, 2, 2)>>,
     <<Traded(ta, 2, 3), Traded(ta, 3, 1), Traded(ta, 5, 2)>>,
     <<Traded(ta, 4, 3), Traded(ta, 1, 1)>>,
     <<Traded(ta, 4, 2), Traded(ta, 2, 1), Traded(ta, 5, 3)>>}

MCInputs == DammInputs \cup LpInputs \cup BatchInputs \cup LaunchInputs \cup ScanInputs \cup ChartInputs
MCPartInputs == Beside({Part}, {Plain}, {Positions})
=============================================================================
