-------------------------- MODULE DammV2Positions ---------------------------
(***************************************************************************)
(* The DAMM v2 position commands of the studio                             *)
(* (studio/src/lib/damm_v2/index.ts): split a position, claim its fee, add *)
(* liquidity to it, remove all of it and close it.  Each of them lists the *)
(* wallet's positions of one pool, takes the only one or asks the operator *)
(* which, and then works from what it has read.                            *)
(*                                                                         *)
(* A position is the facts about its id: "open", "owner", its liquidity in *)
(* units (<<"free" | "vested" | "locked", position, unit>>) and whether a  *)
(* fee is unclaimed.  The price stands for sqrtPrice and for everything a  *)
(* quote is computed from.                                                 *)
(***************************************************************************)
EXTENDS Calls

CONSTANTS
    Position,       \* positions there may be
    Unit,           \* units of liquidity
    NewPosition     \* [Call -> Position]: the key pair a split generates

\* A key pair is generated once.
ASSUME PositionAssumption ==
    /\ IsFiniteSet(Position) /\ NewPosition \in [Call -> Position]
    /\ \A k, j \in Call : NewPosition[k] = NewPosition[j] => k = j

PositionPlaces == {"positions", "chosen", "findSecond", "refetch", "remains", "verified"}

Price == 1..2
Prices == {<<"price", q>> : q \in Price}
Liquidity(p) == {"free", "vested", "locked"} \X {p} \X Unit
State(p) == Liquidity(p) \cup {<<"open", p>>, <<"fee", p>>}
Free(p, from) == {f \in from : f[1] = "free" /\ f[2] = p}
Vested(p, from) == {f \in from : f[1] = "vested" /\ f[2] = p}
HasLiquidity(p, from) == Liquidity(p) \cap from # {}

\* sqrtPrice of the pool state, and the position, as this call has read them.
Shown(k) == CHOOSE q \in Price : <<"price", q>> \in seen[k]
Chosen(k) == CHOOSE p \in Position : <<"chosen", p>> \in seen[k]

getUserPositionByPool(owner) ==
    {p \in Position : <<"open", p>> \in facts /\ <<"owner", p, owner>> \in facts}

-----------------------------------------------------------------------------
(* What the commands send.                                                 *)

OnOpen(k, op, p) == [Bare(k, op) EXCEPT !.needs = {<<"open", p>>}]

\* Made for good under dryRun too, and without preflight.
createPosition(k) ==
    [Creates(k, "createPosition", {}, {<<"open", NewPosition[k]>>})
        EXCEPT !.makes = @ \cup {<<"owner", NewPosition[k], job[k].owner>>},
               !.blind = TRUE, !.real = TRUE]
SplitTx(k, p) ==
    [OnOpen(k, "splitPosition", p) EXCEPT !.needs = @ \cup {<<"open", NewPosition[k]>>},
                                          !.makes = {<<"split", p, NewPosition[k]>>}]
ClaimTx(k, p) == [OnOpen(k, "claimPositionFee", p) EXCEPT !.drops = {<<"fee", p>>}]

\* Both amounts of the deposit quote are the most that may be paid, and both
\* amounts of the withdraw quote the least that must come out: with no slippage
\* allowed the transaction holds at the quoted price only.
Slip_AnyPrice(k, tx) == tx
AtQuote(k, tx) == [tx EXCEPT !.needs = @ \cup {<<"price", Shown(k)>>}]

AddTx(k, p) ==
    AtQuote(k, [OnOpen(k, "addLiquidity", p) EXCEPT !.makes = {<<"free", p, k>>}])
\* All the liquidity read as unlocked or vested; the vested part must be due.
RemoveTx(k, p) ==
    LET amount == Free(p, seen[k]) \cup Vested(p, seen[k])
    IN AtQuote(k, [OnOpen(k, "removeLiquidity", p) EXCEPT
            !.needs = @ \cup amount
                        \cup (IF Vested(p, seen[k]) = {} THEN {} ELSE {<<"matured", 0>>}),
            !.drops = amount])
CloseTx(k, p) ==
    [OnOpen(k, "closePosition", p) EXCEPT
        !.without = State(p) \ {<<"open", p>>}, !.drops = {<<"open", p>>}]

-----------------------------------------------------------------------------
(* The commands.                                                           *)

\* fetchPoolState
FetchPool(k) ==
    /\ At(k, "position") /\ Read(k, Prices)
    /\ Goto(k, "positions")

NoPosition(k) ==
    /\ At(k, "positions") /\ Nothing
    /\ getUserPositionByPool("wallet") = {}
    /\ Return(k)

\* The only position, or the one the operator selects from the list.
ChoosePosition(k) ==
    /\ At(k, "positions")
    /\ \E p \in getUserPositionByPool("wallet") : Keep(k, {<<"chosen", p>>})
    /\ Goto(k, "chosen")

Doing(k, command, point) == job[k].cmd = command /\ At(k, point)

\* splitPosition: the second position is created first,
SplitCreate(k) ==
    /\ Doing(k, "split", "chosen") /\ Nothing
    /\ Send(k, <<{createPosition(k)}>>, "findSecond")

\* then looked up among the positions of its owner, and only then filled.
SplitPosition(k) ==
    /\ Doing(k, "split", "findSecond")
    /\ Read(k, {<<"open", NewPosition[k]>>})
    /\ IF NewPosition[k] \in getUserPositionByPool(job[k].owner)
       THEN Send(k, <<{SplitTx(k, Chosen(k))}>>, "returned")
       ELSE Goto(k, "stopped")

ClaimPositionFee(k) ==
    /\ Doing(k, "claimFee", "chosen") /\ Nothing
    /\ Send(k, <<{ClaimTx(k, Chosen(k))}>>, "returned")

AddLiquidity(k) ==
    /\ Doing(k, "add", "chosen") /\ Nothing
    /\ Send(k, <<{AddTx(k, Chosen(k))}>>, "refetch")

\* fetchPositionState throws when the position is gone.
Refetch(k) ==
    /\ Doing(k, "add", "refetch")
    /\ Read(k, State(Chosen(k)))
    /\ Goto(k, IF <<"open", Chosen(k)>> \in facts THEN "returned" ELSE "stopped")

PositionGone(k) ==
    /\ At(k, "chosen") \/ At(k, "remains") \/ At(k, "verified")
    /\ job[k].cmd \in {"remove", "close"}
    /\ <<"open", Chosen(k)>> \notin facts
    /\ Nothing /\ Goto(k, "stopped")

\* removeLiquidity reads the position again before it takes all there is.
RemoveLiquidity(k) ==
    /\ Doing(k, "remove", "chosen")
    /\ LET p == Chosen(k) IN
         /\ <<"open", p>> \in facts
         /\ Read(k, State(p))
         /\ IF Free(p, facts) \cup Vested(p, facts) = {} THEN Return(k)
            ELSE Goto(k, "quoted")
RemoveQuoted(k) ==
    /\ Doing(k, "remove", "quoted") /\ Nothing
    /\ Send(k, <<{RemoveTx(k, Chosen(k))}>>, "remains")

\* The position is read again; of a fee, which is claimed at once, nothing is kept.
ReadButFee(k, p) ==
    seen' = [seen EXCEPT ![k] = (@ \ State(p)) \cup ((State(p) \ {<<"fee", p>>}) \cap facts)]

\* What is left decides: liquidity keeps the position open (a dry run ends
\* here), a fee is claimed before the position is closed.
Slip_FeeForgotten(k) ==
    /\ Doing(k, "remove", "remains")
    /\ LET p == Chosen(k) IN
         /\ <<"open", p>> \in facts
         /\ Read(k, State(p))
         /\ IF HasLiquidity(p, facts) THEN Return(k) ELSE Goto(k, "verified")
RemoveRemains(k) ==
    /\ Doing(k, "remove", "remains")
    /\ LET p == Chosen(k) IN
         /\ <<"open", p>> \in facts
         /\ ReadButFee(k, p)
         /\ IF HasLiquidity(p, facts) THEN Return(k)
            ELSE Send(k, IF <<"fee", p>> \in facts THEN <<{ClaimTx(k, p)}>> ELSE <<>>, "verified")

\* The state after the claim is only printed.
RemoveClose(k) ==
    /\ Doing(k, "remove", "verified") /\ Nothing
    /\ <<"open", Chosen(k)>> \in facts
    /\ Send(k, <<{CloseTx(k, Chosen(k))}>>, "returned")

ClosePosition(k) ==
    /\ Doing(k, "close", "chosen")
    /\ LET p == Chosen(k) IN
         /\ <<"open", p>> \in facts
         /\ Read(k, State(p))
         /\ IF HasLiquidity(p, facts) \/ <<"fee", p>> \in facts THEN Return(k)
            ELSE Send(k, <<{CloseTx(k, p)}>>, "returned")

PositionStep(k) ==
    \/ FetchPool(k) \/ NoPosition(k) \/ ChoosePosition(k) \/ PositionGone(k)
    \/ SplitCreate(k) \/ SplitPosition(k) \/ ClaimPositionFee(k) \/ AddLiquidity(k) \/ Refetch(k)
    \/ RemoveLiquidity(k) \/ RemoveQuoted(k) \/ RemoveRemains(k) \/ RemoveClose(k) \/ ClosePosition(k)

-----------------------------------------------------------------------------
\* Liquidity is added and removed at the price the operator was shown, also
\* when traders move it between the read and the execution.
TradedAsShown ==
    \A f \in facts : f[1] = "traded" => <<"price", f[3]>> \in seen[f[2]]

\* What the call knows already and what speaks for or against its transaction.
Surprised(k, x) ==
    \/ (x.needs \cap seen[k]) \ facts # {}
    \/ (x.without \cap facts) \ seen[k] # {}
    \/ <<"open", Chosen(k)>> \notin facts

\* A position command is refused only because a trader, another call or one of
\* its own late transactions changed what it had read, or because it counts
\* vested liquidity that is not due yet as removable: never because it does its
\* own steps in an order the program cannot accept.
PositionRefusedForNews ==
    [][\A k \in Call : Refused(k) /\ job[k].cmd \in {"split", "claimFee", "add", "remove", "close"} =>
          \E x \in Batch(k) : ~Fits(x) /\ (Surprised(k, x) \/ <<"matured", 0>> \in x.needs \ facts)]_<<facts, processVars>>
=============================================================================
