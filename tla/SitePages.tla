----------------------------- MODULE SitePages ------------------------------
(***************************************************************************)
(* What the exit and launch hooks of the site have in common.  A call is   *)
(* one run of a hook (or one request of a server that sends by itself); it *)
(* goes through Calls like a studio command, but what it reports is in the *)
(* React state of a page, which several runs share and which the runs see  *)
(* as it was when they were started.                                       *)
(***************************************************************************)
EXTENDS DammV2Positions

VARIABLES
    page,       \* the React state: busy, the rows, and how a run is aborted
    built       \* the transactions of each run, as the server has built them

pageVars == <<page, built>>

\* busy: running / loading / isLoading.  flag: abortFlag of useDammV2ExitAll.
\* newest, stopped: the AbortController of useDbcAutoBatchExit, and those aborted.
EmptyPage == [busy |-> FALSE, rows |-> <<>>, flag |-> FALSE, newest |-> "none", stopped |-> {}]
Status == {"built", "skipped", "pending", "signed", "confirmed", "error"}

\* A row: the position (or the pool) it is about, as the fact that this is there,
\* the run that listed it, and the run that wrote its status.
Row(k, of, status) == [of |-> of, listed |-> k, status |-> status, by |-> k]

\* Every exit transaction leaves a trace of itself when it is executed.
Done(k, i) == <<"done", k, i>>
IsDone(k, i) == Done(k, i) \in facts

Rest(k) == page' = [page EXCEPT !.busy = FALSE] /\ Return(k) /\ UNCHANGED built
SetRow(k, i, status) ==
    page' = [page EXCEPT !.rows =
        [j \in DOMAIN @ |-> IF j = i THEN [page.rows[j] EXCEPT !.status = status, !.by = k] ELSE @[j]]]
GotoRow(k, point, i) ==
    /\ Try(k, <<>>, point, Uncaught)
    /\ round' = [round EXCEPT ![k] = i]
    /\ UNCHANGED facts /\ Nothing

-----------------------------------------------------------------------------
(* The loops of both hooks over what they have signed: send a transaction, *)
(* wait for it, and note on the row of the same index how it went.         *)

Loops == {"exitAll", "batch"}

\* exitAll looks at the flag of the render its run came from; the batch at its
\* own controller.
Aborted(k) ==
    IF job[k].cmd = "exitAll" THEN <<"abortFlag", 0>> \in seen[k] ELSE k \in page.stopped

\* confirmTransaction resolves for a transaction that was executed in vain.
RowCatch == [CaughtAs("rowFailed") EXCEPT !.failed = "rowDone"]

SendRow(k) ==
    /\ At(k, "rows") /\ job[k].cmd \in Loops
    /\ ~Aborted(k) /\ round[k] \in DOMAIN built[k] /\ <<"unsigned", round[k]>> \notin seen[k]
    /\ Try(k, <<{built[k][round[k]]}>>, "rowDone", RowCatch)
    /\ IF job[k].cmd = "batch" THEN SetRow(k, round[k], "signed") ELSE UNCHANGED page
    /\ UNCHANGED <<facts, round, built>> /\ Nothing

RowIs(k, point, status) ==
    /\ At(k, point) /\ SetRow(k, round[k], status)
    /\ GotoRow(k, "rows", round[k] + 1) /\ UNCHANGED built
RowDone(k) == RowIs(k, "rowDone", "confirmed")
RowFailed(k) == RowIs(k, "rowFailed", "error")
RowUnsigned(k) ==
    /\ ~Aborted(k) /\ round[k] \in DOMAIN built[k] /\ <<"unsigned", round[k]>> \in seen[k]
    /\ job[k].cmd = "batch" /\ RowIs(k, "rows", "error")

\* The end of the list, or of patience: a run clears `running` whichever run
\* has raised it.
RowsEnd(k) ==
    /\ At(k, "rows") /\ job[k].cmd \in Loops
    /\ Aborted(k) \/ round[k] \notin DOMAIN built[k]
    /\ Rest(k) /\ Nothing

LoopStep(k) == SendRow(k) \/ RowDone(k) \/ RowFailed(k) \/ RowUnsigned(k) \/ RowsEnd(k)

\* The user aborts.
Abort ==
    /\ \/ /\ \E k \in Call : job[k].cmd = "exitAll"
          /\ page' = [page EXCEPT !.flag = TRUE]
       \/ /\ page.newest \in Call
          /\ page' = [page EXCEPT !.stopped = @ \cup {page.newest}, !.busy = FALSE]
    /\ UNCHANGED <<built, job, processVars, programVars>>

-----------------------------------------------------------------------------
\* The run made a transaction for each row: no position was skipped.
NoneSkipped(k) == DOMAIN built[k] = DOMAIN page.rows

\* A row says "confirmed" only when the transaction of this index, of the run
\* that says so, was executed, or failed because what it needs is not there; and
\* that transaction empties the row's own position, or claims the fee of its own
\* pool, if this run listed the row and skipped none.  The two exceptions are
\* the code's: rows are found by the index of the transaction, so that a skipped
\* position shifts them, and an older run writes on the list of a newer one.
ConfirmedRowIsDone ==
    \A i \in DOMAIN page.rows : page.rows[i].status = "confirmed" =>
       LET k == page.rows[i].by
       IN /\ i \in DOMAIN built[k]
          /\ IsDone(k, i) \/ ~(built[k][i].needs \subseteq facts)
          /\ page.rows[i].listed = k /\ NoneSkipped(k) => page.rows[i].of \in built[k][i].needs
=============================================================================
