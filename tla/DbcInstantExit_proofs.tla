------------------------ MODULE DbcInstantExit_proofs ------------------------
(***************************************************************************)
(* What holds of DbcInstantExit for every number of calls, pools and       *)
(* attempts, every host and every answer of the route.                     *)
(***************************************************************************)
EXTENDS DbcInstantExit, FiniteSetTheorems, TLAPS

-----------------------------------------------------------------------------
(* The invariant.                                                          *)

\* The loop of a call: an attempt is running, the pause is never after the
\* last one, and nothing is settled before the end.
LoopOK ==
    \A c \in Call :
        /\ Live(c) => att[c] >= 1
        /\ pc[c] = "waiting" => att[c] < MaxAttempts
        /\ pc[c] # "done" => outcome[c] = "none"
TypeInv == TypeOK /\ LoopOK

\* Without abort and reset a live call keeps the status busy, hence is alone.
SoleHost == host.caller # "table" /\ host.controls = {}
Alone ==
    SoleHost => \A c \in Call : Live(c) =>
        /\ ui.status \in Busy
        /\ \A d \in Call : Live(d) => d = c
\* What the state shows of the call is its current transaction.
Linked ==
    SoleHost => \A c \in Call :
        pc[c] \in {"processed", "confirming"} => ui.sig = CurrentTx(c)

\* The batch loop: every pool of the scan is done, in a call, or still to do.
Thrown == {c \in Call : outcome[c] = "thrown"}
InCall == IF \E c \in Call : Live(c) THEN 1 ELSE 0
LoopAccounts ==
    /\ batch.at = "scanning" => batch.total = 0
    /\ batch.at = "looping" => batch.total = batch.done + Cardinality(todo) + InCall
    /\ batch.at = "off" /\ batch.total > 0 => todo = {} /\ batch.done = batch.total
BatchHost ==
    IF host.caller = "batch"
    THEN \A c \in Call : Live(c) =>
            /\ batch.at = "looping"
            /\ \A d \in Call : Live(d) => d = c
    ELSE batch = NoBatch
ErrorsCounted == IsFiniteSet(Thrown) /\ batch.errors <= Cardinality(Thrown)

HonestInv ==
    /\ TypeInv /\ BusyHasCall /\ Alone /\ Linked /\ SuccessLinkOnChain
    /\ BatchHost /\ LoopAccounts /\ ErrorsCounted

-----------------------------------------------------------------------------
(* What a step of a call does: it goes on, or its promise settles.         *)

UiType == [status : Status, attempt : 0..MaxAttempts, sig : Tx \cup {NoTx}]
Goes(c) ==
    /\ pc' = [pc EXCEPT ![c] = pc'[c]] /\ pc'[c] \in Place \ {"idle", "done"}
    /\ UNCHANGED <<outcome, batch>>
    /\ att' \in [Call -> 0..MaxAttempts]
    /\ \A d \in Call : att'[d] >= att[d] /\ (d # c => att'[d] = att[d])
    /\ pc'[c] = "waiting" => att'[c] < MaxAttempts
    /\ ui' \in UiType /\ ui'.status \in Busy \cup {ui.status}
    /\ pc'[c] \in {"processed", "confirming"} =>
          /\ att' = att
          /\ ui'.sig = CurrentTx(c) \/ (ui'.sig = ui.sig /\ pc[c] = "processed")
Settles(c, out) ==
    /\ pc' = [pc EXCEPT ![c] = "done"]
    /\ outcome' = [outcome EXCEPT ![c] = out]
    /\ batch' = Counted(out)
    /\ UNCHANGED att
    /\ ui' \in UiType /\ ui'.sig = ui.sig
    /\ \/ ui'.status = "error"
       \/ /\ ui'.status = "success" /\ out = "signature"
          /\ pc[c] = "confirming" /\ CurrentTx(c) \in OnChain
Outcomes == {"signature", "undefined", "thrown"}
Kept == UNCHANGED <<host, pool, opt, aborted, abortRef, todo, landed, reverted>>
Acts(c) == Live(c) /\ Kept /\ (Goes(c) \/ \E out \in Outcomes : Settles(c, out))

LEMMA UiFacts ==
    ASSUME TypeInv
    PROVE  /\ ui \in UiType
           /\ \A st \in Status :
                 /\ [ui EXCEPT !.status = st] \in UiType
                 /\ [ui EXCEPT !.status = st].status = st
                 /\ [ui EXCEPT !.status = st].sig = ui.sig
BY DEF TypeInv, TypeOK, UiType

LEMMA AttemptFailedActs ==
    ASSUME TypeInv, NEW c \in Call, NEW shown \in UiType,
           shown.status \in Busy \cup {ui.status}, shown.sig = ui.sig,
           AttemptFailed(c, shown)
    PROVE  Goes(c) \/ \E out \in Outcomes : Settles(c, out)
<1>1. /\ pc \in [Call -> Place] /\ att \in [Call -> 0..MaxAttempts] /\ MaxAttempts \in Nat
      /\ \A d \in Call : att[d] >= att[d]
  BY AttemptsAssumption DEF TypeInv, TypeOK
<1>2. /\ [shown EXCEPT !.status = "error"] \in UiType
      /\ [shown EXCEPT !.status = "error"].status = "error"
      /\ [shown EXCEPT !.status = "error"].sig = ui.sig
  BY DEF UiType, Status
<1>3. CASE ReturnAborted(c, shown)
  BY <1>2, <1>3 DEF ReturnAborted, Settle, Settles, Outcomes
<1>4. CASE Settle(c, "thrown", [shown EXCEPT !.status = "error"])
  BY <1>2, <1>4 DEF Settle, Settles, Outcomes
<1>5. CASE /\ ~aborted[c] /\ att[c] < MaxAttempts
           /\ pc' = [pc EXCEPT ![c] = "waiting"]
           /\ ui' = shown
           /\ UNCHANGED <<att, outcome, batch>>
  BY <1>1, <1>5 DEF Goes, Place
<1> QED BY <1>3, <1>4, <1>5 DEF AttemptFailed

LEMMA CallKeeps ==
    ASSUME NEW c \in Call, CallStep(c)
    PROVE  Live(c) /\ Kept
BY DEF CallStep, Simulated, Built, FetchFailed, Signed, SignRefused, Sent, SendFailed,
       Processed, Confirmed, ConfirmFailed, Retry, Live, Kept, batchVars, chainVars,
       Submit, SubmitUnanswered

LEMMA StepsOfCall ==
    ASSUME TypeInv, NEW c \in Call,
           pc'[c] \in Place \ {"idle", "done", "waiting"},
           pc' = [pc EXCEPT ![c] = pc'[c]],
           UNCHANGED <<att, outcome, batch>>,
           ui' \in UiType, ui'.status \in Busy \cup {ui.status},
           pc'[c] \in {"processed", "confirming"} =>
              ui'.sig = CurrentTx(c) \/ (ui'.sig = ui.sig /\ pc[c] = "processed")
    PROVE  Goes(c)
<1>1. /\ att \in [Call -> 0..MaxAttempts] /\ MaxAttempts \in Nat
      /\ \A d \in Call : att[d] >= att[d]
  BY AttemptsAssumption DEF TypeInv, TypeOK
<1> QED BY <1>1 DEF Goes

LEMMA CallActs ==
    ASSUME TypeInv, NEW c \in Call, CallStep(c)
    PROVE  Acts(c)
<1> DEFINE Moves == Goes(c) \/ \E out \in Outcomes : Settles(c, out)
<1>1. pc \in [Call -> Place] /\ att \in [Call -> 0..MaxAttempts] /\ MaxAttempts \in Nat
  BY AttemptsAssumption DEF TypeInv, TypeOK
<1>2. /\ ui \in UiType /\ ui.status \in Busy \cup {ui.status}
      /\ Busy \subseteq Status /\ {"error", "success"} \subseteq Status
  BY UiFacts DEF Busy, Status
<1>3. ASSUME Simulated(c) PROVE Moves
  <2>1. /\ pc' = [pc EXCEPT ![c] = "building"] /\ pc'[c] = "building"
        /\ UNCHANGED <<att, outcome, batch, ui>>
    BY <1>1, <1>3 DEF Simulated, batchVars
  <2> QED BY <1>2, <2>1, StepsOfCall DEF Place
<1>4. ASSUME Built(c) PROVE Moves
  <2>1. CASE /\ pc' = [pc EXCEPT ![c] = "signing"]
             /\ ui' = [ui EXCEPT !.status = "signing"]
             /\ UNCHANGED <<att, outcome, batch>>
    <3>1. pc'[c] = "signing" /\ ui' \in UiType /\ ui'.status = "signing"
      BY <1>1, <1>2, <2>1, UiFacts DEF Busy
    <3> QED BY <2>1, <3>1, StepsOfCall DEF Place, Busy
  <2>2. CASE AttemptFailed(c, [ui EXCEPT !.status = "signing"])
    <3>1. "signing" \in Busy
      BY DEF Busy
    <3> QED BY <1>2, <2>2, <3>1, UiFacts, AttemptFailedActs
  <2> QED BY <1>4, <2>1, <2>2 DEF Built
<1>5. ASSUME FetchFailed(c) PROVE Moves
  BY <1>2, <1>5, AttemptFailedActs DEF FetchFailed
<1>6. ASSUME Signed(c) PROVE Moves
  <2>1. /\ pc' = [pc EXCEPT ![c] = "sending"] /\ pc'[c] = "sending"
        /\ UNCHANGED <<att, outcome, batch>>
        /\ ui' \in UiType /\ ui'.status = "sending"
    BY <1>1, <1>2, <1>6, UiFacts DEF Signed, batchVars, Busy
  <2> QED BY <2>1, StepsOfCall DEF Place, Busy
<1>7. ASSUME SignRefused(c) PROVE Moves
  BY <1>2, <1>7, AttemptFailedActs DEF SignRefused
<1>8. ASSUME Sent(c) PROVE Moves
  <2>1. CurrentTx(c) \in Tx
    BY <1>1, <1>8 DEF Sent, TypeInv, LoopOK, CurrentTx, Tx, Live
  <2>2. ui' \in UiType /\ ui'.status = "confirming" /\ ui'.sig = CurrentTx(c)
    BY <1>2, <1>8, <2>1 DEF Sent, Busy, UiType
  <2>3. pc' = [pc EXCEPT ![c] = pc'[c]] /\ pc'[c] \in {"processed", "confirming"}
    BY <1>1, <1>8 DEF Sent
  <2>4. UNCHANGED <<att, outcome, batch>>
    BY <1>8 DEF Sent, batchVars
  <2> QED BY <2>2, <2>3, <2>4, StepsOfCall DEF Place, Busy
<1>9. ASSUME SendFailed(c) PROVE Moves
  BY <1>2, <1>9, AttemptFailedActs DEF SendFailed
<1>10. ASSUME Processed(c) PROVE Moves
  <2>1. /\ pc' = [pc EXCEPT ![c] = "confirming"] /\ pc'[c] = "confirming" /\ pc[c] = "processed"
        /\ UNCHANGED <<att, outcome, batch, ui>>
    BY <1>1, <1>10 DEF Processed, batchVars
  <2> QED BY <1>2, <2>1, StepsOfCall DEF Place
<1>11. ASSUME Confirmed(c) PROVE Moves
  BY <1>2, <1>11, UiFacts DEF Confirmed, Settle, Settles, Outcomes
<1>12. ASSUME ConfirmFailed(c) PROVE Moves
  BY <1>2, <1>12, AttemptFailedActs DEF ConfirmFailed
<1>13. ASSUME Retry(c) PROVE Moves
  <2>1. CASE ReturnAborted(c, ui)
    <3>1. Settles(c, "undefined")
      BY <1>2, <2>1, UiFacts DEF ReturnAborted, Settle, Settles
    <3> QED BY <3>1 DEF Outcomes
  <2>2. CASE NextAttempt(c) /\ UNCHANGED <<outcome, batch>>
    <3>1. att[c] + 1 \in 0..MaxAttempts /\ att[c] + 1 >= att[c]
      BY <1>1, <1>13 DEF Retry, TypeInv, LoopOK
    <3>2. ui' \in UiType /\ ui'.status = "building"
      BY <1>2, <2>2, <3>1 DEF NextAttempt, UiType, Busy
    <3>3. /\ pc' = [pc EXCEPT ![c] = pc'[c]] /\ pc'[c] \in {"simulating", "building"}
      BY <1>1, <2>2 DEF NextAttempt, FirstAwait
    <3>4. att' = [att EXCEPT ![c] = att[c] + 1]
      BY <2>2 DEF NextAttempt
    <3>5. /\ att' \in [Call -> 0..MaxAttempts] /\ att'[c] >= att[c]
          /\ \A d \in Call \ {c} : att'[d] = att[d]
      BY <1>1, <3>1, <3>4
    <3>6. \A d \in Call : att'[d] >= att[d] /\ (d # c => att'[d] = att[d])
      BY <1>1, <3>5
    <3>7. Goes(c)
      BY <2>2, <3>2, <3>3, <3>5, <3>6 DEF Goes, Place, Busy
    <3> QED BY <3>7
  <2> QED BY <1>13, <2>1, <2>2 DEF Retry
<1>14. Moves
  BY <1>3, <1>4, <1>5, <1>6, <1>7, <1>8, <1>9, <1>10, <1>11, <1>12, <1>13 DEF CallStep
<1> QED BY <1>14, CallKeeps DEF Acts

-----------------------------------------------------------------------------
(* The steps of the user and of the batch loop, in the same terms.         *)

Starts(c) ==
    /\ pc[c] = "idle"
    /\ pc' = [pc EXCEPT ![c] = pc'[c]] /\ pc'[c] \in {"simulating", "building"}
    /\ att' = [att EXCEPT ![c] = 1]
    /\ ui' = Fresh("building", 1)
    /\ UNCHANGED <<host, outcome, chainVars>>
BatchType == [at : {"off", "scanning", "looping"}, total : Nat, done : Nat, errors : Nat]
StaysPut ==
    /\ UNCHANGED <<host, callVars, batchVars, landed, reverted>>
    /\ "reset" \in host.controls \/ "abort" \in host.controls
    /\ ui'.status \notin Busy
Counts == UNCHANGED <<host, callVars, aborted, abortRef, ui, chainVars>>

LEMMA StartStarts ==
    ASSUME TypeOK, NEW c \in Call, NEW p, NEW o, Start(c, p, o), UNCHANGED host
    PROVE  Starts(c)
BY DEF TypeOK, Start, Starts, FirstAwait

LEMMA FreshUi ==
    /\ Fresh("building", 1) \in UiType /\ Fresh("building", 1).status = "building"
    /\ Fresh("idle", 0) \in UiType /\ Fresh("idle", 0).status = "idle"
<1>1. 1 \in 0..MaxAttempts /\ 0 \in 0..MaxAttempts
  BY AttemptsAssumption
<1> QED BY <1>1 DEF Fresh, UiType, Status, Busy

LEMMA TodoFacts ==
    ASSUME TypeOK
    PROVE  IsFiniteSet(todo) /\ Cardinality(todo) \in Nat
BY PoolsAssumption, FS_Subset, FS_CardinalityType DEF TypeOK

LEMMA CallSends ==
    ASSUME TypeInv, NEW c \in Call, CallStep(c)
    PROVE  /\ sent' \subseteq Tx /\ live' \subseteq Tx
           /\ sent' = sent \/ (pc[c] = "sending" /\ sent' = sent \cup {CurrentTx(c)})
<1>1. \/ UNCHANGED chainVars
      \/ pc[c] = "sending" /\ Submit(CurrentTx(c))
  BY DEF CallStep, Simulated, Built, FetchFailed, Signed, SignRefused, Sent, SendFailed,
         Processed, Confirmed, ConfirmFailed, Retry, SubmitUnanswered
<1>2. pc[c] = "sending" => CurrentTx(c) \in Tx
  BY AttemptsAssumption DEF TypeInv, TypeOK, LoopOK, CurrentTx, Tx, Live
<1> QED BY <1>1, <1>2 DEF TypeInv, TypeOK, Submit, chainVars

LEMMA TypeInit == Init => TypeInv
<1> SUFFICES ASSUME Init PROVE TypeInv
  OBVIOUS
<1>1. 0 \in 0..MaxAttempts /\ ui \in UiType
  BY AttemptsAssumption, FreshUi DEF Init
<1>2. TypeOK
  BY <1>1 DEF Init, TypeOK, Place, NoBatch, ChainInit, UiType
<1>3. LoopOK
  BY DEF Init, LoopOK, Live
<1> QED BY <1>2, <1>3 DEF TypeInv

LEMMA CallTypes ==
    ASSUME TypeInv, NEW c \in Call, CallStep(c)
    PROVE  TypeInv'
<1>1. Acts(c) /\ sent' \subseteq Tx /\ live' \subseteq Tx
  BY CallActs, CallSends
<1>2. Live(c) /\ Kept
  BY <1>1 DEF Acts
<1>3. CASE Goes(c)
  <2>1. /\ pc' \in [Call -> Place] /\ att' \in [Call -> 0..MaxAttempts] /\ ui' \in UiType
        /\ UNCHANGED <<outcome, batch>>
        /\ \A d \in Call \ {c} : pc'[d] = pc[d] /\ att'[d] = att[d]
        /\ pc'[c] = "waiting" => att'[c] < MaxAttempts
        /\ att'[c] >= att[c]
    BY <1>3 DEF Goes, TypeInv, TypeOK
  <2>2. TypeOK'
    BY <1>1, <1>2, <2>1 DEF TypeInv, TypeOK, Kept, UiType
  <2>3. att[c] \in Nat /\ att'[c] \in Nat /\ att[c] >= 1
    BY <1>2, <2>1 DEF TypeInv, TypeOK, LoopOK
  <2>4. LoopOK'
    BY <1>2, <2>1, <2>3 DEF TypeInv, LoopOK, Live
  <2> QED BY <2>2, <2>4 DEF TypeInv
<1>4. ASSUME NEW out \in Outcomes, Settles(c, out) PROVE TypeInv'
  <2>1. /\ pc' \in [Call -> Place] /\ att' = att /\ ui' \in UiType
        /\ outcome' \in [Call -> {"none", "signature", "undefined", "thrown"}]
        /\ \A d \in Call \ {c} : pc'[d] = pc[d] /\ outcome'[d] = outcome[d]
        /\ pc'[c] = "done"
    BY <1>4 DEF Settles, Outcomes, TypeInv, TypeOK, Place
  <2>2. batch' \in BatchType
    <3>1. batch \in BatchType /\ batch.done + 1 \in Nat /\ batch.errors + 1 \in Nat
      BY DEF BatchType, TypeInv, TypeOK
    <3>2. \/ batch' = batch
          \/ batch' = [batch EXCEPT !.done = batch.done + 1, !.errors = batch.errors + 1]
          \/ batch' = [batch EXCEPT !.done = batch.done + 1, !.errors = batch.errors]
      BY <1>4 DEF Settles, Counted
    <3> QED BY <3>1, <3>2 DEF BatchType
  <2>3. TypeOK'
    BY <1>1, <1>2, <2>1, <2>2 DEF TypeInv, TypeOK, Kept, UiType, BatchType
  <2>4. LoopOK'
    BY <2>1 DEF TypeInv, LoopOK, Live
  <2> QED BY <2>3, <2>4 DEF TypeInv
<1> QED BY <1>1, <1>3, <1>4 DEF Acts

LEMMA StartTypes ==
    ASSUME TypeInv, NEW c \in Call, NEW p \in Pool, NEW o \in Options \cup {NoOptions},
           Start(c, p, o), UNCHANGED host, batch' \in BatchType, todo' \subseteq Pool
    PROVE  TypeInv'
<1>1. Starts(c)
  BY StartStarts DEF TypeInv
<1>2. /\ pc' \in [Call -> Place] /\ att' \in [Call -> 0..MaxAttempts] /\ ui' \in UiType
      /\ \A d \in Call \ {c} : pc'[d] = pc[d] /\ att'[d] = att[d]
      /\ pc'[c] \in {"simulating", "building"} /\ att'[c] = 1 /\ outcome' = outcome
  BY <1>1, AttemptsAssumption, FreshUi DEF Starts, TypeInv, TypeOK, Place
<1>3. /\ pool' \in [Call -> Pool \cup {NoPool}] /\ opt' \in [Call -> Options \cup {NoOptions}]
      /\ abortRef' \in Call \cup {NoCall}
  BY DEF Start, TypeInv, TypeOK
<1>4. TypeOK'
  BY <1>2, <1>3 DEF TypeInv, TypeOK, Start, chainVars, UiType, BatchType
<1>5. LoopOK'
  BY <1>1, <1>2 DEF TypeInv, LoopOK, Live, Starts
<1> QED BY <1>4, <1>5 DEF TypeInv

LEMMA TypeStep == TypeInv /\ [Next]_vars => TypeInv'
<1> SUFFICES ASSUME TypeInv, [Next]_vars PROVE TypeInv'
  OBVIOUS
<1>0. batch \in BatchType /\ todo \subseteq Pool
  BY DEF TypeInv, TypeOK, BatchType
<1>1. ASSUME NEW c \in Call, CallStep(c) PROVE TypeInv'
  BY <1>1, CallTypes
<1>2. ASSUME NEW c \in Call, Click(c) \/ RowClick(c), UNCHANGED host PROVE TypeInv'
  <2>1. PICK p \in Pool, o \in Options \cup {NoOptions} : Start(c, p, o)
    BY <1>2 DEF Click, RowClick
  <2>2. UNCHANGED batchVars
    BY <1>2 DEF Click, RowClick
  <2> QED BY <1>0, <1>2, <2>1, <2>2, StartTypes DEF batchVars
<1>3. ASSUME NEW c \in Call, BatchCall(c), UNCHANGED host PROVE TypeInv'
  <2>1. PICK p \in todo, o \in Options : Start(c, p, o) /\ todo' = todo \ {p}
    BY <1>3 DEF BatchCall
  <2>2. batch' = batch
    BY <1>3 DEF BatchCall
  <2> QED BY <1>0, <1>3, <2>1, <2>2, StartTypes
<1>4. ASSUME BatchClick \/ BatchScanned \/ BatchScanFailed \/ BatchDone, UNCHANGED host
      PROVE  TypeInv'
  <2>1. batch' \in BatchType /\ todo' \subseteq Pool
    <3>1. CASE BatchScanned
      <4>1. PICK S \in SUBSET Pool :
              /\ todo' = S
              /\ batch' = IF S = {} THEN NoBatch
                          ELSE [NoBatch EXCEPT !.at = "looping", !.total = Cardinality(S)]
        BY Zenon, <3>1 DEF BatchScanned
      <4>2. Cardinality(S) \in Nat
        BY PoolsAssumption, FS_Subset, FS_CardinalityType
      <4> QED BY <4>1, <4>2 DEF NoBatch, BatchType
    <3> QED BY <1>0, <1>4, <3>1 DEF BatchClick, BatchScanFailed, BatchDone, NoBatch, BatchType
  <2>2. UNCHANGED <<host, callVars, aborted, abortRef, ui, chainVars>>
    BY Zenon, <1>4 DEF BatchClick, BatchScanned, BatchScanFailed, BatchDone
  <2> QED BY <2>1, <2>2 DEF TypeInv, TypeOK, LoopOK, Live, callVars, chainVars, BatchType
<1>5. ASSUME Abort \/ Reset, UNCHANGED host PROVE TypeInv'
  <2>1. ui' \in UiType
    BY <1>5, UiFacts, FreshUi DEF Abort, Reset, Status
  <2>2. aborted' \in [Call -> BOOLEAN] /\ abortRef' \in Call \cup {NoCall}
    BY ZenonT(60), <1>5 DEF Abort, Reset, TypeInv, TypeOK
  <2>3. UNCHANGED <<callVars, batchVars, chainVars>>
    BY <1>5 DEF Abort, Reset
  <2> QED BY <1>5, <2>1, <2>2, <2>3 DEF TypeInv, TypeOK, LoopOK, Live, callVars, batchVars, chainVars, UiType
<1>6. CASE ChainStep
  BY <1>6 DEF ChainStep, Land, Revert, Expire, callVars, batchVars, TypeInv, TypeOK, LoopOK, Live
<1>7. CASE UNCHANGED vars
  BY <1>7 DEF vars, callVars, batchVars, chainVars, TypeInv, TypeOK, LoopOK, Live
<1> QED
  BY <1>1, <1>2, <1>3, <1>4, <1>5, <1>6, <1>7 DEF Next, UserStep, BatchStep

-----------------------------------------------------------------------------
(* The invariant, one kind of step at a time.                              *)

Parts ==
    /\ BusyHasCall /\ Alone /\ Linked /\ SuccessLinkOnChain
    /\ BatchHost /\ LoopAccounts /\ ErrorsCounted

LEMMA HonestInit == Init => HonestInv
<1> SUFFICES ASSUME Init PROVE HonestInv
  OBVIOUS
<1>1. \A c \in Call : ~Live(c)
  BY DEF Init, Live
<1>2. BusyHasCall /\ Alone /\ Linked /\ SuccessLinkOnChain
  BY <1>1 DEF Init, BusyHasCall, Alone, Linked, SuccessLinkOnChain, Fresh, Busy
<1>3. BatchHost /\ LoopAccounts
  BY <1>1 DEF Init, BatchHost, LoopAccounts, NoBatch
<1>4. ErrorsCounted
  <2>1. Thrown = {}
    BY DEF Init, Thrown
  <2> QED BY <2>1, FS_EmptySet DEF Init, ErrorsCounted, NoBatch
<1> QED BY <1>2, <1>3, <1>4, TypeInit DEF HonestInv

LEMMA GoesKeeps ==
    ASSUME HonestInv, NEW c \in Call, Live(c), Kept, Goes(c)
    PROVE  Parts'
<1>1. /\ TypeInv /\ BusyHasCall /\ Alone /\ Linked /\ SuccessLinkOnChain
      /\ BatchHost /\ LoopAccounts /\ ErrorsCounted
      /\ pc \in [Call -> Place] /\ att \in [Call -> 0..MaxAttempts]
  BY DEF HonestInv, TypeInv, TypeOK
<1>2. /\ UNCHANGED <<host, todo, landed, reverted, outcome, batch>>
      /\ ui'.status \in Busy \cup {ui.status}
      /\ \A d \in Call \ {c} : pc'[d] = pc[d]
      /\ pc'[c] \in Place \ {"idle", "done"}
  BY <1>1 DEF Kept, Goes
<1>3. \A d \in Call : Live(d)' <=> Live(d)
  BY <1>2 DEF Live
<1>4. BusyHasCall'
  BY <1>2, <1>3 DEF BusyHasCall
<1>5. Alone'
  BY <1>1, <1>2, <1>3 DEF Alone, SoleHost
<1>6. Linked'
  <2> SUFFICES ASSUME SoleHost, NEW d \in Call, pc'[d] \in {"processed", "confirming"}
               PROVE  ui'.sig = CurrentTx(d)'
    BY <1>2 DEF Linked, SoleHost
  <2>1. d = c
    BY <1>1, <1>2 DEF Alone, Live
  <2>2. att' = att /\ (ui'.sig = CurrentTx(c) \/ (ui'.sig = ui.sig /\ pc[c] = "processed"))
    BY <2>1 DEF Goes
  <2> QED BY <1>1, <2>1, <2>2 DEF Linked, CurrentTx
<1>7. SuccessLinkOnChain'
  BY <1>1, <1>2 DEF SuccessLinkOnChain, Alone, SoleHost, Busy
<1>8. BatchHost'
  BY <1>1, <1>2, <1>3 DEF BatchHost
<1>9. LoopAccounts'
  <2>1. InCall' = InCall
    BY <1>3 DEF InCall
  <2> QED BY <1>1, <1>2, <2>1 DEF LoopAccounts
<1>10. ErrorsCounted'
  BY <1>1, <1>2 DEF ErrorsCounted, Thrown
<1> QED BY <1>4, <1>5, <1>6, <1>7, <1>8, <1>9, <1>10 DEF Parts

LEMMA SettlesKeeps ==
    ASSUME HonestInv, NEW c \in Call, NEW out \in Outcomes, Live(c), Kept, Settles(c, out)
    PROVE  Parts'
<1>1. /\ TypeInv /\ BusyHasCall /\ Alone /\ Linked /\ SuccessLinkOnChain
      /\ BatchHost /\ LoopAccounts /\ ErrorsCounted
      /\ pc \in [Call -> Place] /\ att \in [Call -> 0..MaxAttempts]
      /\ outcome \in [Call -> {"none", "signature", "undefined", "thrown"}]
      /\ outcome[c] = "none" /\ batch \in BatchType
  BY DEF HonestInv, TypeInv, TypeOK, LoopOK, Live, BatchType
<1>2. /\ UNCHANGED <<host, todo, landed, reverted, att>>
      /\ ui'.status \in {"error", "success"} /\ ui'.sig = ui.sig
      /\ \A d \in Call \ {c} : pc'[d] = pc[d] /\ outcome'[d] = outcome[d]
      /\ pc'[c] = "done" /\ outcome'[c] = out
  BY <1>1 DEF Kept, Settles
<1>3. \A d \in Call : Live(d)' <=> Live(d) /\ d # c
  BY <1>2 DEF Live
<1>4. BusyHasCall'
  BY <1>2 DEF BusyHasCall, Busy
<1>5. Alone'
  BY <1>1, <1>2, <1>3 DEF Alone, SoleHost
<1>6. Linked'
  <2> SUFFICES ASSUME SoleHost, NEW d \in Call, pc'[d] \in {"processed", "confirming"}
               PROVE  FALSE
    BY <1>2 DEF Linked, SoleHost
  <2> QED BY <1>1, <1>2, <1>3 DEF Alone, Live
<1>7. SuccessLinkOnChain'
  <2> SUFFICES ASSUME SoleHost, ui'.status = "success"
               PROVE  /\ ui.sig \in OnChain /\ outcome'[ui.sig.call] = "signature"
                      /\ ui.sig.att = att[ui.sig.call]
    BY <1>2 DEF SuccessLinkOnChain, SoleHost, OnChain
  <2>1. pc[c] = "confirming" /\ CurrentTx(c) \in OnChain /\ out = "signature"
    BY DEF Settles
  <2>2. ui.sig = CurrentTx(c)
    BY <1>1, <2>1 DEF Linked
  <2> QED BY <1>2, <2>1, <2>2 DEF CurrentTx
<1>8. \/ batch' = batch /\ host.caller # "batch"
      \/ /\ host.caller = "batch"
         /\ batch' = [batch EXCEPT !.done = batch.done + 1,
                                   !.errors = IF out = "thrown" THEN batch.errors + 1 ELSE batch.errors]
  BY DEF Settles, Counted
<1>9. /\ batch'.at = batch.at /\ batch'.total = batch.total
      /\ host.caller = "batch" => batch'.done = batch.done + 1
      /\ batch'.errors = IF host.caller = "batch" /\ out = "thrown"
                         THEN batch.errors + 1 ELSE batch.errors
  BY <1>1, <1>8 DEF BatchType
<1>10. BatchHost'
  BY <1>1, <1>2, <1>3, <1>8, <1>9 DEF BatchHost
<1>11. LoopAccounts'
  <2>1. CASE host.caller = "batch"
    <3>1. batch.at = "looping" /\ InCall = 1 /\ InCall' = 0
      BY <1>1, <1>3, <2>1 DEF BatchHost, InCall
    <3>2. Cardinality(todo) \in Nat /\ batch.done \in Nat
      BY <1>1, TodoFacts DEF TypeInv, BatchType
    <3>3. batch.total = batch.done + Cardinality(todo) + 1
      BY <1>1, <3>1 DEF LoopAccounts
    <3>4. batch'.total = batch'.done + Cardinality(todo) + 0
      BY <1>9, <2>1, <3>2, <3>3
    <3> QED BY <1>2, <1>9, <3>1, <3>4 DEF LoopAccounts
  <2>2. CASE host.caller # "batch"
    <3>1. batch' = NoBatch
      BY <1>1, <1>8, <2>2 DEF BatchHost
    <3> QED BY <3>1 DEF NoBatch, LoopAccounts
  <2> QED BY <2>1, <2>2
<1>12. ErrorsCounted'
  <2>1. CASE out = "thrown"
    <3>1. Thrown' = Thrown \cup {c} /\ c \notin Thrown
      BY <1>1, <1>2, <2>1 DEF Thrown
    <3>2. IsFiniteSet(Thrown') /\ Cardinality(Thrown') = Cardinality(Thrown) + 1
      BY <1>1, <3>1, FS_AddElement DEF ErrorsCounted
    <3>3. Cardinality(Thrown) \in Nat /\ batch.errors \in Nat /\ batch.errors <= Cardinality(Thrown)
      BY <1>1, FS_CardinalityType DEF ErrorsCounted, BatchType
    <3>4. batch'.errors <= Cardinality(Thrown')
      BY <1>9, <3>2, <3>3
    <3> QED BY <3>2, <3>4 DEF ErrorsCounted
  <2>2. CASE out # "thrown"
    <3>1. Thrown' = Thrown
      BY <1>1, <1>2, <2>2 DEF Thrown
    <3> QED BY <1>1, <1>9, <2>2, <3>1 DEF ErrorsCounted
  <2> QED BY <2>1, <2>2
<1> QED BY <1>4, <1>5, <1>6, <1>7, <1>10, <1>11, <1>12 DEF Parts

\* A new call: no other may be alive in a host that must be alone.
LEMMA StartKeeps ==
    ASSUME HonestInv, NEW c \in Call, Starts(c),
           SoleHost => \A d \in Call : ~Live(d)
    PROVE  BusyHasCall' /\ Alone' /\ Linked' /\ SuccessLinkOnChain'
<1>1. /\ pc \in [Call -> Place] /\ host' = host
      /\ \A d \in Call \ {c} : pc'[d] = pc[d]
      /\ pc'[c] \in {"simulating", "building"}
      /\ ui'.status = "building"
  BY FreshUi DEF HonestInv, TypeInv, TypeOK, Starts
<1>2. Live(c)'
  BY <1>1 DEF Live
<1>3. BusyHasCall'
  BY <1>2 DEF BusyHasCall
<1>4. Alone'
  BY <1>1 DEF Alone, SoleHost, Live, Busy
<1>5. Linked'
  BY <1>1 DEF Linked, SoleHost, Live
<1>6. SuccessLinkOnChain'
  BY <1>1 DEF SuccessLinkOnChain
<1> QED BY <1>3, <1>4, <1>5, <1>6

LEMMA ClickKeeps ==
    ASSUME HonestInv, NEW c \in Call, Click(c) \/ RowClick(c), UNCHANGED host
    PROVE  Parts'
<1>1. /\ TypeOK /\ Alone /\ BatchHost /\ LoopAccounts /\ ErrorsCounted
      /\ Starts(c) /\ host.caller # "batch" /\ UNCHANGED <<batch, todo, outcome>>
  BY StartStarts DEF HonestInv, TypeInv, Click, RowClick, Starts, batchVars
<1>2. SoleHost => \A d \in Call : ~Live(d)
  BY <1>1 DEF Alone, SoleHost, Click, RowClick, ButtonEnabled
<1>3. BatchHost' /\ ErrorsCounted'
  BY <1>1 DEF BatchHost, ErrorsCounted, Thrown, Starts
<1>4. LoopAccounts'
  BY <1>1 DEF BatchHost, LoopAccounts, NoBatch
<1> QED BY <1>1, <1>2, <1>3, <1>4, StartKeeps DEF Parts

LEMMA BatchCallKeeps ==
    ASSUME HonestInv, NEW c \in Call, BatchCall(c), UNCHANGED host
    PROVE  Parts'
<1>1. /\ TypeOK /\ BatchHost /\ LoopAccounts /\ ErrorsCounted
      /\ batch.at = "looping" /\ batch' = batch /\ host' = host
      /\ \A d \in Call : ~Live(d)
  BY DEF HonestInv, TypeInv, BatchCall
<1>2. PICK p \in todo : todo' = todo \ {p} /\ Starts(c)
  BY <1>1, StartStarts DEF BatchCall
<1>3. /\ pc \in [Call -> Place] /\ outcome' = outcome
      /\ \A d \in Call \ {c} : pc'[d] = pc[d]
      /\ pc'[c] \in {"simulating", "building"}
  BY <1>1, <1>2 DEF TypeOK, Starts
<1>4. Live(c)' /\ \A d \in Call : Live(d)' => d = c
  BY <1>1, <1>3 DEF Live
<1>5. BatchHost'
  BY <1>1, <1>4 DEF BatchHost
<1>6. LoopAccounts'
  <2>1. InCall = 0 /\ InCall' = 1
    BY <1>1, <1>4 DEF InCall
  <2>2. /\ IsFiniteSet(todo) /\ Cardinality(todo) \in Nat /\ batch.done \in Nat
        /\ Cardinality(todo') = Cardinality(todo) - 1
    BY <1>1, <1>2, TodoFacts, FS_RemoveElement DEF TypeOK
  <2>3. batch.total = batch.done + Cardinality(todo) + 0
    BY <1>1, <2>1 DEF LoopAccounts
  <2>4. batch.total = batch.done + Cardinality(todo') + 1
    BY <2>2, <2>3
  <2> QED BY <1>1, <2>1, <2>4 DEF LoopAccounts
<1>7. ErrorsCounted'
  BY <1>1, <1>3 DEF ErrorsCounted, Thrown
<1> QED BY <1>1, <1>2, <1>5, <1>6, <1>7, StartKeeps DEF Parts

\* The loop's own steps: they touch its counters only.
LEMMA LoopKeeps ==
    ASSUME HonestInv, BatchClick \/ BatchScanned \/ BatchScanFailed \/ BatchDone, UNCHANGED host
    PROVE  Parts'
<1>1. /\ TypeOK /\ TypeInv /\ BusyHasCall /\ Alone /\ Linked /\ SuccessLinkOnChain
      /\ BatchHost /\ LoopAccounts /\ ErrorsCounted /\ batch \in BatchType
  BY DEF HonestInv, TypeInv, TypeOK, BatchType
<1>2. UNCHANGED <<host, pc, outcome, att, ui, landed, reverted>>
  BY Zenon DEF BatchClick, BatchScanned, BatchScanFailed, BatchDone, callVars, chainVars
<1>3. BusyHasCall' /\ Alone' /\ Linked' /\ SuccessLinkOnChain'
  BY <1>1, <1>2 DEF BusyHasCall, Alone, Linked, SuccessLinkOnChain, SoleHost, Live, CurrentTx, OnChain
<1>4. host.caller = "batch" /\ \A c \in Call : ~Live(c)
  <2>1. batch.at # "off" \/ host.caller = "batch"
    BY Zenon DEF BatchClick, BatchScanned, BatchScanFailed, BatchDone
  <2>2. host.caller = "batch"
    BY <1>1, <2>1 DEF BatchHost, NoBatch
  <2>3. batch.at # "looping" \/ \A c \in Call : ~Live(c)
    BY Zenon DEF BatchClick, BatchScanned, BatchScanFailed, BatchDone, ButtonEnabled
  <2> QED BY <1>1, <2>2, <2>3 DEF BatchHost
<1>5. BatchHost'
  BY <1>2, <1>4 DEF BatchHost, Live
<1>6. batch'.errors \in {0, batch.errors} /\ 0 <= Cardinality(Thrown)
  <2>1. Cardinality(Thrown) \in Nat
    BY <1>1, FS_CardinalityType DEF ErrorsCounted
  <2>2. batch'.errors \in {0, batch.errors}
    <3>1. CASE BatchClick
      BY <3>1 DEF BatchClick, NoBatch
    <3>2. CASE BatchScanned
      <4>1. PICK S \in SUBSET Pool :
              batch' = IF S = {} THEN NoBatch
                       ELSE [NoBatch EXCEPT !.at = "looping", !.total = Cardinality(S)]
        BY Zenon, <3>2 DEF BatchScanned
      <4>2. NoBatch.errors = 0
            /\ [NoBatch EXCEPT !.at = "looping", !.total = Cardinality(S)].errors = 0
        BY DEF NoBatch
      <4> QED BY <4>1, <4>2
    <3>3. CASE BatchScanFailed \/ BatchDone
      BY <1>1, <3>3 DEF BatchScanFailed, BatchDone, BatchType
    <3> QED BY <3>1, <3>2, <3>3
  <2> QED BY <2>1, <2>2
<1>7. ErrorsCounted'
  BY <1>1, <1>2, <1>6 DEF ErrorsCounted, Thrown
<1>8. LoopAccounts'
  <2>1. InCall = 0 /\ InCall' = 0
    BY <1>2, <1>4 DEF InCall, Live
  <2>2. CASE BatchClick
    BY <2>2 DEF BatchClick, NoBatch, LoopAccounts
  <2>3. CASE BatchScanned
    <3>1. PICK S \in SUBSET Pool :
            /\ todo' = S
            /\ batch' = IF S = {} THEN NoBatch
                        ELSE [NoBatch EXCEPT !.at = "looping", !.total = Cardinality(S)]
      BY Zenon, <2>3 DEF BatchScanned
    <3>2. Cardinality(S) \in Nat
      BY PoolsAssumption, FS_Subset, FS_CardinalityType
    <3>3. Cardinality(S) = 0 + Cardinality(S) + 0
      BY <3>2
    <3> QED BY <2>1, <3>1, <3>3 DEF NoBatch, LoopAccounts
  <2>4. CASE BatchScanFailed
    BY <1>1, <2>4 DEF BatchScanFailed, BatchType, LoopAccounts
  <2>5. CASE BatchDone
    <3>1. todo' = todo /\ todo = {} /\ batch.at = "looping"
          /\ batch' = [batch EXCEPT !.at = "off"]
      BY <2>5 DEF BatchDone
    <3>2. Cardinality(todo) = 0 /\ batch.done \in Nat
      BY <1>1, <3>1, FS_EmptySet DEF BatchType
    <3>3. batch.total = batch.done
      <4>1. batch.total = batch.done + 0 + 0
        BY <1>1, <2>1, <3>1, <3>2 DEF LoopAccounts
      <4> QED BY <3>2, <4>1
    <3> QED BY <1>1, <3>1, <3>3 DEF BatchType, LoopAccounts
  <2> QED BY <2>2, <2>3, <2>4, <2>5
<1> QED BY <1>3, <1>5, <1>7, <1>8 DEF Parts

LEMMA HonestStep == HonestInv /\ [Next]_vars => HonestInv'
<1> SUFFICES ASSUME HonestInv, [Next]_vars PROVE HonestInv'
  OBVIOUS
<1>1. TypeInv /\ TypeInv' /\ TypeOK /\ Parts
  BY TypeStep DEF HonestInv, TypeInv, Parts
<1>2. ASSUME NEW c \in Call, CallStep(c) PROVE Parts'
  BY <1>1, <1>2, CallActs, GoesKeeps, SettlesKeeps DEF Acts
<1>3. ASSUME Abort \/ Reset, UNCHANGED host PROVE Parts'
  <2>1. /\ UNCHANGED <<host, pc, outcome, batch, todo>> /\ host.controls # {}
        /\ ui'.status \in {"idle", "error"}
    BY <1>1, <1>3, UiFacts, FreshUi DEF Abort, Reset, callVars, batchVars, Status
  <2>2. BusyHasCall' /\ Alone' /\ Linked' /\ SuccessLinkOnChain'
    BY <2>1 DEF BusyHasCall, Alone, Linked, SuccessLinkOnChain, SoleHost, Busy
  <2>3. BatchHost' /\ LoopAccounts' /\ ErrorsCounted'
    BY <1>1, <2>1 DEF Parts, BatchHost, LoopAccounts, ErrorsCounted, Thrown, InCall, Live
  <2> QED BY <2>2, <2>3 DEF Parts
<1>4. ASSUME UNCHANGED <<host, pc, outcome, att, ui, batch, todo>>,
             landed \subseteq landed', reverted \subseteq reverted'
      PROVE  Parts'
  <2>1. BusyHasCall' /\ Alone' /\ Linked' /\ SuccessLinkOnChain'
    BY <1>1, <1>4 DEF Parts, BusyHasCall, Alone, Linked, SuccessLinkOnChain, SoleHost, Live,
                      CurrentTx, OnChain
  <2>2. BatchHost' /\ LoopAccounts' /\ ErrorsCounted'
    BY <1>1, <1>4 DEF Parts, BatchHost, LoopAccounts, ErrorsCounted, Thrown, InCall, Live
  <2> QED BY <2>1, <2>2 DEF Parts
<1>5. ASSUME ChainStep PROVE Parts'
  BY <1>4, <1>5 DEF ChainStep, Land, Revert, Expire, callVars, batchVars
<1>6. ASSUME UNCHANGED vars PROVE Parts'
  BY <1>4, <1>6 DEF vars, callVars, batchVars, chainVars
<1>7. Parts'
  BY <1>2, <1>3, <1>5, <1>6, ClickKeeps, BatchCallKeeps, LoopKeeps DEF Next, UserStep, BatchStep
<1> QED BY <1>1, <1>7 DEF HonestInv, Parts

LEMMA HonestInvariant == Spec => []HonestInv
BY HonestInit, HonestStep, PTL DEF Spec

-----------------------------------------------------------------------------
\* Whatever a host shows of an exit or a batch is true: a busy status has a
\* call behind it, a success link is on chain, the counters add up.
THEOREM StatusCorrect == Spec => []StatusIsHonest
<1>1. HonestInv => StatusIsHonest
  <2> SUFFICES ASSUME HonestInv PROVE BatchAccounts
    BY DEF HonestInv, TypeInv, StatusIsHonest
  <2> QED BY DEF HonestInv, LoopAccounts, ErrorsCounted, Thrown, BatchAccounts
<1> QED BY <1>1, HonestInvariant, PTL

\* As the button uses the hook, two exits never run side by side.
THEOREM OneCallCorrect == Spec => []OneCallAtATime
<1>1. HonestInv => OneCallAtATime
  BY DEF HonestInv, Alone, SoleHost, OneCallAtATime
<1> QED BY <1>1, HonestInvariant, PTL

\* A call whose attempt is confirmed sends nothing more.
THEOREM NothingAfterSuccessCorrect == Spec => NothingAfterSuccess
<1>1. HonestInv /\ [Next]_vars
        => [\A x \in sent' \ sent : outcome[x.call] # "signature"]_vars
  <2> SUFFICES ASSUME HonestInv, Next, NEW x \in sent' \ sent
               PROVE  outcome[x.call] # "signature"
    OBVIOUS
  <2>1. PICK c \in Call : CallStep(c)
    BY Zenon DEF Next, UserStep, BatchStep, ChainStep, Abort, Reset, BatchClick, Click, RowClick,
           Start, BatchCall, BatchScanned, BatchScanFailed, BatchDone, Land, Revert, Expire, chainVars
  <2>2. pc[c] = "sending" /\ x = CurrentTx(c)
    BY <2>1, CallSends DEF HonestInv
  <2> QED BY <2>2 DEF HonestInv, TypeInv, LoopOK, CurrentTx
<1> QED BY <1>1, HonestInvariant, PTL DEF Spec, NothingAfterSuccess

\* An aborted call does not ask the wallet for a signature any more.
THEOREM AbortedCorrect == Spec => AbortedAsksNoSignature
<1>1. TypeInv /\ [Next]_vars
        => [\A c \in Call : aborted[c] /\ pc'[c] = "signing" => pc[c] = "signing"]_vars
  <2> SUFFICES ASSUME TypeInv, Next, NEW c \in Call, aborted[c], pc'[c] = "signing", pc[c] # "signing"
               PROVE  FALSE
    OBVIOUS
  <2>1. pc \in [Call -> Place]
    BY DEF TypeInv, TypeOK
  <2>2. pc' # pc
    OBVIOUS
  <2>3. CASE \E d \in Call : Click(d) \/ RowClick(d) \/ BatchCall(d)
    BY <2>1, <2>3 DEF Click, RowClick, BatchCall, Start, FirstAwait
  <2>4. ASSUME NEW d \in Call, CallStep(d) PROVE FALSE
    BY ZenonT(60), <2>1, <2>4
        DEF CallStep, Simulated, Built, FetchFailed, Signed, SignRefused, Sent, SendFailed,
         Processed, Confirmed, ConfirmFailed, Retry, AttemptFailed, ReturnAborted, Settle,
         NextAttempt, FirstAwait
  <2> QED BY Zenon, <2>2, <2>3, <2>4
      DEF Next, UserStep, BatchStep, ChainStep, Abort, Reset, BatchClick,
       BatchScanned, BatchScanFailed, BatchDone, callVars
<1> QED BY <1>1, TypeInit, TypeStep, PTL DEF Spec, AbortedAsksNoSignature
=============================================================================
