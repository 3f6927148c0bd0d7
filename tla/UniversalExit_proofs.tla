------------------------ MODULE UniversalExit_proofs ------------------------
(***************************************************************************)
(* What holds of UniversalExit for every wallet, number of variants and    *)
(* number of overlapping calls of run(), and what holds beyond that when the*)
(* calls of a user do not overlap.                                         *)
(***************************************************************************)
EXTENDS UniversalExit, FiniteSetTheorems, SequenceTheorems, TLAPS

-----------------------------------------------------------------------------
(* Lists: what the helpers on plans and rows return.                       *)

LEMMA FunctionIsSeq ==
    ASSUME NEW S, NEW n \in Nat, NEW s \in [1..n -> S]
    PROVE  s \in Seq(S)
BY SeqDef

LEMMA PlanIsSeq ==
    ASSUME NEW S \in SUBSET Task, NEW s \in Plans(S)
    PROVE  s \in Seq(Task) /\ IsPlan(s)
<1>1. IsFiniteSet(S)
  BY TasksAssumption, FS_Subset
<1>2. Cardinality(S) \in Nat
  BY <1>1, FS_CardinalityType
<1>3. s \in [1..Cardinality(S) -> Task]
  BY DEF Plans
<1>4. s \in Seq(Task)
  BY <1>2, <1>3, FunctionIsSeq
<1> QED BY <1>4 DEF Plans

LEMMA RowsStayRows ==
    ASSUME NEW items \in Seq(Item), NEW i \in Int, NEW st \in Status, NEW x \in Tx
    PROVE  /\ SetStatus(items, i, st) \in Seq(Item)
           /\ SetSent(items, i, x) \in Seq(Item)
<1>1. DOMAIN items = 1..Len(items) /\ Len(items) \in Nat
  OBVIOUS
<1>2. \A k \in DOMAIN items : items[k] \in Item
  BY <1>1
<1>3. \A it \in Item : [it EXCEPT !.status = st] \in Item
  BY DEF Item
<1>4. \A it \in Item : [it EXCEPT !.status = "sent", !.sig = x] \in Item
  BY DEF Item, Status
<1>5. SetStatus(items, i, st) \in [1..Len(items) -> Item]
  BY <1>1, <1>2, <1>3 DEF SetStatus
<1>6. SetSent(items, i, x) \in [1..Len(items) -> Item]
  BY Zenon, <1>1, <1>2, <1>4 DEF SetSent
<1> QED BY <1>1, <1>5, <1>6, FunctionIsSeq

LEMMA MarkedRowsAreRows ==
    ASSUME NEW items \in Seq(Item), NEW i \in Int, NEW j \in Int
    PROVE  MarkRefused(items, i, j) \in Seq(Item)
<1>1. DOMAIN items = 1..Len(items) /\ Len(items) \in Nat
  OBVIOUS
<1>2. \A k \in DOMAIN items : items[k] \in Item
  BY <1>1
<1>3. \A it \in Item : [it EXCEPT !.status = "error"] \in Item
  BY DEF Item, Status
<1>4. MarkRefused(items, i, j) \in [1..Len(items) -> Item]
  BY <1>1, <1>2, <1>3 DEF MarkRefused
<1> QED BY <1>1, <1>4, FunctionIsSeq

LEMMA FreshIsRows ==
    ASSUME NEW s \in Seq(Task)
    PROVE  Fresh(s) \in Seq(Item)
<1>1. DOMAIN s = 1..Len(s) /\ Len(s) \in Nat
  OBVIOUS
<1>2. \A k \in DOMAIN s : [task |-> s[k], status |-> "pending", sig |-> NoTx] \in Item
  BY <1>1 DEF Item, Status
<1>3. Fresh(s) \in [1..Len(s) -> Item]
  BY <1>1, <1>2 DEF Fresh
<1> QED BY <1>1, <1>3, FunctionIsSeq

LEMMA AttemptsBound ==
    ASSUME NEW t
    PROVE  Attempts(t) \in 1..MaxVariants
BY VariantsAssumption DEF Attempts

-----------------------------------------------------------------------------
(* Type correctness needs one fact more: while a call works on an item,    *)
(* its loop counter is a valid index of its own plan.                      *)

AtItem(r) == pc[r] \in {"sign", "send", "confirm"}
IndexOK == \A r \in Run : AtItem(r) => idx[r] \in 1..Len(plan[r])
TypeInv == TypeOK /\ IndexOK

LEMMA CurrentTxType ==
    ASSUME TypeInv, NEW r \in Run, AtItem(r)
    PROVE  TaskAt(r) \in Task /\ CurrentTx(r) \in Tx
<1>1. plan[r] \in Seq(Task) /\ idx[r] \in 1..Len(plan[r]) /\ att[r] \in 1..MaxVariants
  BY DEF TypeInv, TypeOK, IndexOK
<1>2. TaskAt(r) \in Task
  BY <1>1 DEF TaskAt
<1> QED BY <1>1, <1>2 DEF CurrentTx, Tx

-----------------------------------------------------------------------------
(* The three ways a call can resume, as the proofs below use them.         *)

Ended(r) ==
    /\ pc' = [pc EXCEPT ![r] = "done"]
    /\ \E its \in Seq(Item) : ui' = Finally(its)
    /\ UNCHANGED <<idx, att>>
Moved(r, i) ==
    /\ ~aborted[r]
    /\ pc' = [pc EXCEPT ![r] = "sign"]
    /\ \E n \in 1..Len(plan[r]) : n > i /\ idx' = [idx EXCEPT ![r] = n]
    /\ att' = [att EXCEPT ![r] = 1]
    /\ \E its \in Seq(Item) : ui' = [ui EXCEPT !.items = its]
Retried(r) ==
    /\ AtItem(r)
    /\ pc' = [pc EXCEPT ![r] = "sign"]
    /\ att[r] + 1 \in 1..MaxVariants
    /\ att' = [att EXCEPT ![r] = @ + 1]
    /\ UNCHANGED <<idx, ui>>
Resumed(r, i) == Ended(r) \/ Moved(r, i) \/ Retried(r)

LEMMA GoOnOutcome ==
    ASSUME TypeInv, NEW r \in Run, NEW i \in Nat, NEW refs, NEW items \in Seq(Item),
           GoOn(r, i, refs, items)
    PROVE  Ended(r) \/ Moved(r, i)
<1>1. Len(plan[r]) \in Nat
  BY DEF TypeInv, TypeOK
<1>2. CASE StopHere(r) /\ Leave(r, items)
  BY <1>2 DEF Leave, Ended
<1>3. CASE ~StopHere(r)
  <2>1. PICK n \in (i + 1)..(Len(plan[r]) + 1) :
          LET marked == MarkRefused(items, i + 1, n - 1) IN
          \/ n > Len(plan[r]) /\ Leave(r, marked)
          \/ /\ n <= Len(plan[r])
             /\ pc' = [pc EXCEPT ![r] = "sign"]
             /\ idx' = [idx EXCEPT ![r] = n]
             /\ att' = [att EXCEPT ![r] = 1]
             /\ ui' = [ui EXCEPT !.items = marked]
    BY <1>3, <1>2 DEF GoOn
  <2>2. i + 1 \in Int /\ n - 1 \in Int /\ n > i /\ n >= 1
    BY <1>1
  <2>3. MarkRefused(items, i + 1, n - 1) \in Seq(Item)
    BY <2>2, MarkedRowsAreRows
  <2>4. CASE n > Len(plan[r]) /\ Leave(r, MarkRefused(items, i + 1, n - 1))
    BY <2>3, <2>4 DEF Leave, Ended
  <2>5. CASE /\ n <= Len(plan[r])
             /\ pc' = [pc EXCEPT ![r] = "sign"]
             /\ idx' = [idx EXCEPT ![r] = n]
             /\ att' = [att EXCEPT ![r] = 1]
             /\ ui' = [ui EXCEPT !.items = MarkRefused(items, i + 1, n - 1)]
    <3>1. n \in 1..Len(plan[r])
      BY <1>1, <2>2, <2>5
    <3> QED BY <1>3, <2>2, <2>3, <2>5, <3>1 DEF Moved, StopHere
  <2> QED BY <2>1, <2>4, <2>5
<1> QED BY <1>2, <1>3 DEF GoOn

LEMMA FinishedItemRows ==
    ASSUME TypeInv, NEW r \in Run, AtItem(r), NEW st \in Status
    PROVE  SetStatus(ui.items, idx[r], st) \in Seq(Item)
<1>1. ui.items \in Seq(Item) /\ idx[r] \in Int
  BY DEF TypeInv, TypeOK
<1>2. CurrentTx(r) \in Tx
  BY CurrentTxType
<1> QED BY <1>1, <1>2, RowsStayRows

LEMMA AttemptFailedOutcome ==
    ASSUME TypeInv, NEW r \in Run, AtItem(r), AttemptFailed(r)
    PROVE  Resumed(r, idx[r])
<1>1. att[r] \in 1..MaxVariants /\ idx[r] \in Nat /\ MaxVariants \in Nat
  BY VariantsAssumption DEF TypeInv, TypeOK
<1>2. Attempts(TaskAt(r)) \in 1..MaxVariants
  BY AttemptsBound
<1>3. CASE GoOn(r, idx[r], refused[r], SetStatus(ui.items, idx[r], "error"))
  <2>1. SetStatus(ui.items, idx[r], "error") \in Seq(Item)
    BY FinishedItemRows DEF Status
  <2> QED BY <1>1, <1>3, <2>1, GoOnOutcome DEF Resumed
<1>4. CASE /\ att[r] < Attempts(TaskAt(r))
           /\ att' = [att EXCEPT ![r] = @ + 1]
           /\ pc' = [pc EXCEPT ![r] = "sign"]
           /\ UNCHANGED <<idx, ui>>
  <2>1. att[r] + 1 \in 1..MaxVariants
    BY <1>1, <1>2, <1>4
  <2> QED BY <1>4, <2>1 DEF Resumed, Retried
<1> QED BY <1>3, <1>4 DEF AttemptFailed

\* Whichever way it resumes, the loop state and the rows stay well-formed.
LEMMA ResumedTypes ==
    ASSUME TypeInv, NEW r \in Run, NEW i \in Nat, Resumed(r, i), UNCHANGED plan
    PROVE  /\ pc' \in [Run -> Place]
           /\ idx' \in [Run -> Nat]
           /\ att' \in [Run -> 1..MaxVariants]
           /\ ui' \in [planning : BOOLEAN, running : BOOLEAN, items : Seq(Item)]
           /\ IndexOK'
<1> USE DEF TypeInv, TypeOK, IndexOK, AtItem
<1>1. CASE Ended(r)
  BY <1>1 DEF Ended, Finally, Place
<1>2. CASE Moved(r, i)
  <2>1. 1 \in 1..MaxVariants
    BY VariantsAssumption
  <2>2. PICK n \in 1..Len(plan[r]) : idx' = [idx EXCEPT ![r] = n]
    BY <1>2 DEF Moved
  <2>3. n \in Nat
    BY <2>2
  <2> QED BY ZenonT(60), <1>2, <2>1, <2>2, <2>3 DEF Moved, Place
<1>3. CASE Retried(r)
  BY <1>3 DEF Retried, Place
<1> QED BY <1>1, <1>2, <1>3 DEF Resumed

-----------------------------------------------------------------------------
LEMMA TypeInit == Init => TypeInv
<1> SUFFICES ASSUME Init PROVE TypeInv
  OBVIOUS
<1>1. TypeOK
  <2>1. 1 \in 1..MaxVariants
    BY VariantsAssumption
  <2>2. <<>> \in Seq(Task) /\ <<>> \in Seq(Item)
    OBVIOUS
  <2> QED BY <2>1, <2>2 DEF Init, TypeOK, Place
<1>2. IndexOK
  BY DEF Init, IndexOK, AtItem
<1> QED BY <1>1, <1>2 DEF TypeInv

LEMMA TypeStep == TypeInv /\ [Next]_vars => TypeInv'
<1> SUFFICES ASSUME TypeInv, [Next]_vars PROVE TypeInv'
  OBVIOUS
<1> USE DEF TypeInv, TypeOK, IndexOK, AtItem
<1>1. CASE Abort
  BY <1>1 DEF Abort, runVars, chainVars
<1>2. ASSUME NEW r \in Run, Start(r) PROVE TypeInv'
  BY <1>2 DEF Start, chainVars, Place
<1>3. ASSUME NEW r \in Run, Discover(r) PROVE TypeInv'
  BY <1>3 DEF Discover, chainVars, Place
<1>4. ASSUME NEW r \in Run, PlanReady(r) PROVE TypeInv'
  <2>1. PICK S \in SUBSET found[r] : \E s \in Plans(S) :
          plan' = [plan EXCEPT ![r] = s] /\ ui' = PlanShown(s)
    BY <1>4 DEF PlanReady
  <2>2. PICK s \in Plans(S) : plan' = [plan EXCEPT ![r] = s] /\ ui' = PlanShown(s)
    BY <2>1
  <2>3. S \in SUBSET Task
    OBVIOUS
  <2>4. s \in Seq(Task) /\ Fresh(s) \in Seq(Item)
    BY <2>3, PlanIsSeq, FreshIsRows
  <2> QED BY <1>4, <2>2, <2>4 DEF PlanReady, PlanShown, chainVars, Place
<1>5. ASSUME NEW r \in Run, PlanInvalid(r) PROVE TypeInv'
  <2>1. PICK S \in SUBSET found[r] : \E s \in Plans(S) :
          plan' = [plan EXCEPT ![r] = s] /\ ui' = Finally(Fresh(s))
    BY <1>5 DEF PlanInvalid
  <2>2. PICK s \in Plans(S) : plan' = [plan EXCEPT ![r] = s] /\ ui' = Finally(Fresh(s))
    BY <2>1
  <2>3. S \in SUBSET Task
    OBVIOUS
  <2>4. s \in Seq(Task) /\ Fresh(s) \in Seq(Item)
    BY <2>3, PlanIsSeq, FreshIsRows
  <2> QED BY <1>5, <2>2, <2>4 DEF PlanInvalid, Finally, chainVars, Place
<1>6. ASSUME NEW r \in Run, SignedAll(r) PROVE TypeInv'
  <2>1. PICK refs \in SUBSET (1..Len(plan[r])) :
          refused' = [refused EXCEPT ![r] = refs] /\ GoOn(r, 0, refs, ui.items)
    BY <1>6 DEF SignedAll, Refusals
  <2>2. refused' \in [Run -> SUBSET Nat]
    BY <2>1
  <2>3. ui.items \in Seq(Item)
    OBVIOUS
  <2>4. Resumed(r, 0)
    BY <2>1, <2>3, GoOnOutcome DEF Resumed
  <2>5. UNCHANGED <<found, plan, aborted, abortRef, chainVars>>
    BY <1>6 DEF SignedAll, Refusals
  <2> QED BY <2>2, <2>4, <2>5, ResumedTypes DEF chainVars
<1>7. ASSUME NEW r \in Run, Signed(r) PROVE TypeInv'
  <2>1. SetStatus(ui.items, idx[r], "signed") \in Seq(Item)
    BY <1>7, FinishedItemRows DEF Signed, Status
  <2> QED BY <1>7, <2>1 DEF Signed, chainVars, Place
<1>8. ASSUME NEW r \in Run, SignRefused(r) PROVE TypeInv'
  <2>1. Resumed(r, idx[r])
    BY <1>8, AttemptFailedOutcome DEF SignRefused
  <2> QED BY <1>8, <2>1, ResumedTypes DEF SignRefused, chainVars
<1>9. ASSUME NEW r \in Run, Sent(r) PROVE TypeInv'
  <2>1. CurrentTx(r) \in Tx
    BY <1>9, CurrentTxType DEF Sent
  <2>2. SetSent(ui.items, idx[r], CurrentTx(r)) \in Seq(Item)
    <3>1. "sent" \in Status /\ idx[r] \in Int /\ ui.items \in Seq(Item)
      BY DEF Status
    <3> QED BY <2>1, <3>1, RowsStayRows
  <2> QED BY <1>9, <2>1, <2>2 DEF Sent, Place
<1>10. ASSUME NEW r \in Run, SendFailed(r) PROVE TypeInv'
  <2>1. CurrentTx(r) \in Tx
    BY <1>10, CurrentTxType DEF SendFailed
  <2>2. Resumed(r, idx[r])
    BY <1>10, AttemptFailedOutcome DEF SendFailed
  <2>3. sent' \in SUBSET Tx /\ live' \in SUBSET Tx
    BY <1>10, <2>1 DEF SendFailed
  <2> QED BY <1>10, <2>2, <2>3, ResumedTypes DEF SendFailed
<1>11. ASSUME NEW r \in Run, Confirmed(r) PROVE TypeInv'
  <2>1. SetStatus(ui.items, idx[r], "confirmed") \in Seq(Item)
    BY <1>11, FinishedItemRows DEF Confirmed, Status
  <2>2. Resumed(r, idx[r])
    BY <1>11, <2>1, GoOnOutcome DEF Confirmed, Resumed
  <2> QED BY <1>11, <2>2, ResumedTypes DEF Confirmed, chainVars
<1>12. ASSUME NEW r \in Run, ConfirmFailed(r) PROVE TypeInv'
  <2>1. Resumed(r, idx[r])
    BY <1>12, AttemptFailedOutcome DEF ConfirmFailed
  <2> QED BY <1>12, <2>1, ResumedTypes DEF ConfirmFailed, chainVars
<1>13. CASE ChainStep
  BY <1>13 DEF ChainStep, Land, Revert, Expire, runVars
<1>14. CASE UNCHANGED vars
  BY <1>14 DEF vars, runVars, chainVars
<1> QED
  BY <1>1, <1>2, <1>3, <1>4, <1>5, <1>6, <1>7, <1>8, <1>9, <1>10, <1>11,
     <1>12, <1>13, <1>14 DEF Next, RunStep

\* Every variable keeps its type: rows stay rows under any overlap of calls,
\* and no call runs past its variants.
THEOREM TypeCorrect == Spec => []TypeOK
<1>1. TypeInv => TypeOK
  BY DEF TypeInv
<1> QED BY <1>1, TypeInit, TypeStep, PTL DEF Spec

-----------------------------------------------------------------------------
(* The busy flags.  BusyIsHonest is inductive beside TypeInv: whoever      *)
(* leaves its loop lowers both flags, and whoever stays in it is the       *)
(* witness for `running`.                                                  *)

LEMMA ResumedBusy ==
    ASSUME TypeInv, BusyIsHonest, NEW r \in Run, NEW i \in Nat, Executing(r), Resumed(r, i)
    PROVE  BusyIsHonest'
<1> USE DEF TypeInv, TypeOK, BusyIsHonest, Planning, Executing, PlanPlaces, ExecPlaces
<1>1. CASE Ended(r)
  BY <1>1 DEF Ended, Finally
<1>2. CASE pc' = [pc EXCEPT ![r] = "sign"] /\ ui'.planning = ui.planning
  <2>1. ui'.running => \E q \in Run : Executing(q)'
    BY <1>2
  <2>2. ASSUME NEW q \in Run, Planning(q) PROVE Planning(q)'
    BY <1>2, <2>2
  <2> QED BY <1>2, <2>1, <2>2
<1>3. CASE Moved(r, i)
  BY <1>2, <1>3 DEF Moved
<1>4. CASE Retried(r)
  BY <1>2, <1>4 DEF Retried
<1> QED BY <1>1, <1>3, <1>4 DEF Resumed

LEMMA BusyStep == TypeInv /\ BusyIsHonest /\ [Next]_vars => BusyIsHonest'
<1> SUFFICES ASSUME TypeInv, BusyIsHonest, [Next]_vars PROVE BusyIsHonest'
  OBVIOUS
<1> USE DEF BusyIsHonest, Planning, Executing, PlanPlaces, ExecPlaces
<1>0. pc \in [Run -> Place] /\ \A r \in Run : idx[r] \in Nat
  BY DEF TypeInv, TypeOK
<1>1. CASE Abort
  BY <1>1 DEF Abort, runVars, TypeInv, TypeOK
<1>2. ASSUME NEW r \in Run, Start(r) PROVE BusyIsHonest'
  BY <1>0, <1>2 DEF Start
<1>3. ASSUME NEW r \in Run, Discover(r) PROVE BusyIsHonest'
  BY <1>0, <1>3 DEF Discover
<1>4. ASSUME NEW r \in Run, PlanReady(r) PROVE BusyIsHonest'
  BY <1>0, <1>4 DEF PlanReady, PlanShown
<1>5. ASSUME NEW r \in Run, PlanInvalid(r) PROVE BusyIsHonest'
  BY <1>0, <1>5 DEF PlanInvalid, Finally
<1>6. ASSUME NEW r \in Run, SignedAll(r) PROVE BusyIsHonest'
  <2>1. PICK refs : GoOn(r, 0, refs, ui.items)
    BY <1>6 DEF SignedAll, Refusals
  <2>2. ui.items \in Seq(Item)
    BY DEF TypeInv, TypeOK
  <2>3. Resumed(r, 0)
    BY <2>1, <2>2, GoOnOutcome DEF Resumed
  <2> QED BY <1>6, <2>3, ResumedBusy DEF SignedAll, Refusals
<1>7. ASSUME NEW r \in Run, Signed(r) PROVE BusyIsHonest'
  BY <1>0, <1>7 DEF Signed, TypeInv, TypeOK
<1>8. ASSUME NEW r \in Run, SignRefused(r) PROVE BusyIsHonest'
  BY <1>0, <1>8, AttemptFailedOutcome, ResumedBusy DEF SignRefused, AtItem
<1>9. ASSUME NEW r \in Run, Sent(r) PROVE BusyIsHonest'
  BY <1>0, <1>9 DEF Sent, TypeInv, TypeOK
<1>10. ASSUME NEW r \in Run, SendFailed(r) PROVE BusyIsHonest'
  BY <1>0, <1>10, AttemptFailedOutcome, ResumedBusy DEF SendFailed, AtItem
<1>11. ASSUME NEW r \in Run, Confirmed(r) PROVE BusyIsHonest'
  <2>1. AtItem(r) /\ SetStatus(ui.items, idx[r], "confirmed") \in Seq(Item)
    BY <1>11, FinishedItemRows DEF Confirmed, Status, AtItem
  <2>2. Resumed(r, idx[r])
    BY <1>0, <1>11, <2>1, GoOnOutcome DEF Confirmed, Resumed
  <2> QED BY <1>0, <1>11, <2>2, ResumedBusy DEF Confirmed
<1>12. ASSUME NEW r \in Run, ConfirmFailed(r) PROVE BusyIsHonest'
  BY <1>0, <1>12, AttemptFailedOutcome, ResumedBusy DEF ConfirmFailed, AtItem
<1>13. CASE ChainStep
  BY <1>13 DEF ChainStep, Land, Revert, Expire, runVars
<1>14. CASE UNCHANGED vars
  BY <1>14 DEF vars, runVars
<1> QED
  BY <1>1, <1>2, <1>3, <1>4, <1>5, <1>6, <1>7, <1>8, <1>9, <1>10, <1>11,
     <1>12, <1>13, <1>14 DEF Next, RunStep

\* A raised planning or running flag always has a live call behind it, for
\* any number of overlapping calls and aborts.
THEOREM BusyCorrect == Spec => []BusyIsHonest
<1>1. Init => BusyIsHonest
  BY DEF Init, BusyIsHonest
<1> QED BY <1>1, TypeInit, TypeStep, BusyStep, PTL DEF Spec

-----------------------------------------------------------------------------
(* What a step of a live call may do to loop counters, plans and sent.     *)

Awaiting(r) == pc[r] \in {"signing", "sign", "send", "confirm"}

\* The resumption of an await, seen from outside: which call, from which
\* index, and what it has just sent if anything.
Resumption(r, i) ==
    /\ Awaiting(r)
    /\ Resumed(r, i)
    /\ i \in Nat /\ (AtItem(r) => i = idx[r])
    /\ UNCHANGED <<plan, aborted>>
    /\ sent' = sent \/ (AtItem(r) /\ sent' = sent \cup {CurrentTx(r)})

LEMMA Resumptions ==
    ASSUME TypeInv, NEW r \in Run,
           \/ SignedAll(r) \/ SignRefused(r) \/ SendFailed(r)
           \/ Confirmed(r) \/ ConfirmFailed(r)
    PROVE  \E i \in Nat : Resumption(r, i)
<1>1. idx[r] \in Nat /\ ui.items \in Seq(Item)
  BY DEF TypeInv, TypeOK
<1>2. CASE SignedAll(r)
  <2>1. PICK refs : GoOn(r, 0, refs, ui.items)
    BY <1>2 DEF SignedAll, Refusals
  <2>2. Resumed(r, 0)
    BY <1>1, <2>1, GoOnOutcome DEF Resumed
  <2>3. Resumption(r, 0)
    BY <1>2, <2>2 DEF SignedAll, Refusals, Resumption, Awaiting, AtItem, chainVars
  <2> QED BY <2>3
<1>3. CASE SignRefused(r)
  BY <1>1, <1>3, AttemptFailedOutcome DEF SignRefused, Resumption, Awaiting, AtItem, chainVars
<1>4. CASE SendFailed(r)
  BY <1>1, <1>4, AttemptFailedOutcome DEF SendFailed, Resumption, Awaiting, AtItem
<1>5. CASE Confirmed(r)
  <2>1. AtItem(r) /\ SetStatus(ui.items, idx[r], "confirmed") \in Seq(Item)
    BY <1>5, FinishedItemRows DEF Confirmed, Status, AtItem
  <2>2. Resumed(r, idx[r])
    BY <1>1, <1>5, <2>1, GoOnOutcome DEF Confirmed, Resumed
  <2> QED BY <1>1, <1>5, <2>1, <2>2 DEF Confirmed, Resumption, Awaiting, AtItem, chainVars
<1>6. CASE ConfirmFailed(r)
  BY <1>1, <1>6, AttemptFailedOutcome DEF ConfirmFailed, Resumption, Awaiting, AtItem, chainVars
<1> QED BY <1>2, <1>3, <1>4, <1>5, <1>6

\* Every other step leaves the loop counters alone.
LEMMA NextCases ==
    ASSUME TypeInv, [Next]_vars
    PROVE  \/ \E r \in Run : \E i \in Nat : Resumption(r, i)
           \/ \E r \in Run : PlanReady(r) \/ PlanInvalid(r)
           \/ \E r \in Run : Sent(r)
           \/ \E r \in Run : Start(r) \/ Discover(r) \/ Signed(r)
           \/ UNCHANGED <<pc, plan, idx, sent>>
BY Resumptions DEF Next, RunStep, Abort, ChainStep, Land, Revert, Expire, vars,
                   runVars, chainVars

LEMMA AbortedStep == TypeInv /\ [Next]_vars => \A r \in Run : aborted[r] => idx'[r] = idx[r]
<1> SUFFICES ASSUME TypeInv, [Next]_vars, NEW q \in Run, aborted[q]
             PROVE  idx'[q] = idx[q]
  OBVIOUS
<1>1. idx \in [Run -> Nat]
  BY DEF TypeInv, TypeOK
<1>2. ASSUME NEW r \in Run, NEW i \in Nat, Resumption(r, i) PROVE idx'[q] = idx[q]
  BY <1>1, <1>2 DEF Resumption, Resumed, Ended, Moved, Retried
<1>3. ASSUME NEW r \in Run, PlanReady(r) \/ PlanInvalid(r) PROVE idx'[q] = idx[q]
  BY <1>3 DEF PlanReady, PlanInvalid
<1>4. ASSUME NEW r \in Run, Sent(r) PROVE idx'[q] = idx[q]
  BY <1>4 DEF Sent
<1>5. ASSUME NEW r \in Run, Start(r) \/ Discover(r) \/ Signed(r) PROVE idx'[q] = idx[q]
  BY <1>5 DEF Start, Discover, Signed
<1> QED BY <1>2, <1>3, <1>4, <1>5, NextCases

\* An aborted call never moves on to another item, whatever runs beside it.
THEOREM AbortCorrect == Spec => AbortedStaysOnItem
<1>1. TypeInv /\ [Next]_vars => [\A r \in Run : aborted[r] => idx'[r] = idx[r]]_vars
  BY AbortedStep
<1> QED BY <1>1, TypeInit, TypeStep, PTL DEF Spec, AbortedStaysOnItem

-----------------------------------------------------------------------------
(* Claims before withdrawals.  The strengthening says where a call's sent  *)
(* transactions lie: at or before its loop counter, in a plan that is      *)
(* ordered and no longer changes.                                          *)

PlansOK == \A r \in Run : IsPlan(plan[r])
SentBehind ==
    \A y \in sent :
        /\ pc[y.run] \in {"sign", "send", "confirm", "done"}
        /\ \E j \in 1..Len(plan[y.run]) : j <= idx[y.run] /\ plan[y.run][j] = y.task
OrderInv == TypeInv /\ PlansOK /\ SentBehind

LEMMA OrderInit == Init => OrderInv
<1> SUFFICES ASSUME Init PROVE OrderInv
  OBVIOUS
<1>1. PlansOK
  BY DEF Init, PlansOK, IsPlan, EachOnce, ClaimsFirst, PoolByPool
<1>2. SentBehind
  BY DEF Init, SentBehind
<1> QED BY <1>1, <1>2, TypeInit DEF OrderInv

\* A sent transaction stays behind a counter that only grows.
LEMMA CurrentIsBehind ==
    ASSUME TypeInv, NEW r \in Run, AtItem(r)
    PROVE  \E j \in 1..Len(plan[r]) : j <= idx[r] /\ plan[r][j] = CurrentTx(r).task
<1>1. idx[r] \in 1..Len(plan[r]) /\ Len(plan[r]) \in Nat
  BY DEF TypeInv, TypeOK, IndexOK
<1>2. idx[r] <= idx[r] /\ plan[r][idx[r]] = CurrentTx(r).task
  BY <1>1 DEF CurrentTx, TaskAt
<1> QED BY <1>1, <1>2

LEMMA OrderStep == OrderInv /\ [Next]_vars => OrderInv'
<1> SUFFICES ASSUME OrderInv, [Next]_vars PROVE OrderInv'
  OBVIOUS
<1>1. TypeInv /\ TypeInv'
  BY TypeStep DEF OrderInv
<1>2. /\ pc \in [Run -> Place] /\ idx \in [Run -> Nat] /\ plan \in [Run -> Seq(Task)]
      /\ sent \in SUBSET Tx /\ sent' \in SUBSET Tx
      /\ \A y \in Tx : y.run \in Run
  BY <1>1 DEF TypeInv, TypeOK, Tx
<1>3. PlansOK /\ SentBehind
  BY DEF OrderInv
<1>4. ASSUME NEW r \in Run, NEW i \in Nat, Resumption(r, i) PROVE PlansOK' /\ SentBehind'
  <2>1. PlansOK'
    BY <1>3, <1>4 DEF PlansOK, Resumption
  <2>2. \A q \in Run \ {r} : pc'[q] = pc[q] /\ idx'[q] = idx[q]
    BY <1>2, <1>4 DEF Resumption, Resumed, Ended, Moved, Retried
  <2>3. pc'[r] \in {"sign", "done"} /\ idx'[r] \in Nat /\ (AtItem(r) => idx'[r] >= idx[r])
    BY <1>2, <1>4 DEF Resumption, Resumed, Ended, Moved, Retried
  <2>4. ASSUME NEW y \in sent PROVE
          /\ pc'[y.run] \in {"sign", "send", "confirm", "done"}
          /\ \E j \in 1..Len(plan[y.run]) : j <= idx'[y.run] /\ plan[y.run][j] = y.task
    <3>1. PICK j \in 1..Len(plan[y.run]) : j <= idx[y.run] /\ plan[y.run][j] = y.task
      BY <1>3 DEF SentBehind
    <3>2. CASE y.run # r
      BY <1>2, <1>3, <2>2, <3>1, <3>2 DEF SentBehind
    <3>3. CASE y.run = r
      <4>1. AtItem(r)
        BY <1>3, <1>4, <3>3 DEF SentBehind, Resumption, Awaiting, AtItem
      <4>2. j <= idx'[r]
        BY <1>2, <2>3, <3>1, <3>3, <4>1
      <4> QED BY <2>3, <3>1, <3>3, <4>2
    <3> QED BY <3>2, <3>3
  <2>5. ASSUME AtItem(r) PROVE
          /\ pc'[r] \in {"sign", "send", "confirm", "done"}
          /\ \E j \in 1..Len(plan[r]) : j <= idx'[r] /\ plan[r][j] = CurrentTx(r).task
    <3>1. PICK j \in 1..Len(plan[r]) : j <= idx[r] /\ plan[r][j] = CurrentTx(r).task
      BY <1>1, <2>5, CurrentIsBehind
    <3>2. j <= idx'[r]
      BY <1>2, <2>3, <2>5, <3>1
    <3> QED BY <2>3, <3>1, <3>2
  <2>6. plan' = plan /\ CurrentTx(r).run = r
    BY <1>4 DEF Resumption, CurrentTx
  <2>7. SentBehind'
    BY <1>4, <2>4, <2>5, <2>6 DEF SentBehind, Resumption
  <2> QED BY <2>1, <2>7
<1>5. ASSUME NEW r \in Run, PlanReady(r) \/ PlanInvalid(r) PROVE PlansOK' /\ SentBehind'
  <2>1. PICK S \in SUBSET found[r] : \E s \in Plans(S) : plan' = [plan EXCEPT ![r] = s]
    BY <1>5 DEF PlanReady, PlanInvalid
  <2>2. PICK s \in Plans(S) : plan' = [plan EXCEPT ![r] = s]
    BY <2>1
  <2>3. PlansOK'
    BY <1>2, <1>3, <2>2 DEF PlansOK, Plans
  <2>4. \A y \in sent : y.run # r
    BY <1>3, <1>5 DEF SentBehind, PlanReady, PlanInvalid
  <2>5. sent' = sent /\ idx' = idx /\ \A q \in Run \ {r} : pc'[q] = pc[q] /\ plan'[q] = plan[q]
    BY <1>2, <1>5, <2>2 DEF PlanReady, PlanInvalid, chainVars
  <2>6. SentBehind'
    BY SMTT(40), <1>2, <1>3, <2>4, <2>5 DEF SentBehind
  <2> QED BY <2>3, <2>6
<1>6. ASSUME NEW r \in Run, Sent(r) PROVE PlansOK' /\ SentBehind'
  <2>1. AtItem(r) /\ plan' = plan /\ idx' = idx /\ sent' = sent \cup {CurrentTx(r)}
        /\ pc' = [pc EXCEPT ![r] = "confirm"] /\ CurrentTx(r).run = r
    BY <1>6 DEF Sent, AtItem, CurrentTx
  <2>2. \E j \in 1..Len(plan[r]) : j <= idx[r] /\ plan[r][j] = CurrentTx(r).task
    BY <1>1, <2>1, CurrentIsBehind
  <2>3. \A q \in Run : pc'[q] = (IF q = r THEN "confirm" ELSE pc[q])
    BY <1>2, <2>1
  <2>4. SentBehind'
    BY <1>2, <1>3, <2>1, <2>2, <2>3 DEF SentBehind
  <2> QED BY <1>3, <2>1, <2>4 DEF PlansOK
<1>7. ASSUME NEW r \in Run, Start(r) \/ Discover(r) \/ Signed(r) PROVE PlansOK' /\ SentBehind'
  <2>1. plan' = plan /\ idx' = idx /\ sent' = sent
    BY <1>7 DEF Start, Discover, Signed, chainVars
  <2>2. \A y \in sent : pc'[y.run] \in {"sign", "send", "confirm", "done"}
    <3>1. CASE Start(r) \/ Discover(r)
      BY <1>2, <1>3, <3>1 DEF SentBehind, Start, Discover
    <3>2. CASE Signed(r)
      BY <1>2, <1>3, <3>2 DEF SentBehind, Signed
    <3> QED BY <1>7, <3>1, <3>2
  <2> QED BY <1>3, <2>1, <2>2 DEF PlansOK, SentBehind
<1>8. ASSUME UNCHANGED <<pc, plan, idx, sent>> PROVE PlansOK' /\ SentBehind'
  BY <1>3, <1>8 DEF PlansOK, SentBehind
<1>9. PlansOK' /\ SentBehind'
  BY <1>1, <1>4, <1>5, <1>6, <1>7, <1>8, NextCases
<1> QED BY <1>1, <1>9 DEF OrderInv

\* The order itself: when a claim is sent, the withdrawals its call has sent
\* lie behind it, so none of them is of the same pool.
ClaimsFirstStep ==
    \A x \in sent' \ sent : x.task \in Claim =>
        ~\E y \in sent : /\ y.run = x.run
                         /\ y.task \in Withdraw
                         /\ PoolOf[y.task] = PoolOf[x.task]

LEMMA ClaimsStep == OrderInv /\ [Next]_vars => ClaimsFirstStep
<1> SUFFICES ASSUME OrderInv, [Next]_vars,
                    NEW x \in sent' \ sent, x.task \in Claim,
                    NEW y \in sent, y.run = x.run, y.task \in Withdraw,
                    PoolOf[y.task] = PoolOf[x.task]
             PROVE  FALSE
  BY DEF ClaimsFirstStep
<1>1. PICK r \in Run : AtItem(r) /\ x = CurrentTx(r)
  <2>1. CASE \E r \in Run : \E i \in Nat : Resumption(r, i)
    BY <2>1 DEF Resumption
  <2>2. CASE \E r \in Run : PlanReady(r) \/ PlanInvalid(r)
    BY <2>2 DEF PlanReady, PlanInvalid, chainVars
  <2>3. CASE \E r \in Run : Sent(r)
    BY <2>3 DEF Sent, AtItem
  <2>4. CASE \E r \in Run : Start(r) \/ Discover(r) \/ Signed(r)
    BY <2>4 DEF Start, Discover, Signed, chainVars
  <2> QED BY <2>1, <2>2, <2>3, <2>4, NextCases DEF OrderInv
<1>2. y.run = r /\ x.task = plan[r][idx[r]]
  BY <1>1 DEF CurrentTx, TaskAt
<1>3. PICK j \in 1..Len(plan[r]) : j <= idx[r] /\ plan[r][j] = y.task
  BY <1>2 DEF OrderInv, SentBehind
<1>4. plan[r] \in Seq(Task) /\ idx[r] \in 1..Len(plan[r]) /\ IsPlan(plan[r])
  BY <1>1 DEF OrderInv, TypeInv, TypeOK, IndexOK, PlansOK
<1>5. idx[r] < j
  BY <1>2, <1>3, <1>4 DEF IsPlan, ClaimsFirst
<1> QED BY <1>3, <1>4, <1>5

\* No call sends a claim of a pool after a withdrawal of that pool.
THEOREM ClaimsCorrect == Spec => ClaimsSentFirst
<1>1. OrderInv /\ [Next]_vars => [ClaimsFirstStep]_vars
  BY ClaimsStep
<1> QED BY <1>1, OrderInit, OrderStep, PTL DEF Spec, ClaimsSentFirst, ClaimsFirstStep

-----------------------------------------------------------------------------
(* What holds when the user waits for one call of run() before making the  *)
(* next: the rows agree with the chain, none is forgotten, a call can be   *)
(* stopped, and the hook implements ExitBoard.                             *)

(* The invariant.  One call is alive at a time and owns what is shown: its *)
(* plan, settled exactly down to the row it works on.                      *)

OnlyOne ==
    \A r \in Run : Active(r) =>
        /\ abortRef = r
        /\ \A o \in Run : Active(o) => o = r
FlagsUp ==
    \A r \in Run :
        /\ Planning(r) => ui.planning
        /\ Executing(r) /\ ~aborted[r] => ui.running
Untouched == \A r \in Run : Planning(r) => ui.items = <<>>

\* The first row that is not settled yet.
Front(r) == IF AtItem(r) THEN idx[r] ELSE 1
ListOK(r) ==
    /\ DOMAIN ui.items = DOMAIN plan[r]
    /\ \A k \in DOMAIN plan[r] :
          /\ ui.items[k].task = plan[r][k]
          /\ ui.items[k].status \in Settled <=> k < Front(r)
ListsOK == \A r \in Run : Executing(r) => ListOK(r)
SignatureOK == \A r \in Run : pc[r] = "confirm" => ui.items[idx[r]].sig = CurrentTx(r)
ChainOK == live \cup landed \cup reverted \subseteq sent

Ownership == OnlyOne /\ FlagsUp /\ Untouched
Rows == ListsOK /\ SignatureOK /\ ConfirmedIsOnChain
BoardInv == TypeInv /\ Ownership /\ Rows /\ ChainOK

-----------------------------------------------------------------------------
(* What becomes of the rows when a call goes on from row i: row i gets its *)
(* verdict, the refused rows after it are settled with it.                 *)

GoesOn(r, m) ==
    \/ /\ pc' = [pc EXCEPT ![r] = "done"]
       /\ idx' = idx
       /\ aborted[r] \/ m = Len(plan[r])
    \/ /\ m < Len(plan[r])
       /\ pc' = [pc EXCEPT ![r] = "sign"]
       /\ idx' = [idx EXCEPT ![r] = m + 1]
       /\ ui'.running = ui.running /\ ui'.planning = ui.planning
SettlesTo(r, i, m, verdict) ==
    /\ m \in i..Len(plan[r])
    /\ DOMAIN ui'.items = DOMAIN ui.items
    /\ \A k \in DOMAIN ui.items :
          ui'.items[k] = IF k = i THEN [ui.items[k] EXCEPT !.status = verdict]
                         ELSE IF k \in (i + 1)..m THEN [ui.items[k] EXCEPT !.status = "error"]
                         ELSE ui.items[k]
    /\ GoesOn(r, m)
Retries(r) ==
    /\ AtItem(r)
    /\ pc' = [pc EXCEPT ![r] = "sign"]
    /\ UNCHANGED <<idx, ui>>

LEMMA RowFacts ==
    ASSUME TypeInv
    PROVE  /\ DOMAIN ui.items = 1..Len(ui.items) /\ Len(ui.items) \in Nat
           /\ \A k \in DOMAIN ui.items : ui.items[k] \in Item
           /\ \A r \in Run : DOMAIN plan[r] = 1..Len(plan[r]) /\ Len(plan[r]) \in Nat
BY DEF TypeInv, TypeOK

LEMMA GoOnSettles ==
    ASSUME TypeInv, NEW r \in Run, NEW i \in Nat, NEW refs, NEW verdict,
           i <= Len(plan[r]),
           GoOn(r, i, refs, SetStatus(ui.items, i, verdict))
    PROVE  \E m \in Nat : SettlesTo(r, i, m, verdict)
<1> DEFINE items == SetStatus(ui.items, i, verdict)
<1>1. /\ Len(plan[r]) \in Nat
      /\ DOMAIN ui.items = 1..Len(ui.items) /\ Len(ui.items) \in Nat
  BY RowFacts
<1>2. /\ DOMAIN items = DOMAIN ui.items
      /\ \A k \in DOMAIN ui.items :
            items[k] = IF k = i THEN [ui.items[k] EXCEPT !.status = verdict] ELSE ui.items[k]
  BY DEF SetStatus
<1>3. CASE StopHere(r) /\ Leave(r, items)
  <2>1. ui'.items = items
    BY <1>3 DEF Leave, Finally
  <2>2. SettlesTo(r, i, i, verdict)
    BY <1>1, <1>2, <1>3, <2>1 DEF SettlesTo, GoesOn, Leave, StopHere
  <2> QED BY <2>2
<1>4. CASE ~StopHere(r)
  <2>1. PICK n \in (i + 1)..(Len(plan[r]) + 1) :
          LET marked == MarkRefused(items, i + 1, n - 1) IN
          \/ n > Len(plan[r]) /\ Leave(r, marked)
          \/ /\ n <= Len(plan[r])
             /\ pc' = [pc EXCEPT ![r] = "sign"]
             /\ idx' = [idx EXCEPT ![r] = n]
             /\ att' = [att EXCEPT ![r] = 1]
             /\ ui' = [ui EXCEPT !.items = marked]
    BY <1>4 DEF GoOn, StopHere
  <2> DEFINE marked == MarkRefused(items, i + 1, n - 1)
  <2>2. n - 1 \in i..Len(plan[r]) /\ n - 1 \in Nat /\ (n - 1) + 1 = n
    BY <1>1
  <2>3. ui'.items = marked
    BY <2>1 DEF Leave, Finally, TypeInv, TypeOK
  <2>4. /\ DOMAIN marked = DOMAIN ui.items
        /\ \A k \in DOMAIN ui.items :
              marked[k] = IF k \in (i + 1)..(n - 1) THEN [items[k] EXCEPT !.status = "error"] ELSE items[k]
    BY <1>2 DEF MarkRefused
  <2>5. \A k \in (i + 1)..(n - 1) : k # i
    OBVIOUS
  <2>6. \A k \in DOMAIN ui.items :
              marked[k] = IF k = i THEN [ui.items[k] EXCEPT !.status = verdict]
                          ELSE IF k \in (i + 1)..(n - 1) THEN [ui.items[k] EXCEPT !.status = "error"]
                          ELSE ui.items[k]
    BY <1>2, <2>4, <2>5
  <2>7. GoesOn(r, n - 1)
    <3>1. CASE n > Len(plan[r]) /\ Leave(r, marked)
      BY <1>1, <2>2, <3>1 DEF GoesOn, Leave
    <3>2. CASE /\ n <= Len(plan[r])
               /\ pc' = [pc EXCEPT ![r] = "sign"]
               /\ idx' = [idx EXCEPT ![r] = n]
               /\ ui' = [ui EXCEPT !.items = marked]
      <4>1. ui'.running = ui.running /\ ui'.planning = ui.planning
        BY <3>2 DEF TypeInv, TypeOK
      <4>2. n - 1 < Len(plan[r])
        BY <1>1, <3>2
      <4>3. idx' = [idx EXCEPT ![r] = (n - 1) + 1]
        BY <2>2, <3>2
      <4> QED BY <3>2, <4>1, <4>2, <4>3 DEF GoesOn
    <3> QED BY <2>1, <3>1, <3>2
  <2>8. SettlesTo(r, i, n - 1, verdict)
    BY <2>2, <2>3, <2>4, <2>6, <2>7 DEF SettlesTo
  <2> QED BY <2>2, <2>8
<1> QED BY <1>3, <1>4 DEF GoOn, StopHere

\* The actions that may finish an item: what they do to the rows.
Verdict(r, i, m) ==
    \/ SettlesTo(r, i, m, "error")
    \/ /\ SettlesTo(r, i, m, "confirmed")
       /\ pc[r] = "confirm" /\ CurrentTx(r) \in landed \cup reverted
Finishes(r) ==
    /\ Executing(r)
    /\ UNCHANGED <<plan, aborted, abortRef, landed, reverted>>
    /\ \/ UNCHANGED <<sent, live>>
       \/ AtItem(r) /\ sent' = sent \cup {CurrentTx(r)} /\ live' = live \cup {CurrentTx(r)}
    /\ \/ Retries(r)
       \/ \E m \in Nat : Verdict(r, IF AtItem(r) THEN idx[r] ELSE 0, m)

LEMMA NoRowZero ==
    ASSUME TypeInv, NEW verdict
    PROVE  SetStatus(ui.items, 0, verdict) = ui.items
<1>1. /\ DOMAIN ui.items = 1..Len(ui.items) /\ ui.items \in Seq(Item)
  BY RowFacts DEF TypeInv, TypeOK
<1>2. ui.items = [k \in DOMAIN ui.items |-> ui.items[k]]
  BY <1>1
<1>3. \A k \in DOMAIN ui.items : k # 0
  BY <1>1
<1> QED BY <1>2, <1>3 DEF SetStatus

LEMMA AttemptFailedRows ==
    ASSUME TypeInv, NEW r \in Run, AtItem(r), AttemptFailed(r)
    PROVE  Retries(r) \/ \E m \in Nat : Verdict(r, idx[r], m)
<1>1. idx[r] \in Nat /\ idx[r] <= Len(plan[r])
  BY RowFacts DEF TypeInv, TypeOK, IndexOK
<1>2. CASE GoOn(r, idx[r], refused[r], SetStatus(ui.items, idx[r], "error"))
  BY <1>1, <1>2, GoOnSettles DEF Verdict
<1>3. CASE pc' = [pc EXCEPT ![r] = "sign"] /\ UNCHANGED <<idx, ui>>
  BY <1>3 DEF Retries
<1> QED BY <1>2, <1>3 DEF AttemptFailed

LEMMA WhatFinishes ==
    ASSUME TypeInv, NEW r \in Run,
           \/ SignedAll(r) \/ SignRefused(r) \/ SendFailed(r)
           \/ Confirmed(r) \/ ConfirmFailed(r)
    PROVE  Finishes(r)
<1> USE DEF Executing, ExecPlaces, AtItem, Finishes
<1>1. CASE SignedAll(r)
  <2>1. PICK refs : GoOn(r, 0, refs, ui.items)
    BY <1>1 DEF SignedAll
  <2>2. \E m \in Nat : SettlesTo(r, 0, m, "error")
    <3>1. GoOn(r, 0, refs, SetStatus(ui.items, 0, "error"))
      BY <2>1, NoRowZero
    <3>2. 0 \in Nat /\ 0 <= Len(plan[r])
      BY RowFacts
    <3> QED BY <3>1, <3>2, GoOnSettles
  <2> QED BY <1>1, <2>2 DEF SignedAll, Verdict, chainVars
<1>2. CASE SignRefused(r)
  BY <1>2, AttemptFailedRows DEF SignRefused, chainVars
<1>3. CASE SendFailed(r)
  BY <1>3, AttemptFailedRows DEF SendFailed
<1>4. CASE Confirmed(r)
  <2>1. idx[r] \in Nat /\ idx[r] <= Len(plan[r])
    BY <1>4, RowFacts DEF Confirmed, TypeInv, TypeOK, IndexOK
  <2>2. GoOn(r, idx[r], refused[r], SetStatus(ui.items, idx[r], "confirmed"))
    BY <1>4 DEF Confirmed
  <2>3. \E m \in Nat : SettlesTo(r, idx[r], m, "confirmed")
    BY <2>1, <2>2, GoOnSettles
  <2> QED BY <1>4, <2>3 DEF Confirmed, Verdict, chainVars
<1>5. CASE ConfirmFailed(r)
  BY <1>5, AttemptFailedRows DEF ConfirmFailed, chainVars
<1> QED BY <1>1, <1>2, <1>3, <1>4, <1>5

-----------------------------------------------------------------------------
(* The invariant holds, part by part.                                      *)

LEMMA BoardInit == Init => BoardInv
<1> SUFFICES ASSUME Init PROVE BoardInv
  OBVIOUS
<1>1. Ownership
  BY DEF Init, Ownership, OnlyOne, FlagsUp, Untouched, Active, Planning, Executing,
         PlanPlaces, ExecPlaces
<1>2. Rows
  BY DEF Init, Rows, ListsOK, SignatureOK, ConfirmedIsOnChain, Executing, ExecPlaces
<1>3. ChainOK
  BY DEF Init, ChainOK
<1> QED BY <1>1, <1>2, <1>3, TypeInit DEF BoardInv

LEMMA FinishesOwnership ==
    ASSUME BoardInv, NEW r \in Run, Finishes(r)
    PROVE  Ownership'
<1> USE DEF Executing, Planning, Active, ExecPlaces, PlanPlaces
<1>1. /\ pc \in [Run -> Place]
      /\ UNCHANGED <<aborted, abortRef>>
      /\ Executing(r) /\ OnlyOne /\ FlagsUp /\ Untouched
  BY DEF BoardInv, TypeInv, TypeOK, Finishes, Ownership
<1>2. \A o \in Run : Active(o) => o = r
  BY <1>1 DEF OnlyOne
<1>3. \/ pc' = [pc EXCEPT ![r] = "done"]
      \/ /\ pc' = [pc EXCEPT ![r] = "sign"]
         /\ ui'.running = ui.running
  BY DEF Finishes, Retries, Verdict, SettlesTo, GoesOn
<1>4. \A o \in Run \ {r} : pc'[o] = pc[o] /\ ~Active(o)'
  BY <1>1, <1>2, <1>3
<1>5. OnlyOne'
  BY <1>1, <1>3, <1>4 DEF OnlyOne
<1>6. ~Planning(r)' /\ (Executing(r)' => ui'.running = ui.running)
  BY <1>1, <1>3
<1>7. FlagsUp'
  BY <1>1, <1>4, <1>6 DEF FlagsUp
<1>8. Untouched'
  BY <1>4, <1>6 DEF Untouched
<1> QED BY <1>5, <1>7, <1>8 DEF Ownership

\* The call ends only when every row has its verdict, unless it was stopped.
EndsSettled(r) ==
    pc'[r] = "done" /\ ~aborted[r] => \A k \in DOMAIN ui'.items : ui'.items[k].status \in Settled

\* The rows agree with the finished call's new place.
LEMMA FinishesRows ==
    ASSUME BoardInv, NEW r \in Run, Finishes(r)
    PROVE  Rows' /\ EndsSettled(r)
<1> USE DEF Executing, ExecPlaces, AtItem, Front
<1> DEFINE i == IF AtItem(r) THEN idx[r] ELSE 0
<1>1. /\ TypeInv /\ OnlyOne /\ ListsOK /\ SignatureOK /\ ConfirmedIsOnChain
      /\ Executing(r) /\ ListOK(r) /\ abortRef = r
  BY DEF BoardInv, Ownership, Rows, ListsOK, Finishes, OnlyOne, Active
<1>2. /\ UNCHANGED <<plan, aborted, abortRef, landed, reverted>>
      /\ pc \in [Run -> Place] /\ idx \in [Run -> Nat]
      /\ DOMAIN ui.items = 1..Len(plan[r]) /\ Len(plan[r]) \in Nat
      /\ \A k \in DOMAIN ui.items : ui.items[k] \in Item
  BY <1>1, RowFacts DEF Finishes, TypeInv, TypeOK, ListOK
<1>3. \A o \in Run \ {r} : ~Executing(o)
  BY <1>1 DEF OnlyOne, Active
<1>4. CASE Retries(r)
  <2>1. /\ pc'[r] = "sign" /\ pc[r] \in {"sign", "send", "confirm"}
        /\ \A o \in Run \ {r} : pc'[o] = pc[o]
        /\ UNCHANGED <<idx, ui>>
    BY <1>2, <1>4 DEF Retries
  <2>2. ListOK(r)'
    BY <1>1, <1>2, <2>1 DEF ListOK
  <2>3. ListsOK'
    BY <1>3, <2>1, <2>2 DEF ListsOK
  <2>4. SignatureOK'
    BY <1>3, <2>1 DEF SignatureOK
  <2>5. ConfirmedIsOnChain'
    BY <1>1, <1>2, <2>1 DEF ConfirmedIsOnChain
  <2> QED BY <2>1, <2>3, <2>4, <2>5 DEF Rows, EndsSettled
<1>5. ASSUME NEW m \in Nat, Verdict(r, i, m) PROVE Rows' /\ EndsSettled(r)
  <2>1. PICK verdict \in Settled :
          /\ SettlesTo(r, i, m, verdict)
          /\ verdict = "confirmed" => pc[r] = "confirm" /\ CurrentTx(r) \in landed \cup reverted
    BY <1>5 DEF Verdict, Settled
  <2>2. /\ i \in Nat /\ m \in i..Len(plan[r])
        /\ \A k \in 1..Len(plan[r]) : k < Front(r) <=> k < i \/ (i = 0 /\ k < 1)
    BY <1>2, <2>1 DEF SettlesTo
  <2>3. /\ DOMAIN ui'.items = 1..Len(plan[r])
        /\ \A k \in 1..Len(plan[r]) :
              ui'.items[k] = IF k = i THEN [ui.items[k] EXCEPT !.status = verdict]
                             ELSE IF k \in (i + 1)..m THEN [ui.items[k] EXCEPT !.status = "error"]
                             ELSE ui.items[k]
    BY <1>2, <2>1 DEF SettlesTo
  <2>4. \A k \in 1..Len(plan[r]) :
          /\ ui'.items[k].task = ui.items[k].task
          /\ ui'.items[k].sig = ui.items[k].sig
          /\ ui'.items[k].status = IF k = i THEN verdict
                                   ELSE IF k \in (i + 1)..m THEN "error" ELSE ui.items[k].status
    <3> SUFFICES ASSUME NEW k \in 1..Len(plan[r])
                 PROVE  /\ ui'.items[k].task = ui.items[k].task
                        /\ ui'.items[k].sig = ui.items[k].sig
                        /\ ui'.items[k].status = IF k = i THEN verdict
                                                 ELSE IF k \in (i + 1)..m THEN "error" ELSE ui.items[k].status
      OBVIOUS
    <3>1. ui.items[k] \in Item
      BY <1>2
    <3>2. CASE k = i
      <4>1. ui'.items[k] = [ui.items[k] EXCEPT !.status = verdict]
        BY <2>3, <3>2
      <4> QED BY <3>1, <3>2, <4>1 DEF Item
    <3>3. CASE k # i /\ k \in (i + 1)..m
      <4>1. ui'.items[k] = [ui.items[k] EXCEPT !.status = "error"]
        BY <2>3, <3>3
      <4> QED BY <3>1, <3>3, <4>1 DEF Item
    <3>4. CASE k # i /\ k \notin (i + 1)..m
      <4>1. ui'.items[k] = ui.items[k]
        BY <2>3, <3>4
      <4> QED BY <3>4, <4>1
    <3> QED BY <3>2, <3>3, <3>4
  <2>5. \A k \in 1..Len(plan[r]) : ui'.items[k].status \in Settled <=> k <= m
    <3> SUFFICES ASSUME NEW k \in 1..Len(plan[r])
                 PROVE  ui'.items[k].status \in Settled <=> k <= m
      OBVIOUS
    <3>1. ui.items[k].status \in Settled <=> k < Front(r)
      BY <1>1, <1>2 DEF ListOK
    <3>2. CASE k = i
      BY <2>1, <2>2, <2>4, <3>2
    <3>3. CASE k \in (i + 1)..m
      BY <2>4, <2>2, <3>3 DEF Settled
    <3>4. CASE k < i
      BY <2>2, <2>4, <3>1, <3>4
    <3>5. CASE k > m
      BY <2>2, <2>4, <3>1, <3>5
    <3> QED BY <2>2, <3>2, <3>3, <3>4, <3>5
  <2>6. \/ pc' = [pc EXCEPT ![r] = "done"] /\ (aborted[r] \/ m = Len(plan[r]))
        \/ pc' = [pc EXCEPT ![r] = "sign"] /\ idx' = [idx EXCEPT ![r] = m + 1]
    BY <2>1 DEF SettlesTo, GoesOn
  <2>7. \A o \in Run \ {r} : pc'[o] = pc[o]
    BY <1>2, <2>6
  <2>8. Executing(r)' => ListOK(r)'
    <3>1. SUFFICES ASSUME pc' = [pc EXCEPT ![r] = "sign"], idx' = [idx EXCEPT ![r] = m + 1]
                   PROVE  ListOK(r)'
      BY <1>2, <2>6
    <3>2. Front(r)' = m + 1
      BY <1>2, <3>1
    <3>3. \A k \in 1..Len(plan[r]) : k < m + 1 <=> k <= m
      BY <2>2
    <3>4. \A k \in 1..Len(plan[r]) :
            /\ ui'.items[k].task = plan[r][k]
            /\ ui'.items[k].status \in Settled <=> k < m + 1
      BY <1>1, <1>2, <2>4, <2>5, <3>3 DEF ListOK
    <3>5. DOMAIN ui'.items = DOMAIN plan'[r] /\ DOMAIN plan'[r] = 1..Len(plan[r]) /\ plan' = plan
      BY <1>2, <1>1, <2>3 DEF ListOK
    <3> QED BY <3>2, <3>4, <3>5 DEF ListOK
  <2>9. ListsOK'
    BY <1>3, <2>7, <2>8 DEF ListsOK
  <2>10. SignatureOK'
    BY <1>2, <1>3, <2>6, <2>7 DEF SignatureOK
  <2>11. ConfirmedIsOnChain'
    <3> SUFFICES ASSUME NEW k \in 1..Len(plan[r]), ui'.items[k].status = "confirmed"
                 PROVE  /\ ui.items[k].sig \in landed \cup reverted
                        /\ ui.items[k].sig.task = ui.items[k].task
      BY <1>2, <2>3, <2>4 DEF ConfirmedIsOnChain
    <3>1. CASE k = i
      <4>1. pc[r] = "confirm" /\ CurrentTx(r) \in landed \cup reverted
        BY <2>1, <2>4, <3>1
      <4>2. k = idx[r]
        BY <3>1, <4>1
      <4>3. ui.items[k].sig = CurrentTx(r)
        BY <1>1, <4>1, <4>2 DEF SignatureOK
      <4>4. CurrentTx(r).task = ui.items[k].task
        BY <1>1, <1>2, <4>2 DEF ListOK, CurrentTx, TaskAt
      <4> QED BY <4>1, <4>3, <4>4
    <3>2. CASE k # i
      BY <1>1, <1>2, <2>4, <3>2 DEF ConfirmedIsOnChain
    <3> QED BY <3>1, <3>2
  <2>12. EndsSettled(r)
    <3> SUFFICES ASSUME pc'[r] = "done", ~aborted[r]
                 PROVE  \A k \in DOMAIN ui'.items : ui'.items[k].status \in Settled
      BY DEF EndsSettled
    <3>1. m = Len(plan[r])
      BY <1>2, <2>6
    <3> QED BY <2>3, <2>5, <3>1
  <2> QED BY <2>9, <2>10, <2>11, <2>12 DEF Rows
<1> QED BY <1>4, <1>5 DEF Finishes

\* A call shows its plan, or rejects the list before any signature.
LEMMA PlanShownRows ==
    ASSUME BoardInv, NEW r \in Run, PlanReady(r) \/ PlanInvalid(r), TypeInv'
    PROVE  Ownership' /\ Rows'
<1> USE DEF Executing, ExecPlaces, Planning, PlanPlaces, Active, AtItem, Front
<1>1. /\ TypeInv /\ OnlyOne /\ FlagsUp /\ pc[r] = "building"
      /\ pc \in [Run -> Place] /\ plan \in [Run -> Seq(Task)]
      /\ UNCHANGED <<idx, aborted, abortRef, landed, reverted>>
  BY DEF BoardInv, Ownership, Rows, PlanReady, PlanInvalid, TypeInv, TypeOK, chainVars
<1>2. abortRef = r /\ \A o \in Run \ {r} : ~Active(o)
  BY <1>1 DEF OnlyOne
<1>3. PICK s : /\ plan' = [plan EXCEPT ![r] = s]
               /\ \/ ui' = PlanShown(s) /\ pc' = [pc EXCEPT ![r] = "signing"]
                  \/ ui' = Finally(Fresh(s)) /\ pc' = [pc EXCEPT ![r] = "done"]
  BY DEF PlanReady, PlanInvalid
<1>4. /\ plan'[r] = s /\ ui'.items = Fresh(s) /\ ~ui'.planning
      /\ \/ ui'.running /\ pc'[r] = "signing"
         \/ pc'[r] = "done"
      /\ \A o \in Run \ {r} : pc'[o] = pc[o]
  BY <1>1, <1>3 DEF PlanShown, Finally
<1>5. /\ DOMAIN Fresh(s) = DOMAIN s
      /\ \A k \in DOMAIN s : Fresh(s)[k].task = s[k] /\ Fresh(s)[k].status = "pending"
  BY DEF Fresh
<1>6. DOMAIN s = 1..Len(s) /\ Len(s) \in Nat
  <2>1. s \in Seq(Task)
    BY <1>4 DEF TypeInv, TypeOK
  <2> QED BY <2>1
<1>7. Ownership'
  BY <1>1, <1>2, <1>4 DEF Ownership, OnlyOne, FlagsUp, Untouched
<1>8. ListsOK'
  <2>1. \A k \in DOMAIN s : ~(k < 1) /\ Fresh(s)[k].status \notin Settled
    BY <1>5, <1>6 DEF Settled
  <2>2. pc'[r] = "signing" => ListOK(r)'
    BY <1>4, <1>5, <2>1 DEF ListOK
  <2> QED BY <1>2, <1>4, <2>2 DEF ListsOK
<1>9. SignatureOK'
  BY <1>2, <1>4 DEF SignatureOK
<1>10. ConfirmedIsOnChain'
  <2>1. \A k \in DOMAIN ui'.items : ui'.items[k].status = "pending"
    BY <1>4, <1>5
  <2> QED BY <2>1 DEF ConfirmedIsOnChain
<1> QED BY <1>7, <1>8, <1>9, <1>10 DEF Rows

\* The wallet signs, the node accepts: the row stays open and the call stays
\* on it.
LEMMA ProgressRows ==
    ASSUME BoardInv, NEW r \in Run, Signed(r) \/ Sent(r)
    PROVE  Ownership' /\ Rows'
<1> USE DEF Executing, ExecPlaces, Planning, PlanPlaces, Active, AtItem, Front
<1>1. /\ TypeInv /\ OnlyOne /\ FlagsUp /\ Untouched
      /\ ListsOK /\ SignatureOK /\ ConfirmedIsOnChain
      /\ pc \in [Run -> Place] /\ pc[r] \in {"sign", "send"} /\ ListOK(r)
      /\ UNCHANGED <<plan, idx, aborted, abortRef, landed, reverted>>
  BY DEF BoardInv, Ownership, Rows, Signed, Sent, TypeInv, TypeOK, chainVars, ListsOK
<1>2. abortRef = r /\ \A o \in Run \ {r} : ~Active(o)
  BY <1>1 DEF OnlyOne
<1>3. \/ pc' = [pc EXCEPT ![r] = "send"]
      \/ pc' = [pc EXCEPT ![r] = "confirm"] /\ pc[r] = "send"
  BY DEF Signed, Sent
<1>4. pc'[r] \in {"send", "confirm"} /\ \A o \in Run \ {r} : pc'[o] = pc[o]
  BY <1>1, <1>3
<1>5. \/ pc'[r] = "send" /\ ui' = [ui EXCEPT !.items = SetStatus(@, idx[r], "signed")]
      \/ pc'[r] = "confirm" /\ ui' = [ui EXCEPT !.items = SetSent(@, idx[r], CurrentTx(r))]
  BY <1>1 DEF Signed, Sent
<1>6. /\ ui'.running = ui.running /\ ui'.planning = ui.planning
      /\ \/ pc'[r] = "send" /\ ui'.items = SetStatus(ui.items, idx[r], "signed")
         \/ pc'[r] = "confirm" /\ ui'.items = SetSent(ui.items, idx[r], CurrentTx(r))
  BY <1>1, <1>5 DEF TypeInv, TypeOK
<1>7. \A k \in DOMAIN ui.items : ui.items[k] \in Item
  BY <1>1, RowFacts
<1>8. /\ DOMAIN ui'.items = DOMAIN ui.items
      /\ \A k \in DOMAIN ui.items :
            /\ ui'.items[k].task = ui.items[k].task
            /\ k # idx[r] => ui'.items[k] = ui.items[k]
            /\ k = idx[r] => ui'.items[k].status \in {"signed", "sent"}
            /\ k = idx[r] /\ pc'[r] = "confirm" => ui'.items[k].sig = CurrentTx(r)
  <2>1. CASE pc'[r] = "send" /\ ui'.items = SetStatus(ui.items, idx[r], "signed")
    BY <1>7, <2>1 DEF SetStatus, Item
  <2>2. CASE pc'[r] = "confirm" /\ ui'.items = SetSent(ui.items, idx[r], CurrentTx(r))
    <3>1. /\ DOMAIN ui'.items = DOMAIN ui.items
          /\ \A k \in DOMAIN ui.items :
                ui'.items[k] = IF k = idx[r] THEN [ui.items[k] EXCEPT !.status = "sent", !.sig = CurrentTx(r)]
                               ELSE ui.items[k]
      BY Zenon, <2>2 DEF SetSent
    <3>2. ASSUME NEW k \in DOMAIN ui.items, k = idx[r]
          PROVE  /\ ui'.items[k].task = ui.items[k].task /\ ui'.items[k].status = "sent"
                 /\ ui'.items[k].sig = CurrentTx(r)
      <4>1. ui'.items[k] = [ui.items[k] EXCEPT !.status = "sent", !.sig = CurrentTx(r)]
        BY Zenon, <3>1, <3>2
      <4>2. ui.items[k] \in Item
        BY <1>7
      <4> QED BY <4>1, <4>2 DEF Item
    <3>3. \A k \in DOMAIN ui.items : k # idx[r] => ui'.items[k] = ui.items[k]
      BY Zenon, <3>1
    <3> QED BY Zenon, <3>1, <3>2, <3>3
  <2> QED BY <1>6, <2>1, <2>2
<1>9. idx[r] \in 1..Len(plan[r]) /\ DOMAIN ui.items = 1..Len(plan[r]) /\ idx[r] \in Nat
  BY <1>1, RowFacts DEF TypeInv, TypeOK, IndexOK, ListOK
<1>10. Ownership'
  BY <1>1, <1>2, <1>4, <1>6 DEF Ownership, OnlyOne, FlagsUp, Untouched
<1>11. ListsOK'
  <2>1. \A k \in DOMAIN ui.items : ui'.items[k].status \in Settled <=> k < idx[r]
    <3> SUFFICES ASSUME NEW k \in DOMAIN ui.items
                 PROVE  ui'.items[k].status \in Settled <=> k < idx[r]
      OBVIOUS
    <3>1. CASE k = idx[r]
      BY <1>8, <1>9, <3>1 DEF Settled
    <3>2. CASE k # idx[r]
      BY <1>1, <1>8, <1>9, <3>2 DEF ListOK
    <3> QED BY <3>1, <3>2
  <2>2. ListOK(r)'
    BY <1>1, <1>4, <1>8, <2>1 DEF ListOK
  <2> QED BY <1>2, <1>4, <2>2 DEF ListsOK
<1>12. SignatureOK'
  <2>1. CurrentTx(r)' = CurrentTx(r)
    BY DEF Signed, Sent, CurrentTx, TaskAt
  <2> QED BY <1>1, <1>2, <1>4, <1>8, <1>9, <2>1 DEF SignatureOK
<1>13. ConfirmedIsOnChain'
  BY <1>1, <1>8 DEF ConfirmedIsOnChain
<1> QED BY <1>10, <1>11, <1>12, <1>13 DEF Rows

\* The user starts a call when none is alive.
LEMMA StartKeeps ==
    ASSUME PatientUser, BoardInv, NEW r \in Run, Start(r)
    PROVE  Ownership' /\ Rows'
<1> USE DEF Executing, ExecPlaces, Planning, PlanPlaces, Active
<1>1. pc \in [Run -> Place] /\ \A o \in Run : ~Active(o)
  BY DEF BoardInv, TypeInv, TypeOK, Start
<1>2. /\ pc'[r] = "planning" /\ \A o \in Run \ {r} : pc'[o] = pc[o]
      /\ abortRef' = r /\ ui'.planning /\ ui'.items = <<>> /\ aborted' = aborted
  BY <1>1 DEF Start
<1>3. Ownership'
  BY <1>1, <1>2 DEF Ownership, OnlyOne, FlagsUp, Untouched
<1>4. ListsOK' /\ SignatureOK'
  BY <1>1, <1>2 DEF ListsOK, SignatureOK
<1>5. ConfirmedIsOnChain'
  BY <1>2 DEF ConfirmedIsOnChain
<1> QED BY <1>3, <1>4, <1>5 DEF Rows

LEMMA BoardStep == ASSUME PatientUser PROVE BoardInv /\ [Next]_vars => BoardInv'
<1> SUFFICES ASSUME BoardInv, [Next]_vars PROVE BoardInv'
  OBVIOUS
<1>1. TypeInv /\ TypeInv'
  BY TypeStep DEF BoardInv
<1>2. Ownership /\ Rows
  BY DEF BoardInv
<1>3. ASSUME Abort PROVE Ownership' /\ Rows'
  <2>1. /\ UNCHANGED <<pc, plan, idx, att, abortRef, landed, reverted>>
        /\ ui'.planning = ui.planning /\ ui'.items = ui.items
    BY <1>1, <1>3 DEF Abort, runVars, chainVars, TypeInv, TypeOK
  <2>2. abortRef \in Run /\ aborted' = [aborted EXCEPT ![abortRef] = TRUE]
    BY <1>3 DEF Abort
  <2>3. \A r \in Run : (aborted[r] => aborted'[r]) /\ (Active(r) => aborted'[r])
    BY <1>1, <1>2, <2>2 DEF Ownership, OnlyOne, TypeInv, TypeOK
  <2>4. Ownership'
    BY <1>2, <2>1, <2>3 DEF Ownership, OnlyOne, FlagsUp, Untouched, Active, Planning, Executing
  <2>5. ListsOK' /\ SignatureOK'
    BY <1>2, <2>1 DEF Rows, ListsOK, ListOK, Front, AtItem, SignatureOK, CurrentTx, TaskAt, Executing
  <2>6. ConfirmedIsOnChain'
    BY <1>2, <2>1 DEF Rows, ConfirmedIsOnChain
  <2> QED BY <2>4, <2>5, <2>6 DEF Rows
<1>4. ASSUME NEW r \in Run, Start(r) PROVE Ownership' /\ Rows'
  BY <1>4, StartKeeps
<1>5. ASSUME NEW r \in Run, Discover(r) PROVE Ownership' /\ Rows'
  <2>1. /\ pc[r] = "planning" /\ pc' = [pc EXCEPT ![r] = "building"] /\ pc \in [Run -> Place]
        /\ UNCHANGED <<plan, idx, att, aborted, abortRef, ui, landed, reverted>>
    BY <1>1, <1>5 DEF Discover, chainVars, TypeInv, TypeOK
  <2>2. \A o \in Run : /\ Active(o)' <=> Active(o)
                       /\ Planning(o)' <=> Planning(o)
                       /\ Executing(o)' <=> Executing(o)
                       /\ pc'[o] = pc[o] \/ (o = r /\ pc'[o] = "building" /\ Planning(o))
    BY <2>1 DEF Active, Planning, Executing, PlanPlaces, ExecPlaces
  <2>3. Ownership'
    BY <1>2, <2>1, <2>2 DEF Ownership, OnlyOne, FlagsUp, Untouched
  <2>4. ListsOK' /\ SignatureOK'
    BY <1>2, <2>1, <2>2 DEF Rows, ListsOK, ListOK, Front, AtItem, SignatureOK, CurrentTx, TaskAt,
                            Planning, Executing, PlanPlaces, ExecPlaces
  <2>5. ConfirmedIsOnChain'
    BY <1>2, <2>1 DEF Rows, ConfirmedIsOnChain
  <2> QED BY <2>3, <2>4, <2>5 DEF Rows
<1>6. ASSUME NEW r \in Run, PlanReady(r) \/ PlanInvalid(r) PROVE Ownership' /\ Rows'
  BY <1>1, <1>6, PlanShownRows
<1>7. ASSUME NEW r \in Run, Signed(r) \/ Sent(r) PROVE Ownership' /\ Rows'
  BY <1>7, ProgressRows
<1>8. ASSUME NEW r \in Run, Finishes(r) PROVE Ownership' /\ Rows'
  BY <1>8, FinishesOwnership, FinishesRows
<1>9. ASSUME UNCHANGED <<runVars, aborted, abortRef, ui>>,
             landed \subseteq landed', reverted \subseteq reverted'
      PROVE  Ownership' /\ Rows'
  <2>1. Ownership'
    BY <1>2, <1>9 DEF Ownership, OnlyOne, FlagsUp, Untouched, Active, Planning, Executing, runVars
  <2>2. ListsOK' /\ SignatureOK'
    BY <1>2, <1>9 DEF Rows, ListsOK, ListOK, Front, AtItem, SignatureOK, CurrentTx, TaskAt,
                      Executing, runVars
  <2>3. ConfirmedIsOnChain'
    BY <1>2, <1>9 DEF Rows, ConfirmedIsOnChain, runVars
  <2> QED BY <2>1, <2>2, <2>3 DEF Rows
<1>10. ASSUME ChainStep PROVE Ownership' /\ Rows'
  BY <1>9, <1>10 DEF ChainStep, Land, Revert, Expire
<1>11. ASSUME UNCHANGED vars PROVE Ownership' /\ Rows'
  BY <1>9, <1>11 DEF vars, chainVars
<1>12. Ownership' /\ Rows'
  BY <1>1, <1>3, <1>4, <1>5, <1>6, <1>7, <1>8, <1>10, <1>11, WhatFinishes DEF Next, RunStep
<1>13. ChainOK'
  BY DEF BoardInv, ChainOK, Next, RunStep, Abort, Start, Discover, PlanReady, PlanInvalid,
         SignedAll, Signed, SignRefused, Sent, SendFailed, Confirmed, ConfirmFailed,
         ChainStep, Land, Revert, Expire, vars, chainVars
<1> QED BY <1>1, <1>12, <1>13 DEF BoardInv

LEMMA BoardInvariant == ASSUME PatientUser PROVE Spec => []BoardInv
BY BoardInit, BoardStep, PTL DEF Spec

-----------------------------------------------------------------------------
\* A call that nobody stopped shows as busy and is the one abort() reaches,
\* if the user waits for each call.
THEOREM StopCorrect == ASSUME PatientUser PROVE Spec => []RunningCanBeStopped
<1>1. BoardInv => RunningCanBeStopped
  BY DEF BoardInv, Ownership, OnlyOne, FlagsUp, RunningCanBeStopped, Active, Busy
<1> QED BY <1>1, BoardInvariant, PTL

\* A row shown as confirmed has its own transaction on chain.
THEOREM ConfirmedCorrect == ASSUME PatientUser PROVE Spec => []ConfirmedIsOnChain
<1>1. BoardInv => ConfirmedIsOnChain
  BY DEF BoardInv, Rows
<1> QED BY <1>1, BoardInvariant, PTL

\* A call that leaves the loop without having been stopped has settled every
\* row, if the user waits for each call.
THEOREM RowsCorrect == ASSUME PatientUser PROVE Spec => NoRowForgotten
<1> USE DEF Executing, ExecPlaces
<1>1. ASSUME BoardInv, Next, NEW r \in Run, Executing(r), pc'[r] = "done", ~aborted[r]
      PROVE  \A k \in DOMAIN ui'.items : ui'.items[k].status \in Settled
  <2>1. pc \in [Run -> Place] /\ TypeInv
    BY <1>1 DEF BoardInv, TypeInv, TypeOK
  <2>2. CASE Finishes(r)
    BY <1>1, <2>2, FinishesRows DEF EndsSettled
  <2>3. ASSUME NEW q \in Run, RunStep(q), q # r PROVE pc'[r] = pc[r]
    BY <2>1, <2>3, WhatFinishes
       DEF RunStep, Discover, PlanReady, PlanInvalid, Signed, Sent,
           Finishes, Retries, Verdict, SettlesTo, GoesOn
  <2>4. ASSUME RunStep(r) PROVE Finishes(r)
    BY <1>1, <2>1, <2>4, WhatFinishes DEF RunStep, Discover, PlanReady, PlanInvalid, Signed, Sent
  <2>5. ASSUME \/ Abort \/ ChainStep \/ \E q \in Run : Start(q)
        PROVE  pc'[r] # "done"
    BY <1>1, <2>1, <2>5 DEF Abort, Start, ChainStep, Land, Revert, Expire, runVars
  <2> QED BY <1>1, <2>2, <2>3, <2>4, <2>5 DEF Next
<1>2. BoardInv /\ [Next]_vars =>
        [\A r \in Run : Executing(r) /\ pc'[r] = "done" /\ ~aborted[r] =>
            \A k \in DOMAIN ui'.items : ui'.items[k].status \in Settled]_vars
  BY <1>1
<1> QED BY <1>2, BoardInvariant, PTL DEF Spec, NoRowForgotten

-----------------------------------------------------------------------------
(* The hook implements ExitBoard, step by step.  Unfinished retries, signed *)
(* and refused variants, aborts and expiries are stuttering steps there.   *)

LEMMA ToldFacts ==
    /\ DOMAIN Shown = DOMAIN ui.items /\ DOMAIN Told = DOMAIN ui.items
    /\ \A k \in DOMAIN ui.items :
          /\ Shown[k] = ui.items[k].task
          /\ ui.items[k].status \in Settled => Told[k] = ui.items[k].status
          /\ Told[k] = "open" <=> ui.items[k].status \notin Settled
          /\ ui.items[k].status \notin Settled => Told[k] = "open"
BY DEF Shown, Told, Settled

LEMMA SameRowsSameBoard ==
    ASSUME DOMAIN ui'.items = DOMAIN ui.items,
           \A k \in DOMAIN ui.items :
              /\ ui'.items[k].task = ui.items[k].task
              /\ \/ ui'.items[k].status = ui.items[k].status
                 \/ ui'.items[k].status \notin Settled /\ ui.items[k].status \notin Settled
    PROVE  Shown' = Shown /\ Told' = Told
BY DEF Shown, Told

LEMMA FrontIsTop ==
    ASSUME TypeInv, NEW r \in Run, ListOK(r), Executing(r), Front(r) \in DOMAIN ui.items
    PROVE  Board!IsTop(Front(r))
<1>1. DOMAIN ui.items \subseteq Nat /\ DOMAIN ui.items = DOMAIN plan[r]
  BY RowFacts DEF ListOK
<1>2. \A k \in DOMAIN ui.items : ui.items[k].status \in Settled <=> k < Front(r)
  BY <1>1 DEF ListOK
<1>3. \A k \in DOMAIN ui.items : Told[k] = "open" <=> Front(r) <= k
  BY <1>1, <1>2, ToldFacts
<1>4. Front(r) <= Front(r)
  BY <1>1
<1> QED BY <1>1, <1>3, <1>4, ToldFacts DEF Board!IsTop

LEMMA BoardStarts == Init => Board!Init
<1> SUFFICES ASSUME Init PROVE Board!Init
  OBVIOUS
<1>1. ui.items = <<>> /\ sent = {} /\ landed = {} /\ reverted = {}
  BY DEF Init
<1>2. Shown = <<>> /\ Told = <<>>
  BY <1>1 DEF Shown, Told
<1> QED BY <1>1, <1>2 DEF Board!Init, Asked, Executed

\* What was handed to a node for the row a call works on was asked for that row.
LEMMA AskedForFront ==
    ASSUME TypeInv, NEW r \in Run, AtItem(r), ListOK(r), sent' = sent \cup {CurrentTx(r)}
    PROVE  /\ Asked' = Asked \cup {Shown[Front(r)]}
           /\ Front(r) = idx[r] /\ idx[r] \in DOMAIN ui.items
<1>1. idx[r] \in DOMAIN ui.items /\ ui.items[idx[r]].task = plan[r][idx[r]]
  BY RowFacts DEF TypeInv, IndexOK, ListOK
<1>2. CurrentTx(r).task = Shown[idx[r]]
  BY <1>1, ToldFacts DEF CurrentTx, TaskAt
<1> QED BY <1>1, <1>2 DEF Asked, Front

LEMMA FinishingIsSettling ==
    ASSUME BoardInv, NEW r \in Run, Finishes(r)
    PROVE  [Board!Next]_(Board!boardVars)
<1>1. /\ TypeInv /\ Executing(r) /\ ListOK(r)
      /\ DOMAIN ui.items = 1..Len(plan[r]) /\ Len(plan[r]) \in Nat
      /\ \A k \in DOMAIN ui.items : ui.items[k] \in Item
      /\ UNCHANGED <<landed, reverted>>
  BY RowFacts DEF BoardInv, Rows, ListsOK, ListOK, Finishes
<1>2. Executed' = Executed
  BY <1>1 DEF Executed
<1>3. \/ Asked' = Asked
      \/ AtItem(r) /\ Asked' = Asked \cup {Shown[Front(r)]} /\ Front(r) \in DOMAIN ui.items
  BY <1>1, AskedForFront DEF Finishes, Asked
<1>4. CASE Retries(r)
  <2>1. Shown' = Shown /\ Told' = Told
    BY <1>4 DEF Retries, Shown, Told
  <2>2. CASE Asked' = Asked
    BY <1>2, <2>1, <2>2 DEF Board!boardVars
  <2>3. CASE AtItem(r) /\ Asked' = Asked \cup {Shown[Front(r)]} /\ Front(r) \in DOMAIN ui.items
    <3>1. Board!IsTop(Front(r)) /\ Front(r) \in DOMAIN Shown
      BY <1>1, <2>3, FrontIsTop, ToldFacts
    <3>2. Board!Ask
      BY <1>2, <2>1, <2>3, <3>1 DEF Board!Ask
    <3> QED BY <3>2 DEF Board!Next
  <2> QED BY <1>3, <2>2, <2>3
<1>5. ASSUME NEW m \in Nat, Verdict(r, IF AtItem(r) THEN idx[r] ELSE 0, m)
      PROVE  [Board!Next]_(Board!boardVars)
  <2> DEFINE i == IF AtItem(r) THEN idx[r] ELSE 0
             k == Front(r)
  <2>1. PICK verdict \in Settled :
          /\ SettlesTo(r, i, m, verdict)
          /\ verdict = "confirmed" => pc[r] = "confirm" /\ CurrentTx(r) \in landed \cup reverted
    BY <1>5 DEF Verdict, Settled
  <2>2. /\ DOMAIN ui'.items = DOMAIN ui.items
        /\ \A j \in DOMAIN ui.items :
              ui'.items[j] = IF j = i THEN [ui.items[j] EXCEPT !.status = verdict]
                             ELSE IF j \in (i + 1)..m THEN [ui.items[j] EXCEPT !.status = "error"]
                             ELSE ui.items[j]
        /\ m \in i..Len(plan[r])
    BY <2>1 DEF SettlesTo
  <2>3. /\ i \in Nat /\ k \in Nat
        /\ AtItem(r) => k = i /\ i \in 1..Len(plan[r])
        /\ ~AtItem(r) => k = 1 /\ i = 0
    BY <1>1 DEF Front, TypeInv, TypeOK, IndexOK
  <2>4. \A j \in DOMAIN ui.items :
          /\ ui'.items[j].task = ui.items[j].task
          /\ ui'.items[j].status = IF j = i THEN verdict
                                   ELSE IF j \in (i + 1)..m THEN "error" ELSE ui.items[j].status
    BY <1>1, <2>2 DEF Item
  <2>5. Shown' = Shown
    BY <2>2, <2>4 DEF Shown
  <2>6. CASE m < k
    <3>1. ~AtItem(r) /\ m = 0
      BY <2>2, <2>3, <2>6
    <3>2. \A j \in DOMAIN ui.items : j # i /\ j \notin (i + 1)..m
      BY <1>1, <2>3, <3>1
    <3>3. Told' = Told
      BY <2>2, <2>4, <3>2, SameRowsSameBoard
    <3> QED BY <1>2, <1>3, <2>5, <3>1, <3>3 DEF Board!boardVars
  <2>7. CASE k <= m
    <3>1. k \in DOMAIN ui.items /\ m \in k..Len(plan[r])
      BY <1>1, <2>2, <2>3, <2>7
    <3>2. Board!IsTop(k)
      BY <1>1, <3>1, FrontIsTop
    <3>3. Asked' \in {Asked, Asked \cup {Shown[k]}}
      BY <1>3
    <3>4. DOMAIN Told' = DOMAIN Shown /\ DOMAIN Shown = 1..Len(plan[r])
      BY <1>1, <2>2, ToldFacts DEF Told
    <3>5. \A j \in DOMAIN Shown :
            Told'[j] = IF j \notin k..m THEN Told[j]
                       ELSE IF j = i THEN verdict ELSE "error"
      <4> SUFFICES ASSUME NEW j \in DOMAIN ui.items
                   PROVE  Told'[j] = IF j \notin k..m THEN Told[j]
                                     ELSE IF j = i THEN verdict ELSE "error"
        BY ToldFacts
      <4>1. Told'[j] = IF ui'.items[j].status \in Settled THEN ui'.items[j].status ELSE "open"
        BY <2>2 DEF Told
      <4>2. Told[j] = IF ui.items[j].status \in Settled THEN ui.items[j].status ELSE "open"
        BY DEF Told
      <4>3. CASE j = i
        BY <1>1, <2>1, <2>2, <2>3, <2>4, <4>1, <4>3
      <4>4. CASE j # i /\ j \in (i + 1)..m
        <5>1. j \in k..m
          BY <2>3, <4>4
        <5> QED BY <2>4, <4>1, <4>4, <5>1 DEF Settled
      <4>5. CASE j # i /\ j \notin (i + 1)..m
        <5>1. j \notin k..m
          BY <1>1, <2>2, <2>3, <4>5
        <5> QED BY <2>4, <4>1, <4>2, <4>5, <5>1
      <4> QED BY <4>3, <4>4, <4>5
    <3>6. \A j \in DOMAIN Shown :
            Told'[j] = IF j \notin k..m THEN Told[j]
                       ELSE IF j = k /\ Told'[k] = "confirmed" THEN "confirmed" ELSE "error"
      BY <2>1, <2>3, <3>1, <3>5, ToldFacts DEF Settled
    <3>7. Told'[k] = "confirmed" => Shown[k] \in Executed
      <4> SUFFICES ASSUME Told'[k] = "confirmed" PROVE Shown[k] \in Executed
        OBVIOUS
      <4>1. k = i /\ verdict = "confirmed"
        BY <2>3, <3>1, <3>5, ToldFacts
      <4>2. CurrentTx(r) \in landed \cup reverted /\ pc[r] = "confirm"
        BY <2>1, <4>1
      <4>3. k = idx[r] /\ CurrentTx(r).task = Shown[k]
        BY <1>1, <3>1, <4>2, ToldFacts DEF Front, AtItem, ListOK, CurrentTx, TaskAt
      <4> QED BY <4>2, <4>3 DEF Executed
    <3>8. Len(Shown) = Len(plan[r])
      BY <3>4, <1>1, ToldFacts DEF Shown
    <3>9. Board!Settle
      BY <1>2, <2>5, <3>1, <3>2, <3>3, <3>4, <3>6, <3>7, <3>8, ToldFacts DEF Board!Settle
    <3> QED BY <3>9 DEF Board!Next
  <2> QED BY <2>3, <2>6, <2>7
<1> QED BY <1>4, <1>5 DEF Finishes

LEMMA PlanIsShown ==
    ASSUME BoardInv, NEW r \in Run, PlanReady(r) \/ PlanInvalid(r)
    PROVE  Board!Show
<1>1. /\ Planning(r) /\ ui.items = <<>> /\ found[r] \subseteq Task
      /\ UNCHANGED <<sent, landed, reverted>>
  BY DEF BoardInv, Ownership, Untouched, Planning, PlanPlaces, TypeInv, TypeOK,
         PlanReady, PlanInvalid, chainVars
<1>2. PICK S \in SUBSET Task : \E s \in Plans(S) : ui'.items = Fresh(s)
  BY <1>1 DEF PlanReady, PlanInvalid, PlanShown, Finally
<1>3. PICK s \in Plans(S) : ui'.items = Fresh(s)
  BY <1>2
<1>4. Shown = <<>>
  BY <1>1 DEF Shown
<1>5. s \in [1..Cardinality(S) -> S] /\ DOMAIN s = 1..Cardinality(S)
  BY DEF Plans
<1>6. /\ DOMAIN ui'.items = DOMAIN s
      /\ \A k \in DOMAIN s : ui'.items[k].task = s[k] /\ ui'.items[k].status = "pending"
  BY <1>3 DEF Fresh
<1>7. Shown' = s
  BY <1>5, <1>6 DEF Shown
<1>8. Told' = [k \in DOMAIN Shown' |-> "open"]
  BY <1>6 DEF Told, Shown, Settled
<1>9. Asked' = Asked /\ Executed' = Executed
  BY <1>1 DEF Asked, Executed
<1>10. Board!Task = Task /\ Board!Plans(S) = Plans(S)
  <2>1. Board!Cardinality(S) = Cardinality(S)
    BY Zenon DEF Board!Cardinality, Cardinality
  <2>2. \A p : Board!IsPlan(p) <=> IsPlan(p)
    BY DEF Board!IsPlan, IsPlan, Board!EachOnce, EachOnce,
           Board!ClaimsFirst, ClaimsFirst, Board!PoolByPool, PoolByPool
  <2> QED BY <2>1, <2>2 DEF Board!Task, Task, Board!Plans, Plans
<1> QED BY <1>4, <1>7, <1>8, <1>9, <1>10 DEF Board!Show

LEMMA ProgressOnBoard ==
    ASSUME BoardInv, NEW r \in Run, Signed(r) \/ Sent(r)
    PROVE  [Board!Next]_(Board!boardVars)
<1>1. /\ TypeInv /\ Executing(r) /\ ListOK(r) /\ AtItem(r) /\ Front(r) = idx[r]
      /\ ui.items \in Seq(Item) /\ \A k \in DOMAIN ui.items : ui.items[k] \in Item
      /\ idx[r] \in DOMAIN ui.items /\ idx[r] \in Nat
  BY RowFacts DEF BoardInv, Rows, ListsOK, ListOK, Signed, Sent, Executing, ExecPlaces,
                  AtItem, Front, TypeInv, TypeOK, IndexOK
<1>2. ui.items[idx[r]].status \notin Settled
  BY <1>1 DEF ListOK
<1>3. Shown' = Shown /\ Told' = Told
  <2>1. CASE Signed(r)
    <3>1. ui'.items = SetStatus(ui.items, idx[r], "signed")
      BY <1>1, <2>1 DEF Signed, TypeInv, TypeOK
    <3>2. /\ DOMAIN ui'.items = DOMAIN ui.items
          /\ \A k \in DOMAIN ui.items :
                /\ ui'.items[k].task = ui.items[k].task
                /\ ui'.items[k].status = IF k = idx[r] THEN "signed" ELSE ui.items[k].status
      BY <1>1, <3>1 DEF SetStatus, Item
    <3> QED BY <1>2, <3>2, SameRowsSameBoard DEF Settled
  <2>2. CASE Sent(r)
    <3>1. ui'.items = SetSent(ui.items, idx[r], CurrentTx(r))
      BY <1>1, <2>2 DEF Sent, TypeInv, TypeOK
    <3>2. /\ DOMAIN ui'.items = DOMAIN ui.items
          /\ \A k \in DOMAIN ui.items :
                /\ ui'.items[k].task = ui.items[k].task
                /\ ui'.items[k].status = IF k = idx[r] THEN "sent" ELSE ui.items[k].status
      BY ZenonT(60), <1>1, <3>1 DEF SetSent, Item
    <3> QED BY <1>2, <3>2, SameRowsSameBoard DEF Settled
  <2> QED BY <2>1, <2>2
<1>4. CASE Signed(r)
  BY <1>3, <1>4 DEF Signed, Board!boardVars, Asked, Executed, chainVars
<1>5. CASE Sent(r)
  <2>1. Asked' = Asked \cup {Shown[Front(r)]}
    BY <1>1, <1>5, AskedForFront DEF Sent
  <2>2. Board!IsTop(Front(r)) /\ Front(r) \in DOMAIN Shown
    BY <1>1, FrontIsTop, ToldFacts
  <2>3. Executed' = Executed
    BY <1>5 DEF Sent, Executed
  <2>4. Board!Ask
    BY <1>3, <2>1, <2>2, <2>3 DEF Board!Ask
  <2> QED BY <2>4 DEF Board!Next
<1> QED BY <1>4, <1>5

LEMMA BoardSteps == BoardInv /\ [Next]_vars => [Board!Next]_(Board!boardVars)
<1> SUFFICES ASSUME BoardInv, [Next]_vars PROVE [Board!Next]_(Board!boardVars)
  OBVIOUS
<1>1. TypeInv /\ ChainOK
  BY DEF BoardInv
<1>2. ASSUME ui'.items = ui.items, UNCHANGED <<sent, landed, reverted>>
      PROVE  UNCHANGED Board!boardVars
  BY <1>2 DEF Board!boardVars, Shown, Told, Asked, Executed
<1>3. CASE Abort
  BY <1>1, <1>2, <1>3 DEF Abort, chainVars, TypeInv, TypeOK
<1>4. ASSUME NEW r \in Run, Start(r) PROVE Board!Next
  <2>1. ui'.items = <<>> /\ UNCHANGED <<sent, landed, reverted>>
    BY <1>4 DEF Start, chainVars
  <2>2. Shown' = <<>> /\ Told' = <<>>
    BY <2>1 DEF Shown, Told
  <2>3. Board!Clear
    BY <2>1, <2>2 DEF Board!Clear, Asked, Executed
  <2> QED BY <2>3 DEF Board!Next
<1>5. ASSUME NEW r \in Run, Discover(r) PROVE UNCHANGED Board!boardVars
  BY <1>2, <1>5 DEF Discover, chainVars
<1>6. ASSUME NEW r \in Run, PlanReady(r) \/ PlanInvalid(r) PROVE Board!Next
  BY <1>6, PlanIsShown DEF Board!Next
<1>7. ASSUME NEW r \in Run, Signed(r) \/ Sent(r) PROVE [Board!Next]_(Board!boardVars)
  BY <1>7, ProgressOnBoard
<1>8. ASSUME NEW r \in Run, Finishes(r) PROVE [Board!Next]_(Board!boardVars)
  BY <1>8, FinishingIsSettling
<1>9. ASSUME NEW x \in live, Land(x) \/ Revert(x) PROVE Board!Next
  <2>1. x.task \in Asked
    BY <1>1 DEF ChainOK, Asked
  <2>2. /\ UNCHANGED <<ui, sent>>
        /\ landed' \cup reverted' = (landed \cup reverted) \cup {x}
    BY <1>9 DEF Land, Revert
  <2>3. Executed' = Executed \cup {x.task}
    BY <2>2 DEF Executed
  <2>4. Board!Execute
    BY <2>1, <2>2, <2>3 DEF Board!Execute, Shown, Told, Asked
  <2> QED BY <2>4 DEF Board!Next
<1>10. ASSUME NEW x \in live, Expire(x) PROVE UNCHANGED Board!boardVars
  BY <1>2, <1>10 DEF Expire
<1>11. CASE UNCHANGED vars
  BY <1>2, <1>11 DEF vars, chainVars
<1> QED
  BY <1>1, <1>3, <1>4, <1>5, <1>6, <1>7, <1>8, <1>9, <1>10, <1>11, WhatFinishes
     DEF Next, RunStep, ChainStep

\* The hook, with its retries, refusals, aborts and lost answers, implements
\* the board: a safe list worked off from top to bottom, a row reported
\* confirmed only when the chain has executed something for it.
THEOREM BoardCorrect == ASSUME PatientUser PROVE Spec => BoardIsKept
<1>1. BoardInv /\ [Next]_vars => [Board!Next]_(Board!boardVars)
  BY BoardSteps
<1> QED BY <1>1, BoardStarts, BoardInvariant, PTL DEF Spec, BoardIsKept, Board!Spec
=============================================================================
