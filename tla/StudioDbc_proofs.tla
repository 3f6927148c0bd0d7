--------------------------- MODULE StudioDbc_proofs ---------------------------
(***************************************************************************)
(* What holds of StudioDbc for any number of calls of any commands, any    *)
(* pool and any number of attempts, wherever the calls are killed.         *)
(***************************************************************************)
EXTENDS StudioDbc, FiniteSetTheorems, SequenceTheorems, TLAPS

-----------------------------------------------------------------------------
(* Queues: what a list of steps leaves behind, and what it builds on.      *)

StepEffect(step) == {step.op} \X step.on
EffectsOf(s) == UNION {StepEffect(s[i]) : i \in DOMAIN s}
TxOf(k, step) == [call |-> k, step |-> step, att |-> 1]

\* Every step builds on what is there or on a step before it.
Founded(k, s, base) ==
    \A i \in DOMAIN s :
        Needs(TxOf(k, s[i])) \subseteq base \cup UNION {StepEffect(s[j]) : j \in 1..(i - 1)}

-----------------------------------------------------------------------------
(* The invariant.                                                          *)

\* What a call may queue, at its present stage and over its whole life.
ShareSets == IF world.same THEN {Side} ELSE {{"creator"}, {"partner"}}
ShareMenu == {Shares(op, sides) : op \in OnSide, sides \in ShareSets}
MigrationMenu == {ForPool("metadata"), ForPool("locker"), ForPool("migrate")}
Repertoire(k) ==
    CASE cmd[k] = "create" -> {ForCall("config", k), ForPool("pool")}
      [] cmd[k] = "fees" -> {ForCall("creatorFee", k), ForCall("partnerFee", k)}
      [] cmd[k] = "swap" -> {ForCall("swap", k)}
      [] OTHER -> MigrationMenu \cup ShareMenu

InLoop(k) == place[k] \in {"send", "confirm", "finalize"}
QueueOK(k) ==
    /\ queue[k] \in Seq(Repertoire(k))
    /\ InLoop(k) => queue[k] # <<>>
    /\ cmd[k] = "swap" => Len(queue[k]) <= 1
    /\ place[k] = "finalize" =>
          Head(queue[k]).op = "config" /\ StepEffect(Head(queue[k])) \subseteq done

\* Which places a command visits, and when the LP shares are its business.
StageOK(k) ==
    /\ sharing[k] => cmd[k] = "migrateV1" /\ (dry[k] \/ <<"migrate", Pool>> \in done)
    /\ place[k] \in {"idle", "readPool"} => seen[k] = {}
    /\ place[k] = "readPool" => cmd[k] # "create"
    /\ place[k] \in {"readMetadata", "readLocker"} => cmd[k] \in {"migrateV1", "migrateV2"}
    /\ place[k] = "readLp" => cmd[k] = "migrateV1" /\ (dry[k] \/ <<"migrate", Pool>> \in done)
    /\ place[k] \in {"idle", "readPool", "readMetadata", "readLocker", "readLp"} => ~sharing[k]

\* A queue holds nothing that was seen done, rests on the chain and on
\* itself, and reaches the goal of its stage; a call that returned reached all.
Stage(k) ==
    IF cmd[k] = "migrateV1" /\ ~sharing[k] THEN {<<"migrate", Pool>>} ELSE Goal(k)
PlanOK(k) ==
    /\ seen[k] \subseteq done
    /\ InLoop(k) => EffectsOf(queue[k]) \cap seen[k] = {}
    /\ InLoop(k) /\ ~dry[k] =>
          Founded(k, queue[k], done) /\ Stage(k) \subseteq done \cup EffectsOf(queue[k])
    /\ place[k] = "returned" /\ ~dry[k] => Goal(k) \subseteq done

\* Swaps: those executed and those that still may be were all sent, and no two
\* of them unless a confirmation was missed.
SwapTx(k, n) == [call |-> k, step |-> ForCall("swap", k), att |-> n]
Late(k) == {n \in 1..MaxAttempts : SwapTx(k, n) \in live}
Paid(k) == swaps[k] + Cardinality(Late(k))
SwapOK(k) ==
    IF cmd[k] # "swap" THEN swaps[k] = 0
    ELSE /\ place[k] \in Ended => Paid(k) <= MaxAttempts
         /\ place[k] = "send" => Paid(k) <= att[k] - 1
         /\ place[k] = "confirm" => Paid(k) <= att[k]
         /\ place[k] \notin Ended \cup {"send", "confirm"} => Paid(k) = 0
OnceOK(k) ==
    cmd[k] = "swap" /\ ~world.missed =>
        /\ Paid(k) <= 1
        /\ place[k] = "send" => Paid(k) = 0
        /\ place[k] = "confirm" =>
              Late(k) \subseteq {att[k]} /\ (swaps[k] > 0 => CurrentTx(k) \in ran)

CallOK(k) == QueueOK(k) /\ StageOK(k) /\ PlanOK(k) /\ SwapOK(k) /\ OnceOK(k)

\* The chain: who sent what, and what its transactions rest on and leave.
TxOK == \A x \in live \cup ran : ~dry[x.call] /\ x.step \in Repertoire(x.call)
GroundOK ==
    /\ \A x \in live : Needs(x) \subseteq done
    /\ \A x \in ran : x.step.op # "swap" => Effect(x) \subseteq done
TogetherOK ==
    world.same => \A op \in OnSide : <<op, "creator">> \in done <=> <<op, "partner">> \in done

LedgerOK == TxOK /\ GroundOK /\ TogetherOK
DbcInv == TypeOK /\ LedgerOK /\ \A k \in Call : CallOK(k)

-----------------------------------------------------------------------------
(* Lemmas about queues.                                                    *)

LEMMA WhenFacts ==
    ASSUME NEW b, NEW step
    PROVE  /\ When(b, step) \in Seq({step}) /\ Len(When(b, step)) <= 1
           /\ EffectsOf(When(b, step)) = IF b THEN StepEffect(step) ELSE {}
<1>1. CASE b
  <2>1. When(b, step) = <<step>>
    BY <1>1 DEF When
  <2>2. /\ DOMAIN <<step>> = {1} /\ <<step>>[1] = step
        /\ <<step>> \in Seq({step}) /\ Len(<<step>>) <= 1
    OBVIOUS
  <2>3. EffectsOf(<<step>>) = StepEffect(step)
    BY <2>2 DEF EffectsOf
  <2> QED BY <1>1, <2>1, <2>2, <2>3
<1>2. CASE ~b
  <2>1. When(b, step) = <<>> /\ DOMAIN <<>> = {}
    BY <1>2 DEF When
  <2> QED BY <1>2, <2>1 DEF EffectsOf
<1> QED BY <1>1, <1>2

LEMMA ConcatFacts ==
    ASSUME NEW S, NEW s \in Seq(S), NEW t \in Seq(S)
    PROVE  /\ s \o t \in Seq(S) /\ Len(s \o t) = Len(s) + Len(t)
           /\ EffectsOf(s \o t) = EffectsOf(s) \cup EffectsOf(t)
<1>1. /\ s \o t \in Seq(S) /\ Len(s \o t) = Len(s) + Len(t)
      /\ DOMAIN (s \o t) = 1..(Len(s) + Len(t))
      /\ DOMAIN s = 1..Len(s) /\ DOMAIN t = 1..Len(t) /\ Len(s) \in Nat /\ Len(t) \in Nat
  OBVIOUS
<1>2. \A i \in DOMAIN s : i \in DOMAIN (s \o t) /\ (s \o t)[i] = s[i]
  BY <1>1
<1>3. \A i \in DOMAIN t : i + Len(s) \in DOMAIN (s \o t) /\ (s \o t)[i + Len(s)] = t[i]
  BY <1>1
<1>4. \A i \in DOMAIN (s \o t) :
        \/ i \in DOMAIN s /\ (s \o t)[i] = s[i]
        \/ i - Len(s) \in DOMAIN t /\ (s \o t)[i] = t[i - Len(s)]
  BY <1>1
<1>5. ASSUME NEW f, f \in EffectsOf(s \o t) PROVE f \in EffectsOf(s) \cup EffectsOf(t)
  BY <1>4, <1>5 DEF EffectsOf
<1>6. ASSUME NEW f, f \in EffectsOf(s) PROVE f \in EffectsOf(s \o t)
  BY <1>2, <1>6 DEF EffectsOf
<1>7. ASSUME NEW f, f \in EffectsOf(t) PROVE f \in EffectsOf(s \o t)
  BY <1>3, <1>7 DEF EffectsOf
<1> QED BY <1>1, <1>5, <1>6, <1>7

LEMMA WhenFounded ==
    ASSUME NEW k, NEW b, NEW step, NEW base, b => Needs(TxOf(k, step)) \subseteq base
    PROVE  Founded(k, When(b, step), base)
<1>1. CASE b
  <2>1. When(b, step) = <<step>> /\ DOMAIN <<step>> = {1} /\ <<step>>[1] = step
    BY <1>1 DEF When
  <2> QED BY <1>1, <2>1 DEF Founded
<1>2. CASE ~b
  <2>1. When(b, step) = <<>> /\ DOMAIN <<>> = {}
    BY <1>2 DEF When
  <2> QED BY <2>1 DEF Founded
<1> QED BY <1>1, <1>2

LEMMA ConcatFounded ==
    ASSUME NEW S, NEW s \in Seq(S), NEW t \in Seq(S), NEW k, NEW base,
           Founded(k, s, base), Founded(k, t, base \cup EffectsOf(s))
    PROVE  Founded(k, s \o t, base)
<1>1. /\ DOMAIN (s \o t) = 1..(Len(s) + Len(t))
      /\ DOMAIN s = 1..Len(s) /\ DOMAIN t = 1..Len(t) /\ Len(s) \in Nat /\ Len(t) \in Nat
      /\ \A i \in DOMAIN s : (s \o t)[i] = s[i]
      /\ \A i \in DOMAIN t : (s \o t)[i + Len(s)] = t[i]
  OBVIOUS
<1> SUFFICES ASSUME NEW i \in DOMAIN (s \o t), NEW f \in Needs(TxOf(k, (s \o t)[i])), f \notin base
             PROVE  \E j \in 1..(i - 1) : f \in StepEffect((s \o t)[j])
  BY DEF Founded
<1>2. CASE i \in DOMAIN s
  <2>1. PICK j \in 1..(i - 1) : f \in StepEffect(s[j])
    BY <1>1, <1>2 DEF Founded
  <2>2. j \in DOMAIN s
    BY <1>1, <1>2, <2>1
  <2> QED BY <1>1, <2>1, <2>2
<1>3. CASE i \notin DOMAIN s
  <2>1. i - Len(s) \in DOMAIN t /\ (s \o t)[i] = t[i - Len(s)]
    BY <1>1, <1>3
  <2>2. \/ f \in EffectsOf(s)
        \/ \E j \in 1..(i - Len(s) - 1) : f \in StepEffect(t[j])
    BY <2>1 DEF Founded
  <2>3. CASE f \in EffectsOf(s)
    <3>1. PICK j \in DOMAIN s : f \in StepEffect(s[j])
      BY <2>3 DEF EffectsOf
    <3>2. j \in 1..(i - 1)
      BY <1>1, <2>1, <3>1
    <3> QED BY <1>1, <3>1, <3>2
  <2>4. CASE \E j \in 1..(i - Len(s) - 1) : f \in StepEffect(t[j])
    <3>1. PICK j \in 1..(i - Len(s) - 1) : f \in StepEffect(t[j])
      BY <2>4
    <3>2. j \in DOMAIN t /\ j + Len(s) \in 1..(i - 1)
      BY <1>1, <2>1, <3>1
    <3> QED BY <1>1, <3>1, <3>2
  <2> QED BY <2>2, <2>3, <2>4
<1> QED BY <1>2, <1>3

LEMMA TailFacts ==
    ASSUME NEW S, NEW s \in Seq(S), s # <<>>
    PROVE  /\ Tail(s) \in Seq(S) /\ Head(s) \in S /\ Len(Tail(s)) = Len(s) - 1
           /\ EffectsOf(s) = StepEffect(Head(s)) \cup EffectsOf(Tail(s))
<1>1. /\ Tail(s) \in Seq(S) /\ Head(s) \in S /\ Head(s) = s[1] /\ Len(s) \in Nat /\ 1 \in DOMAIN s
      /\ DOMAIN s = 1..Len(s) /\ DOMAIN Tail(s) = 1..(Len(s) - 1) /\ Len(Tail(s)) = Len(s) - 1
      /\ \A i \in DOMAIN Tail(s) : Tail(s)[i] = s[i + 1]
  OBVIOUS
<1>2. \A i \in DOMAIN Tail(s) : i + 1 \in DOMAIN s
  BY <1>1
<1>3. \A i \in DOMAIN s : i = 1 \/ (i - 1 \in DOMAIN Tail(s) /\ s[i] = Tail(s)[i - 1])
  BY <1>1
<1>4. ASSUME NEW f, f \in EffectsOf(s) PROVE f \in StepEffect(Head(s)) \cup EffectsOf(Tail(s))
  BY <1>1, <1>3, <1>4 DEF EffectsOf
<1>5. ASSUME NEW f, f \in StepEffect(Head(s)) \cup EffectsOf(Tail(s)) PROVE f \in EffectsOf(s)
  BY <1>1, <1>2, <1>5 DEF EffectsOf
<1> QED BY <1>1, <1>4, <1>5

LEMMA TailFounded ==
    ASSUME NEW S, NEW s \in Seq(S), s # <<>>, NEW k, NEW base,
           Founded(k, s, base), StepEffect(Head(s)) \subseteq base
    PROVE  Founded(k, Tail(s), base)
<1>1. /\ Head(s) = s[1] /\ Len(s) \in Nat
      /\ DOMAIN s = 1..Len(s) /\ DOMAIN Tail(s) = 1..(Len(s) - 1)
      /\ \A i \in DOMAIN Tail(s) : Tail(s)[i] = s[i + 1]
  OBVIOUS
<1> SUFFICES ASSUME NEW i \in DOMAIN Tail(s), NEW f \in Needs(TxOf(k, Tail(s)[i])), f \notin base
             PROVE  \E j \in 1..(i - 1) : f \in StepEffect(Tail(s)[j])
  BY DEF Founded
<1>2. i + 1 \in DOMAIN s /\ Tail(s)[i] = s[i + 1]
  BY <1>1
<1>3. PICK j \in 1..((i + 1) - 1) : f \in StepEffect(s[j])
  BY <1>2 DEF Founded
<1>4. j # 1
  BY <1>1, <1>3
<1>5. j - 1 \in 1..(i - 1) /\ j - 1 \in DOMAIN Tail(s) /\ Tail(s)[j - 1] = s[j]
  BY <1>1, <1>3, <1>4
<1> QED BY <1>3, <1>5

LEMMA FoundedGrows ==
    ASSUME NEW k, NEW s, NEW base, NEW more, Founded(k, s, base), base \subseteq more
    PROVE  Founded(k, s, more)
BY DEF Founded

LEMMA HeadFounded ==
    ASSUME NEW S, NEW s \in Seq(S), s # <<>>, NEW k, NEW base, Founded(k, s, base)
    PROVE  Needs(TxOf(k, Head(s))) \subseteq base
<1>1. 1 \in DOMAIN s /\ Head(s) = s[1] /\ 1..(1 - 1) = {}
  OBVIOUS
<1> QED BY <1>1 DEF Founded

-----------------------------------------------------------------------------
(* What the commands plan.                                                 *)

LEMMA SeqGrows ==
    ASSUME NEW S, NEW T, S \subseteq T, NEW s \in Seq(S)
    PROVE  s \in Seq(T)
OBVIOUS

LEMMA PoolSteps ==
    ASSUME NEW k
    PROVE  /\ \A op : StepEffect(ForPool(op)) = {<<op, Pool>>}
           /\ \A op : StepEffect(ForCall(op, k)) = {<<op, k>>}
           /\ Needs(TxOf(k, ForPool("metadata"))) = {}
           /\ Needs(TxOf(k, ForPool("locker"))) = {}
           /\ Needs(TxOf(k, ForPool("migrate"))) \subseteq
                 {<<"metadata", Pool>>} \cup (IF world.vesting THEN {<<"locker", Pool>>} ELSE {})
           /\ Needs(TxOf(k, ForPool("pool"))) = IF world.existing THEN {} ELSE {<<"config", k>>}
           /\ \A op \in OnCall : Needs(TxOf(k, ForCall(op, k))) = {}
           /\ \A op \in OnSide : \A on : Needs(TxOf(k, Shares(op, on))) = {<<"migrate", Pool>>}
BY DEF StepEffect, ForPool, ForCall, Shares, Needs, TxOf, OnSide, OnCall

LEMMA MigrationPlanFacts ==
    ASSUME NEW k, NEW facts, NEW base, facts \subseteq base
    PROVE  /\ MigrationPlan(facts) \in Seq(MigrationMenu)
           /\ EffectsOf(MigrationPlan(facts)) \cap facts = {}
           /\ <<"migrate", Pool>> \in facts \cup EffectsOf(MigrationPlan(facts))
           /\ Founded(k, MigrationPlan(facts), base)
<1> DEFINE m == When(<<"metadata", Pool>> \notin facts, ForPool("metadata"))
           l == When(world.vesting /\ <<"locker", Pool>> \notin facts, ForPool("locker"))
           g == When(<<"migrate", Pool>> \notin facts, ForPool("migrate"))
<1>1. m \in Seq(MigrationMenu) /\ l \in Seq(MigrationMenu) /\ g \in Seq(MigrationMenu)
  <2>1. /\ m \in Seq({ForPool("metadata")}) /\ l \in Seq({ForPool("locker")})
        /\ g \in Seq({ForPool("migrate")})
    BY WhenFacts
  <2>2. /\ {ForPool("metadata")} \subseteq MigrationMenu /\ {ForPool("locker")} \subseteq MigrationMenu
        /\ {ForPool("migrate")} \subseteq MigrationMenu
    BY DEF MigrationMenu
  <2> HIDE DEF m, l, g
  <2> QED BY <2>1, <2>2, SeqGrows
<1>2. /\ EffectsOf(m) = IF <<"metadata", Pool>> \notin facts THEN {<<"metadata", Pool>>} ELSE {}
      /\ EffectsOf(l) = IF world.vesting /\ <<"locker", Pool>> \notin facts
                        THEN {<<"locker", Pool>>} ELSE {}
      /\ EffectsOf(g) = IF <<"migrate", Pool>> \notin facts THEN {<<"migrate", Pool>>} ELSE {}
  BY WhenFacts, PoolSteps
<1>3. Founded(k, m, base) /\ Founded(k, l, base \cup EffectsOf(m))
  BY PoolSteps, WhenFounded
<1>4. ASSUME Needs(TxOf(k, ForPool("migrate"))) \subseteq base \cup EffectsOf(m \o l)
      PROVE  Founded(k, g, base \cup EffectsOf(m \o l))
  <2> DEFINE there == base \cup EffectsOf(m \o l)
  <2>1. Needs(TxOf(k, ForPool("migrate"))) \subseteq there
    BY <1>4
  <2> HIDE DEF there
  <2>2. (<<"migrate", Pool>> \notin facts) => Needs(TxOf(k, ForPool("migrate"))) \subseteq there
    BY <2>1
  <2>3. Founded(k, g, there)
    BY <2>2, WhenFounded
  <2> QED BY <2>3 DEF there
<1>5. MigrationPlan(facts) = (m \o l) \o g
  BY DEF MigrationPlan
<1> HIDE DEF m, l, g
<1>6. m \o l \in Seq(MigrationMenu) /\ EffectsOf(m \o l) = EffectsOf(m) \cup EffectsOf(l)
  BY <1>1, ConcatFacts
<1>7. Founded(k, m \o l, base)
  BY <1>1, <1>3, ConcatFounded
<1>8. Founded(k, g, base \cup EffectsOf(m \o l))
  <2> DEFINE there == base \cup EffectsOf(m \o l)
             need == Needs(TxOf(k, ForPool("migrate")))
  <2>1. <<"metadata", Pool>> \in there
    BY <1>2, <1>6
  <2>2. world.vesting => <<"locker", Pool>> \in there
    BY <1>2, <1>6
  <2>3. need \subseteq {<<"metadata", Pool>>} \cup (IF world.vesting THEN {<<"locker", Pool>>} ELSE {})
    BY PoolSteps
  <2> HIDE DEF there, need
  <2>4. need \subseteq there
    BY <2>1, <2>2, <2>3
  <2> QED BY <1>4, <2>4 DEF there, need
<1> DEFINE ml == m \o l
<1>9. /\ ml \in Seq(MigrationMenu) /\ EffectsOf(ml) = EffectsOf(m) \cup EffectsOf(l)
      /\ Founded(k, ml, base) /\ Founded(k, g, base \cup EffectsOf(ml))
  BY <1>6, <1>7, <1>8
<1>10. MigrationPlan(facts) = ml \o g
  BY <1>5
<1> HIDE DEF ml
<1>11. /\ ml \o g \in Seq(MigrationMenu)
       /\ EffectsOf(ml \o g) = EffectsOf(ml) \cup EffectsOf(g)
  BY <1>1, <1>9, ConcatFacts
<1>12. Founded(k, ml \o g, base)
  BY <1>1, <1>9, ConcatFounded
<1>13. /\ EffectsOf(ml \o g) \cap facts = {}
       /\ <<"migrate", Pool>> \in facts \cup EffectsOf(ml \o g)
  BY <1>2, <1>9, <1>11
<1> QED BY <1>10, <1>11, <1>12, <1>13

LEMMA SharesOfFacts ==
    ASSUME NEW k, NEW op \in OnSide, NEW amounts \in SUBSET Side, NEW facts, NEW base,
           world.same => (<<op, "creator">> \in facts <=> <<op, "partner">> \in facts),
           <<"migrate", Pool>> \in base
    PROVE  /\ SharesOf(op, amounts, facts) \in Seq(ShareMenu)
           /\ EffectsOf(SharesOf(op, amounts, facts)) \cap facts = {}
           /\ {op} \X amounts \subseteq facts \cup EffectsOf(SharesOf(op, amounts, facts))
           /\ Founded(k, SharesOf(op, amounts, facts), base)
<1>1. \A on : Needs(TxOf(k, Shares(op, on))) \subseteq base
  BY PoolSteps
<1>2. \A on : StepEffect(Shares(op, on)) = {op} \X on
  BY DEF StepEffect, Shares
<1>3. CASE world.same
  <2> DEFINE b == amounts # {} /\ \A s \in Side : <<op, s>> \notin facts
  <2>1. SharesOf(op, amounts, facts) = When(b, Shares(op, Side))
    BY <1>3 DEF SharesOf
  <2>2. Shares(op, Side) \in ShareMenu
    BY <1>3 DEF ShareMenu, ShareSets
  <2>3. b \/ {op} \X amounts \subseteq facts
    <3>1. ASSUME ~b, NEW a \in amounts PROVE <<op, a>> \in facts
      <4>1. a \in Side /\ \E s \in Side : <<op, s>> \in facts
        BY <3>1
      <4> QED BY <1>3, <4>1 DEF Side
    <3> HIDE DEF b
    <3>2. ASSUME ~b, NEW f \in {op} \X amounts PROVE f \in facts
      <4>1. PICK a \in amounts : f = <<op, a>>
        OBVIOUS
      <4> QED BY <3>1, <3>2, <4>1
    <3> QED BY <3>2
  <2>4. b => {op} \X Side \cap facts = {} /\ {op} \X amounts \subseteq {op} \X Side
    OBVIOUS
  <2> HIDE DEF b
  <2>5. Founded(k, When(b, Shares(op, Side)), base)
    BY <1>1, WhenFounded
  <2>6. /\ When(b, Shares(op, Side)) \in Seq({Shares(op, Side)})
        /\ EffectsOf(When(b, Shares(op, Side))) = IF b THEN {op} \X Side ELSE {}
    BY <1>2, WhenFacts
  <2>7. When(b, Shares(op, Side)) \in Seq(ShareMenu)
    BY <2>2, <2>6, SeqGrows
  <2> QED BY <2>1, <2>3, <2>4, <2>5, <2>6, <2>7
<1>4. CASE ~world.same
  <2> DEFINE c == "creator" \in amounts /\ <<op, "creator">> \notin facts
             p == "partner" \in amounts /\ <<op, "partner">> \notin facts
             s == When(c, Shares(op, {"creator"}))
             t == When(p, Shares(op, {"partner"}))
  <2>1. SharesOf(op, amounts, facts) = s \o t
    BY <1>4 DEF SharesOf
  <2>2. Shares(op, {"creator"}) \in ShareMenu /\ Shares(op, {"partner"}) \in ShareMenu
    BY <1>4 DEF ShareMenu, ShareSets
  <2>3. \A f \in {op} \X amounts :
          \/ f \in facts
          \/ c /\ f = <<op, "creator">>
          \/ p /\ f = <<op, "partner">>
    <3>1. ASSUME NEW f \in {op} \X amounts
          PROVE  \/ f = <<op, "creator">> /\ "creator" \in amounts
                 \/ f = <<op, "partner">> /\ "partner" \in amounts
      <4>1. PICK a \in amounts : f = <<op, a>>
        OBVIOUS
      <4> QED BY <4>1 DEF Side
    <3> QED BY <3>1
  <2>4. (c => <<op, "creator">> \notin facts) /\ (p => <<op, "partner">> \notin facts)
    OBVIOUS
  <2> HIDE DEF c, p
  <2>5. Founded(k, s, base) /\ Founded(k, t, base)
    BY <1>1, WhenFounded
  <2>6. /\ s \in Seq({Shares(op, {"creator"})}) /\ t \in Seq({Shares(op, {"partner"})})
        /\ EffectsOf(s) = IF c THEN {op} \X {"creator"} ELSE {}
        /\ EffectsOf(t) = IF p THEN {op} \X {"partner"} ELSE {}
    BY <1>2, WhenFacts
  <2> HIDE DEF s, t
  <2>7. s \in Seq(ShareMenu) /\ t \in Seq(ShareMenu)
    BY <2>2, <2>6, SeqGrows
  <2>8. s \o t \in Seq(ShareMenu) /\ EffectsOf(s \o t) = EffectsOf(s) \cup EffectsOf(t)
    BY <2>7, ConcatFacts
  <2>9. Founded(k, t, base \cup EffectsOf(s))
    BY <2>5, FoundedGrows
  <2>10. Founded(k, s \o t, base)
    BY <2>5, <2>7, <2>9, ConcatFounded
  <2>11. /\ c => <<op, "creator">> \in EffectsOf(s)
         /\ p => <<op, "partner">> \in EffectsOf(t)
         /\ \A f \in EffectsOf(s) : c /\ f = <<op, "creator">>
         /\ \A f \in EffectsOf(t) : p /\ f = <<op, "partner">>
    BY <2>6
  <2>12. EffectsOf(s \o t) \cap facts = {}
    BY <2>4, <2>8, <2>11
  <2>13. {op} \X amounts \subseteq facts \cup EffectsOf(s \o t)
    BY <2>3, <2>8, <2>11
  <2> QED BY <2>1, <2>8, <2>10, <2>12, <2>13
<1> QED BY <1>3, <1>4

LEMMA LpPlanFacts ==
    ASSUME NEW k, NEW facts, NEW base, world \in World,
           world.same => \A op \in OnSide : <<op, "creator">> \in facts <=> <<op, "partner">> \in facts,
           <<"migrate", Pool>> \in base
    PROVE  /\ LpPlan(facts) \in Seq(ShareMenu)
           /\ EffectsOf(LpPlan(facts)) \cap facts = {}
           /\ ({"claim"} \X world.claimable) \cup ({"lock"} \X world.lockable)
                 \subseteq facts \cup EffectsOf(LpPlan(facts))
           /\ Founded(k, LpPlan(facts), base)
<1>1. world.claimable \in SUBSET Side /\ world.lockable \in SUBSET Side
  BY DEF World
<1>2. "claim" \in OnSide /\ "lock" \in OnSide
  BY DEF OnSide
<1> DEFINE s == SharesOf("claim", world.claimable, facts)
           t == SharesOf("lock", world.lockable, facts)
<1>3. /\ s \in Seq(ShareMenu) /\ EffectsOf(s) \cap facts = {}
      /\ {"claim"} \X world.claimable \subseteq facts \cup EffectsOf(s)
      /\ Founded(k, s, base)
  <2>1. world.same => (<<"claim", "creator">> \in facts <=> <<"claim", "partner">> \in facts)
    BY <1>2
  <2> QED BY ZenonT(60), <1>1, <1>2, <2>1, SharesOfFacts
<1>4. /\ t \in Seq(ShareMenu) /\ EffectsOf(t) \cap facts = {}
      /\ {"lock"} \X world.lockable \subseteq facts \cup EffectsOf(t)
      /\ Founded(k, t, base)
  <2>1. world.same => (<<"lock", "creator">> \in facts <=> <<"lock", "partner">> \in facts)
    BY <1>2
  <2> QED BY ZenonT(60), <1>1, <1>2, <2>1, SharesOfFacts
<1>5. LpPlan(facts) = s \o t
  BY DEF LpPlan
<1> HIDE DEF s, t
<1>6. s \o t \in Seq(ShareMenu) /\ EffectsOf(s \o t) = EffectsOf(s) \cup EffectsOf(t)
  BY <1>3, <1>4, ConcatFacts
<1>7. Founded(k, t, base \cup EffectsOf(s))
  BY <1>4, FoundedGrows
<1>8. Founded(k, s \o t, base)
  BY <1>3, <1>4, <1>7, ConcatFounded
<1> QED BY <1>3, <1>4, <1>5, <1>6, <1>8

LEMMA FeePlanFacts ==
    ASSUME NEW k, NEW base
    PROVE  /\ FeePlan(k) \in Seq({ForCall("creatorFee", k), ForCall("partnerFee", k)})
           /\ EffectsOf(FeePlan(k)) = {<<s.op, k>> : s \in {FeePlan(k)[i] : i \in DOMAIN FeePlan(k)}}
           /\ Founded(k, FeePlan(k), base)
<1> DEFINE menu == {ForCall("creatorFee", k), ForCall("partnerFee", k)}
           s == When("creator" \in world.roles, ForCall("creatorFee", k))
           t == When("partner" \in world.roles, ForCall("partnerFee", k))
<1>1. s \in Seq(menu) /\ t \in Seq(menu)
  <2>1. s \in Seq({ForCall("creatorFee", k)}) /\ t \in Seq({ForCall("partnerFee", k)})
    BY WhenFacts
  <2>2. {ForCall("creatorFee", k)} \subseteq menu /\ {ForCall("partnerFee", k)} \subseteq menu
    OBVIOUS
  <2> HIDE DEF s, t, menu
  <2> QED BY <2>1, <2>2, SeqGrows
<1>2. Needs(TxOf(k, ForCall("creatorFee", k))) = {} /\ Needs(TxOf(k, ForCall("partnerFee", k))) = {}
  BY PoolSteps DEF OnCall
<1>3. Founded(k, s, base) /\ Founded(k, t, base)
  BY <1>2, WhenFounded
<1>4. FeePlan(k) = s \o t
  BY DEF FeePlan
<1>5. \A step \in menu : StepEffect(step) = {<<step.op, k>>}
  BY DEF StepEffect, ForCall
<1> HIDE DEF s, t, menu
<1>6. s \o t \in Seq(menu)
  BY <1>1, ConcatFacts
<1>7. Founded(k, t, base \cup EffectsOf(s))
  BY <1>3, FoundedGrows
<1>8. Founded(k, s \o t, base)
  BY <1>1, <1>3, <1>7, ConcatFounded
<1>9. ASSUME NEW u \in Seq(menu)
      PROVE  EffectsOf(u) = {<<step.op, k>> : step \in {u[i] : i \in DOMAIN u}}
  <2>1. \A i \in DOMAIN u : StepEffect(u[i]) = {<<u[i].op, k>>}
    BY <1>5
  <2> QED BY <2>1 DEF EffectsOf
<1>10. EffectsOf(FeePlan(k)) = {<<step.op, k>> : step \in {FeePlan(k)[i] : i \in DOMAIN FeePlan(k)}}
  BY <1>4, <1>6, <1>9
<1> QED BY <1>4, <1>6, <1>8, <1>10 DEF menu

LEMMA CreatePlanFacts ==
    ASSUME NEW k, NEW base
    PROVE  /\ CreatePlan(k) \in Seq({ForCall("config", k), ForPool("pool")})
           /\ CreatePlan(k) # <<>>
           /\ <<"pool", Pool>> \in EffectsOf(CreatePlan(k))
           /\ Founded(k, CreatePlan(k), base)
<1> DEFINE menu == {ForCall("config", k), ForPool("pool")}
           s == When(~world.existing, ForCall("config", k))
           t == When(TRUE, ForPool("pool"))
<1>1. s \in Seq(menu) /\ t \in Seq(menu)
  <2>1. s \in Seq({ForCall("config", k)}) /\ t \in Seq({ForPool("pool")})
    BY WhenFacts
  <2>2. {ForCall("config", k)} \subseteq menu /\ {ForPool("pool")} \subseteq menu
    OBVIOUS
  <2> HIDE DEF s, t, menu
  <2> QED BY <2>1, <2>2, SeqGrows
<1>2. /\ EffectsOf(s) = IF ~world.existing THEN {<<"config", k>>} ELSE {}
      /\ EffectsOf(t) = {<<"pool", Pool>>}
  BY WhenFacts, PoolSteps
<1>3. Needs(TxOf(k, ForCall("config", k))) = {}
  BY PoolSteps DEF OnCall
<1>4. Founded(k, s, base)
  BY <1>3, WhenFounded
<1>5. ASSUME NEW there, Needs(TxOf(k, ForPool("pool"))) \subseteq there
      PROVE  Founded(k, t, there)
  BY <1>5, WhenFounded
<1>6. CreatePlan(k) = s \o t
  BY DEF CreatePlan, When
<1> HIDE DEF s, t, menu
<1>7. Needs(TxOf(k, ForPool("pool"))) \subseteq base \cup EffectsOf(s)
  BY <1>2, PoolSteps
<1>8. Founded(k, t, base \cup EffectsOf(s))
  BY <1>5, <1>7
<1>9. s \o t \in Seq(menu) /\ EffectsOf(s \o t) = EffectsOf(s) \cup EffectsOf(t)
  BY <1>1, ConcatFacts
<1>10. Founded(k, s \o t, base)
  BY <1>1, <1>4, <1>8, ConcatFounded
<1>11. s \o t # <<>>
  <2>1. SUFFICES ASSUME s \o t = <<>> PROVE FALSE
    OBVIOUS
  <2>2. <<"pool", Pool>> \in EffectsOf(<<>>)
    BY <1>2, <1>9, <2>1
  <2>3. DOMAIN <<>> = {}
    OBVIOUS
  <2> QED BY <2>2, <2>3 DEF EffectsOf
<1>12. <<"pool", Pool>> \in EffectsOf(s \o t)
  BY <1>2, <1>9
<1> QED BY <1>6, <1>9, <1>10, <1>11, <1>12 DEF menu

-----------------------------------------------------------------------------
(* One call, seen from the others and from the chain.                      *)

Fixed == UNCHANGED <<inputs, world>>
Rests(j) ==
    /\ place'[j] = place[j] /\ seen'[j] = seen[j] /\ queue'[j] = queue[j]
    /\ sharing'[j] = sharing[j] /\ att'[j] = att[j]
SameSwaps(j) ==
    /\ swaps'[j] = swaps[j] /\ Late(j)' = Late(j)
    /\ CurrentTx(j) \in ran => CurrentTx(j) \in ran'

LEMMA FixedFacts ==
    ASSUME Fixed, NEW k
    PROVE  /\ Goal(k)' = Goal(k) /\ Repertoire(k)' = Repertoire(k)
           /\ cmd'[k] = cmd[k] /\ dry'[k] = dry[k] /\ world' = world
<1>1. cmd' = cmd /\ dry' = dry /\ world' = world
  BY DEF Fixed, inputs
<1>2. FeePlan(k)' = FeePlan(k)
  BY <1>1 DEF FeePlan, When, ForCall
<1>3. Goal(k)' = Goal(k)
  BY <1>1, <1>2 DEF Goal
<1>4. ShareMenu' = ShareMenu
  BY <1>1 DEF ShareMenu, ShareSets
<1>5. Repertoire(k)' = Repertoire(k)
  BY <1>1, <1>4 DEF Repertoire, MigrationMenu, ForCall, ForPool
<1> QED BY <1>1, <1>3, <1>5

LEMMA RepertoireFacts ==
    ASSUME TypeOK, NEW k \in Call
    PROVE  /\ Repertoire(k) \subseteq Step
           /\ \A step \in Repertoire(k) : step.op = "swap" <=> cmd[k] = "swap"
           /\ \A step \in Repertoire(k) : step.op = "swap" => step = ForCall("swap", k)
           /\ \A step \in Repertoire(k) : step.op \in OnSide =>
                 IF world.same THEN step.on = Side ELSE \E s \in Side : step.on = {s}
           /\ \A step \in Repertoire(k) : step.op \notin OnSide => \E a : step.on = {a}
<1>1. /\ ForCall("config", k) \in Step /\ ForCall("creatorFee", k) \in Step
      /\ ForCall("partnerFee", k) \in Step /\ ForCall("swap", k) \in Step
  BY DEF ForCall, Step, OnCall
<1>2. ForPool("pool") \in Step /\ MigrationMenu \subseteq Step
  BY DEF ForPool, MigrationMenu, Step, OnPool
<1>3. \A step \in ShareMenu :
        /\ step.op \in OnSide /\ step.on \in SUBSET Side /\ step \in Step
        /\ IF world.same THEN step.on = Side ELSE \E s \in Side : step.on = {s}
  <2> SUFFICES ASSUME NEW op \in OnSide, NEW sides \in ShareSets
               PROVE  LET step == Shares(op, sides) IN
                        /\ step.op \in OnSide /\ step.on \in SUBSET Side /\ step \in Step
                        /\ IF world.same THEN step.on = Side ELSE \E s \in Side : step.on = {s}
    BY DEF ShareMenu
  <2>1. sides \in SUBSET Side /\ IF world.same THEN sides = Side ELSE \E s \in Side : sides = {s}
    BY DEF ShareSets, Side
  <2>2. Shares(op, sides) \in Step
    BY <2>1 DEF Shares, Step
  <2> QED BY <2>1, <2>2 DEF Shares
<1>4. \A step \in MigrationMenu : step.op \in {"metadata", "locker", "migrate"} /\ step.on = {Pool}
  BY DEF MigrationMenu, ForPool
<1>5. CASE cmd[k] \notin {"create", "fees", "swap"}
  <2>1. Repertoire(k) = MigrationMenu \cup ShareMenu /\ cmd[k] # "swap"
    BY <1>5 DEF Repertoire
  <2> QED BY <1>2, <1>3, <1>4, <2>1 DEF OnSide
<1>6. CASE cmd[k] \in {"create", "fees", "swap"}
  <2>1. /\ \A op : ForCall(op, k).op = op /\ ForCall(op, k).on = {k}
        /\ \A op : ForPool(op).op = op /\ ForPool(op).on = {Pool}
    BY DEF ForCall, ForPool
  <2>2. \A op \in {"config", "pool", "creatorFee", "partnerFee", "swap"} : op \notin OnSide
    BY DEF OnSide
  <2>3. CASE cmd[k] = "create"
    <3>1. Repertoire(k) = {ForCall("config", k), ForPool("pool")}
      BY <2>3 DEF Repertoire
    <3> QED BY ZenonT(60), <1>1, <1>2, <2>1, <2>2, <2>3, <3>1
  <2>4. CASE cmd[k] = "fees"
    <3>1. Repertoire(k) = {ForCall("creatorFee", k), ForCall("partnerFee", k)}
      BY <2>4 DEF Repertoire
    <3> QED BY ZenonT(60), <1>1, <2>1, <2>2, <2>4, <3>1
  <2>5. CASE cmd[k] = "swap"
    <3>1. Repertoire(k) = {ForCall("swap", k)}
      BY <2>5 DEF Repertoire
    <3> QED BY <1>1, <2>1, <2>2, <2>5, <3>1
  <2> QED BY <1>6, <2>3, <2>4, <2>5
<1> QED BY <1>5, <1>6

LEMMA FoundedLater ==
    ASSUME NEW k, world' = world, Founded(k, queue'[k], done')
    PROVE  Founded(k, queue[k], done)'
BY DEF Founded, Needs, TxOf

LEMMA StillPlanned ==
    ASSUME NEW j, CallOK(j), Fixed, Rests(j), done \subseteq done'
    PROVE  (QueueOK(j) /\ StageOK(j) /\ PlanOK(j))'
<1>1. /\ Goal(j)' = Goal(j) /\ Repertoire(j)' = Repertoire(j)
      /\ cmd'[j] = cmd[j] /\ dry'[j] = dry[j] /\ world' = world
  BY FixedFacts
<1>2. /\ place'[j] = place[j] /\ seen'[j] = seen[j] /\ queue'[j] = queue[j]
      /\ sharing'[j] = sharing[j] /\ att'[j] = att[j]
  BY DEF Rests
<1>3. QueueOK(j)'
  BY <1>1, <1>2 DEF CallOK, QueueOK, InLoop
<1>4. StageOK(j)'
  BY <1>1, <1>2 DEF CallOK, StageOK
<1>5. Stage(j)' = Stage(j) /\ (InLoop(j))' = InLoop(j)
  BY <1>1, <1>2 DEF Stage, InLoop
<1>6. ASSUME InLoop(j), ~dry[j] PROVE (Founded(j, queue[j], done))'
  <2>1. Founded(j, queue[j], done)
    BY <1>6 DEF CallOK, PlanOK
  <2>2. Founded(j, queue'[j], done')
    BY <1>2, <2>1, FoundedGrows
  <2> QED BY <1>1, <2>2, FoundedLater
<1>7. PlanOK(j)'
  BY <1>1, <1>2, <1>5, <1>6 DEF CallOK, PlanOK
<1> QED BY <1>3, <1>4, <1>7

LEMMA StillPaidOnce ==
    ASSUME NEW j, CallOK(j), Fixed, Rests(j), SameSwaps(j)
    PROVE  (SwapOK(j) /\ OnceOK(j))'
<1>1. /\ cmd'[j] = cmd[j] /\ world' = world /\ place'[j] = place[j] /\ att'[j] = att[j]
      /\ queue'[j] = queue[j] /\ swaps'[j] = swaps[j] /\ Late(j)' = Late(j)
      /\ CurrentTx(j) \in ran => CurrentTx(j) \in ran'
  BY FixedFacts DEF Rests, SameSwaps
<1>2. Paid(j)' = Paid(j)
  BY <1>1 DEF Paid
<1>3. CurrentTx(j)' = CurrentTx(j)
  BY <1>1 DEF CurrentTx
<1>4. SwapOK(j)'
  BY <1>1, <1>2 DEF CallOK, SwapOK
<1>5. OnceOK(j)'
  BY <1>1, <1>2, <1>3 DEF CallOK, OnceOK
<1> QED BY <1>4, <1>5

LEMMA OthersKeep ==
    ASSUME DbcInv, NEW k, Fixed, done \subseteq done',
           \A j \in Call \ {k} : Rests(j) /\ SameSwaps(j), CallOK(k)'
    PROVE  (\A j \in Call : CallOK(j))'
<1> SUFFICES ASSUME NEW j \in Call PROVE CallOK(j)'
  OBVIOUS
<1>1. CASE j = k
  BY <1>1
<1>2. CASE j # k
  <2>1. CallOK(j) /\ Rests(j) /\ SameSwaps(j)
    BY <1>2 DEF DbcInv
  <2>2. (QueueOK(j) /\ StageOK(j) /\ PlanOK(j))'
    BY <2>1, StillPlanned
  <2>3. (SwapOK(j) /\ OnceOK(j))'
    BY <2>1, StillPaidOnce
  <2> QED BY <2>2, <2>3 DEF CallOK
<1> QED BY <1>1, <1>2

-----------------------------------------------------------------------------
(* The ways a call may move.                                               *)

LEMMA PaidFacts ==
    ASSUME TypeOK, NEW k \in Call
    PROVE  /\ IsFiniteSet(Late(k)) /\ Cardinality(Late(k)) \in Nat
           /\ swaps[k] \in Nat /\ Paid(k) \in Nat /\ att[k] \in 1..MaxAttempts /\ MaxAttempts \in Nat
           /\ Cardinality(Late(k)) = 0 <=> Late(k) = {}
<1>1. MaxAttempts \in Nat
  BY AttemptsAssumption
<1>2. IsFiniteSet(1..MaxAttempts)
  BY <1>1, FS_Interval
<1>3. Late(k) \subseteq 1..MaxAttempts
  BY DEF Late
<1>4. IsFiniteSet(Late(k))
  BY <1>2, <1>3, FS_Subset
<1>5. Cardinality(Late(k)) \in Nat /\ (Cardinality(Late(k)) = 0 <=> Late(k) = {})
  BY <1>4, FS_CardinalityType, FS_EmptySet
<1>6. swaps[k] \in 0..MaxAttempts /\ att[k] \in 1..MaxAttempts
  BY DEF TypeOK, ChainTypeOK
<1>7. swaps[k] \in Nat
  BY <1>6
<1> QED BY <1>1, <1>4, <1>5, <1>6, <1>7 DEF Paid

\* A call that ends keeps what it sent; without a goal only in a dry run.
LEMMA LeaveKeeps ==
    ASSUME DbcInv, NEW k \in Call, Fixed, UNCHANGED <<live, done, swaps>>,
           place'[k] \in Ended, place'[k] = "returned" => dry[k],
           seen'[k] = seen[k], queue'[k] = queue[k], sharing'[k] = sharing[k], att'[k] = att[k]
    PROVE  CallOK(k)'
<1>1. /\ Goal(k)' = Goal(k) /\ Repertoire(k)' = Repertoire(k)
      /\ cmd'[k] = cmd[k] /\ dry'[k] = dry[k] /\ world' = world
  BY FixedFacts
<1>2. CallOK(k) /\ TypeOK
  BY DEF DbcInv
<1>3. QueueOK(k)'
  BY <1>1, <1>2 DEF CallOK, QueueOK, InLoop, Ended
<1>4. StageOK(k)'
  BY <1>1, <1>2 DEF CallOK, StageOK, Ended
<1>5. PlanOK(k)'
  BY <1>1, <1>2 DEF CallOK, PlanOK, InLoop, Ended
<1>6. Paid(k)' = Paid(k)
  BY DEF Paid, Late
<1>7. cmd[k] = "swap" => Paid(k) <= MaxAttempts
  <2>1. /\ Paid(k) \in Nat /\ att[k] \in 1..MaxAttempts /\ MaxAttempts \in Nat
    BY <1>2, PaidFacts
  <2> QED BY <1>2, <2>1 DEF CallOK, SwapOK
<1>8. SwapOK(k)'
  BY <1>1, <1>2, <1>6, <1>7 DEF CallOK, SwapOK, Ended
<1>9. OnceOK(k)'
  BY <1>1, <1>2, <1>6 DEF CallOK, OnceOK, Ended
<1> QED BY <1>3, <1>4, <1>5, <1>8, <1>9 DEF CallOK

\* A call that goes on reading has paid for nothing and queued nothing.
LEMMA ReadKeeps ==
    ASSUME DbcInv, NEW k \in Call, Fixed, UNCHANGED <<live, done, swaps>>,
           queue'[k] = queue[k], sharing'[k] = sharing[k], att'[k] = att[k],
           place[k] \in {"idle", "readPool", "readMetadata"},
           seen'[k] \subseteq done,
           \/ place'[k] = "readPool" /\ seen'[k] = {} /\ cmd[k] # "create"
           \/ /\ place'[k] \in {"readMetadata", "readLocker"}
              /\ cmd[k] \in {"migrateV1", "migrateV2"}
    PROVE  CallOK(k)'
<1>1. /\ Goal(k)' = Goal(k) /\ Repertoire(k)' = Repertoire(k)
      /\ cmd'[k] = cmd[k] /\ dry'[k] = dry[k] /\ world' = world
  BY FixedFacts
<1>2. CallOK(k) /\ TypeOK
  BY DEF DbcInv
<1>3. QueueOK(k)'
  BY <1>1, <1>2 DEF CallOK, QueueOK, InLoop
<1>4. StageOK(k)'
  BY <1>1, <1>2 DEF CallOK, StageOK
<1>5. PlanOK(k)'
  BY <1>1, <1>2 DEF CallOK, PlanOK, InLoop
<1>6. Paid(k)' = Paid(k)
  BY DEF Paid, Late
<1>7. SwapOK(k)'
  BY <1>1, <1>2, <1>6 DEF CallOK, SwapOK, Ended
<1>8. OnceOK(k)'
  BY <1>1, <1>2, <1>6 DEF CallOK, OnceOK
<1> QED BY <1>3, <1>4, <1>5, <1>7, <1>8 DEF CallOK

\* A call that takes up a list of steps, the rest of one or a new one.
LEMMA ContinueKeeps ==
    ASSUME DbcInv, NEW k \in Call, NEW steps \in Seq(Repertoire(k)), Continue(k, steps),
           Fixed, UNCHANGED <<live, done, swaps>>,
           cmd[k] = "swap" => Len(steps) <= 1 /\ (steps = <<>> \/ Paid(k) = 0),
           sharing'[k] => cmd[k] = "migrateV1" /\ (dry[k] \/ <<"migrate", Pool>> \in done),
           seen'[k] \subseteq done,
           EffectsOf(steps) \cap seen'[k] = {},
           ~dry[k] => /\ Founded(k, steps, done)
                      /\ (IF cmd[k] = "migrateV1" /\ ~sharing'[k] THEN {<<"migrate", Pool>>} ELSE Goal(k))
                            \subseteq done \cup EffectsOf(steps)
    PROVE  CallOK(k)'
<1>1. /\ Goal(k)' = Goal(k) /\ Repertoire(k)' = Repertoire(k)
      /\ cmd'[k] = cmd[k] /\ dry'[k] = dry[k] /\ world' = world
  BY FixedFacts
<1>2. CallOK(k) /\ TypeOK
  BY DEF DbcInv
<1>3. /\ queue'[k] = steps /\ att'[k] = 1
      /\ place'[k] = IF steps # <<>> THEN "send"
                     ELSE IF cmd[k] = "migrateV1" /\ ~sharing'[k] THEN "readLp" ELSE "returned"
  BY <1>2 DEF Continue, Goto, TypeOK
<1>4. steps = <<>> => EffectsOf(steps) = {}
  BY DEF EffectsOf
<1>5. Stage(k)' = IF cmd[k] = "migrateV1" /\ ~sharing'[k] THEN {<<"migrate", Pool>>} ELSE Goal(k)
  BY <1>1 DEF Stage
<1>6. QueueOK(k)'
  BY <1>1, <1>3 DEF QueueOK, InLoop
<1>7. StageOK(k)'
  BY <1>1, <1>3, <1>4 DEF StageOK
<1>8. ASSUME ~dry[k] PROVE (Founded(k, queue[k], done))'
  <2>1. Founded(k, queue'[k], done')
    BY <1>3, <1>8
  <2> QED BY <1>1, <2>1, FoundedLater
<1>9. PlanOK(k)'
  BY <1>1, <1>3, <1>4, <1>5, <1>8 DEF PlanOK, InLoop
<1>10. Paid(k)' = Paid(k) /\ Late(k)' = Late(k)
  BY DEF Paid, Late
<1>11. cmd[k] = "swap" => Paid(k) <= MaxAttempts
  <2>1. /\ Paid(k) \in Nat /\ att[k] \in 1..MaxAttempts /\ MaxAttempts \in Nat
    BY <1>2, PaidFacts
  <2> QED BY <1>2, <2>1 DEF CallOK, SwapOK
<1>12. SwapOK(k)'
  BY <1>1, <1>2, <1>3, <1>10, <1>11 DEF CallOK, SwapOK, Ended
<1>13. OnceOK(k)'
  BY <1>1, <1>2, <1>3, <1>10 DEF CallOK, OnceOK
<1> QED BY <1>6, <1>7, <1>9, <1>12, <1>13 DEF CallOK

\* What a call that awaits or sends a swap has at the head of its queue.
LEMMA HeadFacts ==
    ASSUME DbcInv, NEW k \in Call, InLoop(k)
    PROVE  /\ Head(queue[k]) \in Repertoire(k) /\ queue[k] # <<>>
           /\ queue[k] \in Seq(Repertoire(k))
           /\ CurrentTx(k) \in Tx /\ CurrentTx(k).call = k /\ CurrentTx(k).step = Head(queue[k])
           /\ Needs(CurrentTx(k)) = Needs(TxOf(k, Head(queue[k])))
           /\ Effect(CurrentTx(k)) = StepEffect(Head(queue[k]))
           /\ cmd[k] = "swap" => CurrentTx(k) = SwapTx(k, att[k])
           /\ cmd[k] # "swap" => Head(queue[k]).op # "swap"
<1>1. TypeOK /\ QueueOK(k)
  BY DEF DbcInv, CallOK
<1>2. queue[k] \in Seq(Repertoire(k)) /\ queue[k] # <<>>
  BY <1>1 DEF QueueOK
<1>3. Head(queue[k]) \in Repertoire(k)
  BY <1>2
<1>4. /\ Repertoire(k) \subseteq Step
      /\ \A step \in Repertoire(k) : step.op = "swap" <=> cmd[k] = "swap"
      /\ \A step \in Repertoire(k) : step.op = "swap" => step = ForCall("swap", k)
  BY <1>1, RepertoireFacts
<1>5. att[k] \in 1..MaxAttempts
  BY <1>1 DEF TypeOK
<1>6. CurrentTx(k).call = k /\ CurrentTx(k).step = Head(queue[k])
  BY DEF CurrentTx
<1>7. CurrentTx(k) \in Tx
  BY <1>3, <1>4, <1>5 DEF CurrentTx, Tx
<1>8. Needs(CurrentTx(k)) = Needs(TxOf(k, Head(queue[k])))
  BY DEF Needs, TxOf, CurrentTx
<1>9. Effect(CurrentTx(k)) = StepEffect(Head(queue[k]))
  BY <1>6 DEF Effect, StepEffect
<1>10. cmd[k] = "swap" => CurrentTx(k) = SwapTx(k, att[k])
  BY <1>3, <1>4 DEF CurrentTx, SwapTx
<1> QED BY <1>2, <1>3, <1>4, <1>6, <1>7, <1>8, <1>9, <1>10

LEMMA SendKeeps ==
    ASSUME DbcInv, NEW k \in Call, Send(k)
    PROVE  CallOK(k)'
<1>1. Fixed
  BY DEF Send, Submit, Keep, Fixed
<1>2. /\ Goal(k)' = Goal(k) /\ Repertoire(k)' = Repertoire(k)
      /\ cmd'[k] = cmd[k] /\ dry'[k] = dry[k] /\ world' = world
  BY <1>1, FixedFacts
<1>3. CallOK(k) /\ TypeOK
  BY DEF DbcInv
<1>4. /\ place[k] = "send" /\ place'[k] = "confirm" /\ UNCHANGED <<seen, queue, sharing, att>>
      /\ live' = live \cup {CurrentTx(k)} /\ UNCHANGED <<ran, done, swaps>>
  BY <1>3 DEF Send, Submit, Keep, Goto, TypeOK
<1>5. QueueOK(k)'
  BY <1>2, <1>3, <1>4 DEF CallOK, QueueOK, InLoop
<1>6. StageOK(k)'
  BY <1>2, <1>3, <1>4 DEF CallOK, StageOK
<1>7. InLoop(k) /\ (InLoop(k))' /\ Stage(k)' = Stage(k)
  BY <1>2, <1>4 DEF InLoop, Stage
<1>8. ASSUME ~dry[k] PROVE (Founded(k, queue[k], done))'
  <2>1. Founded(k, queue'[k], done')
    BY <1>3, <1>4, <1>7, <1>8 DEF CallOK, PlanOK
  <2> QED BY <1>2, <2>1, FoundedLater
<1>9. PlanOK(k)'
  BY <1>2, <1>3, <1>4, <1>7, <1>8 DEF CallOK, PlanOK
<1>10. ASSUME cmd[k] = "swap"
       PROVE  Late(k)' = Late(k) \cup {att[k]} /\ Paid(k)' \in Nat /\ Paid(k)' <= Paid(k) + 1
  <2>1. CurrentTx(k) = SwapTx(k, att[k]) /\ att[k] \in 1..MaxAttempts
    BY <1>3, <1>7, <1>10, HeadFacts, PaidFacts
  <2>2. \A n : SwapTx(k, n) = SwapTx(k, att[k]) => n = att[k]
    BY DEF SwapTx
  <2>3. Late(k)' = Late(k) \cup {att[k]}
    BY <1>4, <2>1, <2>2 DEF Late, SwapTx, ForCall
  <2>4. /\ IsFiniteSet(Late(k)) /\ Cardinality(Late(k)) \in Nat /\ swaps[k] \in Nat
    BY <1>3, PaidFacts
  <2>5. Cardinality(Late(k) \cup {att[k]}) \in {Cardinality(Late(k)), Cardinality(Late(k)) + 1}
    BY <2>4, FS_AddElement
  <2>6. Paid(k)' = swaps[k] + Cardinality(Late(k) \cup {att[k]})
    BY <1>4, <2>3 DEF Paid
  <2> QED BY <2>3, <2>4, <2>5, <2>6 DEF Paid
<1>11. SwapOK(k)'
  <2>1. Paid(k) \in Nat /\ att[k] \in 1..MaxAttempts /\ MaxAttempts \in Nat
    BY <1>3, PaidFacts
  <2>2. CASE cmd[k] = "swap"
    <3>1. Paid(k) <= att[k] - 1
      BY <1>3, <1>4, <2>2 DEF CallOK, SwapOK
    <3>2. Paid(k)' <= att[k]
      BY <1>10, <2>1, <2>2, <3>1
    <3> QED BY <1>2, <1>4, <2>2, <3>2 DEF SwapOK, Ended
  <2>3. CASE cmd[k] # "swap"
    BY <1>2, <1>3, <1>4, <2>3 DEF CallOK, SwapOK
  <2> QED BY <2>2, <2>3
<1>12. OnceOK(k)'
  <2>1. SUFFICES ASSUME cmd[k] = "swap", ~world.missed
                 PROVE  /\ Paid(k)' <= 1 /\ Late(k)' \subseteq {att[k]} /\ ~(swaps[k] > 0)
    BY <1>2, <1>4 DEF OnceOK
  <2>2. Paid(k) = 0
    BY <1>3, <1>4, <2>1 DEF CallOK, OnceOK
  <2>3. Cardinality(Late(k)) = 0 /\ swaps[k] = 0
    <3>1. swaps[k] \in Nat /\ Cardinality(Late(k)) \in Nat
      BY <1>3, PaidFacts
    <3> QED BY <2>2, <3>1 DEF Paid
  <2>4. Late(k) = {}
    BY <1>3, <2>3, PaidFacts
  <2> QED BY <1>10, <2>1, <2>2, <2>3, <2>4
<1> QED BY <1>5, <1>6, <1>9, <1>11, <1>12 DEF CallOK

LEMMA RetryKeeps ==
    ASSUME DbcInv, NEW k \in Call, place[k] = "confirm", Expired(CurrentTx(k)), Retry(k)
    PROVE  CallOK(k)'
<1>1. Fixed
  BY DEF Retry, Fixed, chainVars
<1>2. /\ Goal(k)' = Goal(k) /\ Repertoire(k)' = Repertoire(k)
      /\ cmd'[k] = cmd[k] /\ dry'[k] = dry[k] /\ world' = world
  BY <1>1, FixedFacts
<1>3. CallOK(k) /\ TypeOK
  BY DEF DbcInv
<1>4. /\ place'[k] = "send" /\ UNCHANGED <<seen, queue, sharing, live, ran, done, swaps>>
      /\ att'[k] = att[k] + 1
  BY <1>3 DEF Retry, Goto, TypeOK, chainVars
<1>5. QueueOK(k)'
  BY <1>2, <1>3, <1>4 DEF CallOK, QueueOK, InLoop
<1>6. StageOK(k)'
  BY <1>2, <1>3, <1>4 DEF CallOK, StageOK
<1>7. InLoop(k) /\ (InLoop(k))' /\ Stage(k)' = Stage(k)
  BY <1>2, <1>4 DEF InLoop, Stage
<1>8. ASSUME ~dry[k] PROVE (Founded(k, queue[k], done))'
  <2>1. Founded(k, queue'[k], done')
    BY <1>3, <1>4, <1>7, <1>8 DEF CallOK, PlanOK
  <2> QED BY <1>2, <2>1, FoundedLater
<1>9. PlanOK(k)'
  BY <1>2, <1>3, <1>4, <1>7, <1>8 DEF CallOK, PlanOK
<1>10. Paid(k)' = Paid(k) /\ Late(k)' = Late(k)
  BY <1>4 DEF Paid, Late
<1>11. Paid(k) \in Nat /\ att[k] \in 1..MaxAttempts /\ MaxAttempts \in Nat
  BY <1>3, PaidFacts
<1>12. SwapOK(k)'
  <2>1. cmd[k] = "swap" => Paid(k) <= att'[k] - 1
    BY <1>3, <1>4, <1>11 DEF CallOK, SwapOK
  <2> QED BY <1>2, <1>3, <1>4, <1>10, <2>1 DEF CallOK, SwapOK, Ended
<1>13. OnceOK(k)'
  <2>1. SUFFICES ASSUME cmd[k] = "swap", ~world.missed PROVE Paid(k) = 0
    BY <1>2, <1>4, <1>10 DEF OnceOK
  <2>2. CurrentTx(k) \notin live /\ CurrentTx(k) \notin ran
    BY <2>1 DEF Expired
  <2>3. Late(k) \subseteq {att[k]} /\ (swaps[k] > 0 => CurrentTx(k) \in ran)
    BY <1>3, <2>1 DEF CallOK, OnceOK
  <2>4. att[k] \notin Late(k)
    BY <1>7, <2>1, <2>2, HeadFacts DEF Late
  <2>5. Cardinality(Late(k)) = 0 /\ swaps[k] \in Nat
    BY <1>3, <2>3, <2>4, PaidFacts
  <2> QED BY <2>2, <2>3, <2>5 DEF Paid
<1> QED BY <1>5, <1>6, <1>9, <1>12, <1>13 DEF CallOK

LEMMA FinalizeKeeps ==
    ASSUME DbcInv, NEW k \in Call, place[k] = "confirm", CurrentTx(k) \in ran,
           CurrentTx(k).step.op = "config", Goto(k, "finalize"), Keep,
           UNCHANGED <<world, live, done, swaps>>
    PROVE  CallOK(k)'
<1>1. Fixed
  BY DEF Keep, Fixed
<1>2. /\ Goal(k)' = Goal(k) /\ Repertoire(k)' = Repertoire(k)
      /\ cmd'[k] = cmd[k] /\ dry'[k] = dry[k] /\ world' = world
  BY <1>1, FixedFacts
<1>3. CallOK(k) /\ TypeOK /\ GroundOK
  BY DEF DbcInv, LedgerOK
<1>4. /\ place'[k] = "finalize" /\ UNCHANGED <<seen, queue, sharing, att>>
  BY <1>3 DEF Keep, Goto, TypeOK
<1>5. InLoop(k) /\ (InLoop(k))' /\ Stage(k)' = Stage(k)
  BY <1>2, <1>4 DEF InLoop, Stage
<1>6. /\ Head(queue[k]).op = "config" /\ StepEffect(Head(queue[k])) \subseteq done /\ cmd[k] # "swap"
  <2>1. /\ CurrentTx(k).step = Head(queue[k]) /\ Head(queue[k]) \in Repertoire(k)
        /\ Effect(CurrentTx(k)) = StepEffect(Head(queue[k]))
    BY <1>5, HeadFacts
  <2>2. Effect(CurrentTx(k)) \subseteq done
    BY <1>3 DEF GroundOK
  <2>3. cmd[k] = "swap" <=> Head(queue[k]).op = "swap"
    BY <1>3, <2>1, RepertoireFacts
  <2> QED BY <2>1, <2>2, <2>3
<1>7. QueueOK(k)'
  BY <1>2, <1>3, <1>4, <1>6 DEF CallOK, QueueOK, InLoop
<1>8. StageOK(k)'
  BY <1>2, <1>3, <1>4 DEF CallOK, StageOK
<1>9. ASSUME ~dry[k] PROVE (Founded(k, queue[k], done))'
  <2>1. Founded(k, queue'[k], done')
    BY <1>3, <1>4, <1>5, <1>9 DEF CallOK, PlanOK
  <2> QED BY <1>2, <2>1, FoundedLater
<1>10. PlanOK(k)'
  BY <1>2, <1>3, <1>4, <1>5, <1>9 DEF CallOK, PlanOK
<1>11. SwapOK(k)' /\ OnceOK(k)'
  BY <1>2, <1>3, <1>6 DEF CallOK, SwapOK, OnceOK
<1> QED BY <1>7, <1>8, <1>10, <1>11 DEF CallOK

\* The rest of a list is taken up once its head is done, or in a dry run.
LEMMA TailKeeps ==
    ASSUME DbcInv, NEW k \in Call, InLoop(k), Continue(k, Tail(queue[k])),
           UNCHANGED <<inputs, seen, sharing, world, live, done, swaps>>,
           dry[k] \/ cmd[k] = "swap" \/ StepEffect(Head(queue[k])) \subseteq done
    PROVE  CallOK(k)'
<1> DEFINE steps == Tail(queue[k])
<1>1. Fixed
  BY DEF Fixed, inputs
<1>2. CallOK(k) /\ TypeOK
  BY DEF DbcInv
<1>3. queue[k] \in Seq(Repertoire(k)) /\ queue[k] # <<>>
  BY HeadFacts
<1>4. /\ steps \in Seq(Repertoire(k)) /\ Len(steps) = Len(queue[k]) - 1
      /\ EffectsOf(queue[k]) = StepEffect(Head(queue[k])) \cup EffectsOf(steps)
  BY <1>3, TailFacts
<1>5. cmd[k] = "swap" => steps = <<>>
  <2>1. cmd[k] = "swap" => Len(queue[k]) <= 1
    BY <1>2 DEF CallOK, QueueOK
  <2>2. Len(queue[k]) \in Nat
    BY <1>3
  <2> HIDE DEF steps
  <2> QED BY <1>4, <2>1, <2>2
<1>6. seen'[k] \subseteq done /\ EffectsOf(steps) \cap seen'[k] = {}
  BY <1>2, <1>4 DEF CallOK, PlanOK
<1>7. sharing'[k] => cmd[k] = "migrateV1" /\ (dry[k] \/ <<"migrate", Pool>> \in done)
  BY <1>2 DEF CallOK, StageOK
<1>8. ASSUME ~dry[k]
      PROVE  /\ Founded(k, steps, done)
             /\ (IF cmd[k] = "migrateV1" /\ ~sharing'[k] THEN {<<"migrate", Pool>>} ELSE Goal(k))
                   \subseteq done \cup EffectsOf(steps)
  <2>1. Founded(k, queue[k], done) /\ Stage(k) \subseteq done \cup EffectsOf(queue[k])
    BY <1>2, <1>8 DEF CallOK, PlanOK
  <2>2. Stage(k) = IF cmd[k] = "migrateV1" /\ ~sharing'[k] THEN {<<"migrate", Pool>>} ELSE Goal(k)
    BY DEF Stage
  <2>3. CASE cmd[k] = "swap"
    <3>1. Goal(k) = {} /\ DOMAIN <<>> = {}
      BY <2>3 DEF Goal
    <3> QED BY <1>5, <2>3, <3>1 DEF Founded
  <2>4. CASE StepEffect(Head(queue[k])) \subseteq done
    <3>1. Founded(k, steps, done)
      BY <1>3, <2>1, <2>4, TailFounded
    <3> QED BY <1>4, <2>1, <2>2, <2>4, <3>1
  <2> QED BY <1>8, <2>3, <2>4
<1> HIDE DEF steps
<1>9. cmd[k] = "swap" => Len(steps) <= 1
  BY <1>5
<1> QED BY <1>1, <1>4, <1>5, <1>6, <1>7, <1>8, <1>9, ContinueKeeps DEF steps

LEMMA StartKeeps ==
    ASSUME DbcInv, NEW k \in Call, Start(k)
    PROVE  CallOK(k)'
<1>1. Fixed /\ UNCHANGED <<seen, live, done, swaps>>
  BY DEF Start, Fixed, chainVars
<1>2. /\ CallOK(k) /\ TypeOK /\ seen[k] = {} /\ ~sharing[k]
  BY DEF DbcInv, CallOK, StageOK, Start
<1>3. CASE cmd[k] = "create"
  <2>1. /\ UNCHANGED sharing /\ Continue(k, CreatePlan(k))
    BY <1>3 DEF Start
  <2>2. /\ CreatePlan(k) \in Seq(Repertoire(k))
        /\ <<"pool", Pool>> \in EffectsOf(CreatePlan(k))
        /\ Founded(k, CreatePlan(k), done)
    BY <1>3, CreatePlanFacts DEF Repertoire
  <2>3. Goal(k) = {<<"pool", Pool>>}
    BY <1>3 DEF Goal
  <2> QED BY <1>1, <1>2, <1>3, <2>1, <2>2, <2>3, ContinueKeeps
<1>4. CASE cmd[k] # "create"
  <2>1. place'[k] = "readPool" /\ UNCHANGED <<queue, sharing, att>> /\ place[k] = "idle"
    BY <1>2, <1>4 DEF Start, Goto, TypeOK
  <2> QED BY <1>1, <1>2, <1>4, <2>1, ReadKeeps
<1> QED BY <1>3, <1>4

LEMMA LookFacts ==
    ASSUME DbcInv, NEW k \in Call, NEW facts, Look(k, facts)
    PROVE  seen'[k] = seen[k] \cup (facts \cap done) /\ seen[k] \subseteq done /\ seen'[k] \subseteq done
BY DEF DbcInv, TypeOK, CallOK, PlanOK, Look

LEMMA ReadPoolKeeps ==
    ASSUME DbcInv, NEW k \in Call, ReadPool(k)
    PROVE  CallOK(k)'
<1>1. Fixed /\ UNCHANGED <<live, done, swaps>> /\ place[k] = "readPool"
  BY DEF ReadPool, Fixed, chainVars
<1>2. /\ CallOK(k) /\ TypeOK /\ seen[k] = {} /\ ~sharing[k] /\ cmd[k] \in Command
  BY <1>1 DEF DbcInv, CallOK, StageOK, TypeOK
<1>3. CASE cmd[k] = "fees"
  <2>1. /\ UNCHANGED <<seen, sharing>> /\ Continue(k, FeePlan(k))
    BY <1>3 DEF ReadPool
  <2>2. FeePlan(k) \in Seq(Repertoire(k)) /\ Founded(k, FeePlan(k), done)
    BY <1>3, FeePlanFacts DEF Repertoire
  <2>3. Goal(k) = EffectsOf(FeePlan(k))
    BY <1>3, FeePlanFacts DEF Goal
  <2> QED BY <1>1, <1>2, <1>3, <2>1, <2>2, <2>3, ContinueKeeps
<1>4. CASE cmd[k] = "swap"
  <2> DEFINE steps == When(TRUE, ForCall("swap", k))
  <2>1. /\ UNCHANGED <<seen, sharing>> /\ Continue(k, steps)
    BY <1>4 DEF ReadPool, When
  <2>2. steps \in Seq(Repertoire(k)) /\ Len(steps) <= 1
    BY <1>4, WhenFacts DEF Repertoire
  <2>3. Needs(TxOf(k, ForCall("swap", k))) = {}
    BY PoolSteps DEF OnCall
  <2>4. Founded(k, steps, done)
    BY <2>3, WhenFounded
  <2>5. Goal(k) = {} /\ Paid(k) = 0
    BY <1>1, <1>2, <1>4 DEF Goal, CallOK, SwapOK, Ended
  <2> HIDE DEF steps
  <2> QED BY <1>1, <1>2, <1>4, <2>1, <2>2, <2>4, <2>5, ContinueKeeps
<1>5. CASE cmd[k] \notin {"fees", "swap"}
  <2>1. /\ world.curve = "complete" /\ Look(k, {<<"migrate", Pool>>}) /\ Goto(k, "readMetadata")
        /\ UNCHANGED <<queue, sharing, att>>
    BY <1>5 DEF ReadPool
  <2>2. place'[k] = "readMetadata" /\ seen'[k] \subseteq done
    BY <1>2, <2>1, LookFacts DEF Goto, TypeOK
  <2>3. cmd[k] \in {"migrateV1", "migrateV2"}
    BY <1>1, <1>2, <1>5 DEF CallOK, StageOK, Command
  <2> QED BY <1>1, <1>2, <2>1, <2>2, <2>3, ReadKeeps
<1> QED BY <1>3, <1>4, <1>5

\* Both reads before a migration may end in its plan.
LEMMA PlanKeeps ==
    ASSUME DbcInv, NEW k \in Call, place[k] \in {"readMetadata", "readLocker"},
           UNCHANGED <<inputs, chainVars, sharing>>, seen'[k] \subseteq done,
           Continue(k, MigrationPlan(seen'[k]))
    PROVE  CallOK(k)'
<1> DEFINE facts == seen'[k]
           steps == MigrationPlan(facts)
<1>1. Fixed /\ UNCHANGED <<live, done, swaps>>
  BY DEF Fixed, chainVars
<1>2. /\ CallOK(k) /\ TypeOK /\ ~sharing[k] /\ cmd[k] \in {"migrateV1", "migrateV2"}
  BY <1>1 DEF DbcInv, CallOK, StageOK, TypeOK
<1> HIDE DEF facts
<1>3. facts \subseteq done
  BY DEF facts
<1>4. /\ steps \in Seq(MigrationMenu) /\ EffectsOf(steps) \cap facts = {}
      /\ <<"migrate", Pool>> \in facts \cup EffectsOf(steps) /\ Founded(k, steps, done)
  BY <1>3, MigrationPlanFacts
<1> HIDE DEF steps
<1>5. steps \in Seq(Repertoire(k))
  <2>1. MigrationMenu \subseteq Repertoire(k)
    BY <1>2 DEF Repertoire
  <2> QED BY <1>4, <2>1, SeqGrows
<1>6. cmd[k] = "migrateV2" => Goal(k) = {<<"migrate", Pool>>}
  BY DEF Goal
<1>7. ~sharing'[k] /\ cmd[k] # "swap"
  BY <1>2
<1>8. (IF cmd[k] = "migrateV1" /\ ~sharing'[k] THEN {<<"migrate", Pool>>} ELSE Goal(k))
        \subseteq done \cup EffectsOf(steps)
  BY <1>2, <1>3, <1>4, <1>6, <1>7
<1>9. Continue(k, steps) /\ EffectsOf(steps) \cap seen'[k] = {}
  BY <1>4 DEF facts, steps
<1> QED BY <1>1, <1>4, <1>5, <1>7, <1>8, <1>9, ContinueKeeps

LEMMA ReadMetadataKeeps ==
    ASSUME DbcInv, NEW k \in Call, ReadMetadata(k)
    PROVE  CallOK(k)'
<1>1. /\ Fixed /\ UNCHANGED <<inputs, chainVars, sharing>> /\ UNCHANGED <<live, done, swaps>>
      /\ place[k] = "readMetadata"
  BY DEF ReadMetadata, Fixed, chainVars
<1>2. seen'[k] \subseteq done
  BY LookFacts DEF ReadMetadata
<1>3. CASE world.vesting
  <2>1. Goto(k, "readLocker") /\ UNCHANGED <<queue, att>>
    BY <1>3 DEF ReadMetadata
  <2>2. place'[k] = "readLocker" /\ cmd[k] \in {"migrateV1", "migrateV2"}
    BY <1>1, <2>1 DEF DbcInv, CallOK, StageOK, Goto, TypeOK
  <2> QED BY <1>1, <1>2, <2>1, <2>2, ReadKeeps
<1>4. CASE ~world.vesting
  BY <1>1, <1>2, <1>4, PlanKeeps DEF ReadMetadata
<1> QED BY <1>3, <1>4

LEMMA ReadLockerKeeps ==
    ASSUME DbcInv, NEW k \in Call, ReadLocker(k)
    PROVE  CallOK(k)'
<1>1. seen'[k] \subseteq done
  BY LookFacts DEF ReadLocker
<1> QED BY <1>1, PlanKeeps DEF ReadLocker

LEMMA ReadLpKeeps ==
    ASSUME DbcInv, NEW k \in Call, ReadLp(k)
    PROVE  CallOK(k)'
<1>1. /\ CallOK(k) /\ TypeOK /\ TogetherOK /\ place[k] = "readLp"
      /\ cmd[k] = "migrateV1" /\ (dry[k] \/ <<"migrate", Pool>> \in done)
  BY DEF DbcInv, LedgerOK, CallOK, StageOK, ReadLp
<1>2. CASE Leave(k, "returned") /\ dry[k]
  <2>1. /\ Fixed /\ UNCHANGED <<live, done, swaps>> /\ UNCHANGED <<seen, queue, sharing, att>>
        /\ place'[k] = "returned"
    BY <1>1, <1>2 DEF Leave, Keep, Goto, Fixed, chainVars, TypeOK
  <2> QED BY <1>2, <2>1, LeaveKeeps DEF Ended
<1>3. CASE ~(dry[k] /\ {<<"metadata", Pool>>, <<"migrate", Pool>>} \cap seen[k]
                        # {<<"metadata", Pool>>, <<"migrate", Pool>>})
  <2> DEFINE facts == seen'[k]
             steps == LpPlan(facts)
  <2>1. /\ Look(k, OnSide \X Side) /\ sharing' = [sharing EXCEPT ![k] = TRUE]
        /\ Continue(k, LpPlan(seen'[k])) /\ UNCHANGED <<inputs, chainVars>>
    BY <1>3 DEF ReadLp
  <2>2. /\ Fixed /\ UNCHANGED <<live, done, swaps>> /\ sharing'[k]
    BY <1>1, <2>1 DEF Fixed, chainVars, TypeOK
  <2>3. /\ facts = seen[k] \cup ((OnSide \X Side) \cap done)
        /\ seen[k] \subseteq done /\ facts \subseteq done
    BY <2>1, LookFacts
  <2>4. <<"migrate", Pool>> \in done
    BY <1>1, <1>3, <2>3
  <2>5. world \in World
    BY <1>1, WorldsAssumption DEF TypeOK, ChainTypeOK
  <2> HIDE DEF facts
  <2>6. world.same =>
           \A op \in OnSide : <<op, "creator">> \in facts <=> <<op, "partner">> \in facts
    <3>1. \A op \in OnSide : \A s \in Side : <<op, s>> \in facts <=> <<op, s>> \in done
      BY <2>3
    <3> QED BY Zenon, <1>1, <3>1 DEF TogetherOK, Side
  <2>7. /\ steps \in Seq(ShareMenu) /\ EffectsOf(steps) \cap facts = {}
        /\ ({"claim"} \X world.claimable) \cup ({"lock"} \X world.lockable)
              \subseteq facts \cup EffectsOf(steps)
        /\ Founded(k, steps, done)
    BY <2>4, <2>5, <2>6, LpPlanFacts
  <2> HIDE DEF steps
  <2>8. steps \in Seq(Repertoire(k))
    <3>1. ShareMenu \subseteq Repertoire(k)
      BY <1>1 DEF Repertoire
    <3> QED BY <2>7, <3>1, SeqGrows
  <2>9. Goal(k) \subseteq done \cup EffectsOf(steps)
    <3>1. Goal(k) = {<<"migrate", Pool>>} \cup ({"claim"} \X world.claimable)
                                          \cup ({"lock"} \X world.lockable)
      BY <1>1 DEF Goal
    <3> QED BY <2>3, <2>4, <2>7, <3>1
  <2>10. Continue(k, steps) /\ EffectsOf(steps) \cap seen'[k] = {} /\ seen'[k] \subseteq done
    BY <2>1, <2>3, <2>7 DEF facts, steps
  <2> QED BY <1>1, <2>2, <2>4, <2>7, <2>8, <2>9, <2>10, ContinueKeeps
<1> QED BY <1>2, <1>3 DEF ReadLp

LEMMA LeavingKeeps ==
    ASSUME DbcInv, NEW k \in Call, NEW how \in Ended, Leave(k, how), how = "returned" => dry[k]
    PROVE  CallOK(k)'
<1>1. /\ Fixed /\ UNCHANGED <<live, done, swaps>> /\ UNCHANGED <<seen, queue, sharing, att>>
  BY DEF Leave, Keep, Fixed, chainVars
<1>2. place'[k] = how
  BY DEF Leave, Goto, DbcInv, TypeOK
<1> QED BY <1>1, <1>2, LeaveKeeps

LEMMA SimulateKeeps ==
    ASSUME DbcInv, NEW k \in Call, Simulate(k)
    PROVE  CallOK(k)'
<1>1. CASE Leave(k, "stopped")
  BY <1>1, LeavingKeeps DEF Ended
<1>2. CASE UNCHANGED <<inputs, seen, sharing, chainVars>> /\ Continue(k, Tail(queue[k]))
  <2>1. InLoop(k) /\ dry[k]
    BY DEF Simulate, InLoop
  <2> QED BY <1>2, <2>1, TailKeeps DEF chainVars
<1> QED BY <1>1, <1>2 DEF Simulate

LEMMA ConfirmedKeeps ==
    ASSUME DbcInv, NEW k \in Call, Confirmed(k)
    PROVE  CallOK(k)'
<1>1. InLoop(k) /\ place[k] = "confirm" /\ CurrentTx(k) \in ran /\ UNCHANGED <<world, live, done, swaps>>
  BY DEF Confirmed, InLoop
<1>2. CASE CurrentTx(k).step.op = "config"
  BY <1>1, <1>2, FinalizeKeeps DEF Confirmed
<1>3. CASE CurrentTx(k).step.op # "config"
  <2>1. UNCHANGED <<inputs, seen, sharing>> /\ Continue(k, Tail(queue[k]))
    BY <1>3 DEF Confirmed
  <2>2. cmd[k] = "swap" \/ StepEffect(Head(queue[k])) \subseteq done
    <3>1. /\ CurrentTx(k).step = Head(queue[k])
          /\ Effect(CurrentTx(k)) = StepEffect(Head(queue[k]))
          /\ cmd[k] # "swap" => Head(queue[k]).op # "swap"
      BY <1>1, HeadFacts
    <3> QED BY <1>1, <3>1 DEF DbcInv, LedgerOK, GroundOK
  <2> QED BY <1>1, <2>1, <2>2, TailKeeps
<1> QED BY <1>2, <1>3

LEMMA FinalizedKeeps ==
    ASSUME DbcInv, NEW k \in Call, Finalized(k)
    PROVE  CallOK(k)'
<1>1. /\ InLoop(k) /\ UNCHANGED <<inputs, seen, sharing, world, live, done, swaps>>
      /\ Continue(k, Tail(queue[k]))
  BY DEF Finalized, InLoop, chainVars
<1>2. StepEffect(Head(queue[k])) \subseteq done
  BY DEF DbcInv, CallOK, QueueOK, Finalized
<1> QED BY <1>1, <1>2, TailKeeps

LEMMA ActingCallKeeps ==
    ASSUME DbcInv, NEW k \in Call, CallStep(k)
    PROVE  CallOK(k)'
<1>1. CASE PoolUnfit(k) \/ Refused(k)
  BY <1>1, LeavingKeeps DEF PoolUnfit, Refused, Ended
<1>2. CASE ConfirmExpired(k)
  <2>1. CASE Leave(k, "stopped")
    BY <2>1, LeavingKeeps DEF Ended
  <2>2. CASE Retry(k)
    BY <1>2, <2>2, RetryKeeps DEF ConfirmExpired
  <2> QED BY <1>2, <2>1, <2>2 DEF ConfirmExpired
<1>3. CASE Fault(k)
  BY <1>3, LeavingKeeps DEF Fault, Ended
<1> QED BY <1>1, <1>2, <1>3, StartKeeps, ReadPoolKeeps, ReadMetadataKeeps, ReadLockerKeeps,
           ReadLpKeeps, SimulateKeeps, SendKeeps, ConfirmedKeeps, FinalizedKeeps DEF CallStep

-----------------------------------------------------------------------------
(* What a step of one call leaves alone.                                   *)

\* At most its own transaction goes out, and only after a simulation of it.
Sends(k) ==
    \/ live' = live
    \/ /\ place[k] = "send" /\ ~dry[k] /\ Accepted(CurrentTx(k))
       /\ live' = live \cup {CurrentTx(k)}
Alters(k) ==
    /\ \E p \in Place : place' = [place EXCEPT ![k] = p]
    /\ queue' = [queue EXCEPT ![k] = queue'[k]]
    /\ seen' = [seen EXCEPT ![k] = seen'[k]]
    /\ sharing' = [sharing EXCEPT ![k] = sharing'[k]] /\ sharing'[k] \in BOOLEAN
    /\ att' = [att EXCEPT ![k] = att'[k]] /\ att'[k] \in 1..MaxAttempts
    /\ Fixed /\ UNCHANGED <<done, swaps>>
    /\ Sends(k)
    /\ ran' = ran \/ ran' = {x \in ran : x.call # k}

LEMMA SameFunction ==
    ASSUME NEW S, NEW T, NEW f \in [S -> T], NEW k \in S
    PROVE  f = [f EXCEPT ![k] = f[k]]
OBVIOUS

LEMMA ContinueAlters ==
    ASSUME TypeOK, NEW k \in Call, NEW steps, Continue(k, steps)
    PROVE  /\ \E p \in Place : place' = [place EXCEPT ![k] = p]
           /\ queue' = [queue EXCEPT ![k] = queue'[k]]
           /\ att' = [att EXCEPT ![k] = att'[k]] /\ att'[k] \in 1..MaxAttempts
<1>1. queue' = [queue EXCEPT ![k] = steps] /\ queue'[k] = steps
  BY DEF Continue, TypeOK
<1>2. att' = [att EXCEPT ![k] = 1] /\ att'[k] = 1 /\ 1 \in 1..MaxAttempts
  BY AttemptsAssumption DEF Continue, TypeOK
<1>3. \E p \in Place : place' = [place EXCEPT ![k] = p]
  BY DEF Continue, Goto, Place
<1> QED BY <1>1, <1>2, <1>3

LEMMA KeptParts ==
    ASSUME TypeOK, NEW k \in Call
    PROVE  /\ UNCHANGED queue => queue' = [queue EXCEPT ![k] = queue'[k]]
           /\ UNCHANGED seen => seen' = [seen EXCEPT ![k] = seen'[k]]
           /\ UNCHANGED sharing =>
                 sharing' = [sharing EXCEPT ![k] = sharing'[k]] /\ sharing'[k] \in BOOLEAN
           /\ UNCHANGED att => att' = [att EXCEPT ![k] = att'[k]] /\ att'[k] \in 1..MaxAttempts
           /\ \A p \in Place : Goto(k, p) => \E q \in Place : place' = [place EXCEPT ![k] = q]
BY DEF TypeOK, Goto

LEMMA LookAlters ==
    ASSUME TypeOK, NEW k \in Call, NEW facts, Look(k, facts)
    PROVE  seen' = [seen EXCEPT ![k] = seen'[k]]
BY DEF TypeOK, Look

LEMMA LeaveAlters ==
    ASSUME TypeOK, NEW k \in Call, NEW p \in Place, Goto(k, p), Keep, UNCHANGED <<world, done, swaps>>,
           Sends(k), ran' = ran \/ ran' = {x \in ran : x.call # k}
    PROVE  Alters(k)
<1>1. UNCHANGED <<queue, seen, sharing, att>> /\ Fixed
  BY DEF Keep, Fixed
<1> QED BY <1>1, KeptParts DEF Alters

LEMMA CallAlters ==
    ASSUME DbcInv, NEW k \in Call, CallStep(k)
    PROVE  Alters(k)
<1> TypeOK
  BY DEF DbcInv
<1>1. \A how \in {"returned", "stopped"} : Leave(k, how) => Alters(k)
  <2> SUFFICES ASSUME NEW how \in {"returned", "stopped"}, Leave(k, how) PROVE Alters(k)
    OBVIOUS
  <2>1. /\ Goto(k, how) /\ Keep /\ UNCHANGED <<world, done, swaps>> /\ Sends(k) /\ ran' = ran
        /\ how \in Place
    BY DEF Leave, chainVars, Sends, Place
  <2> QED BY <2>1, LeaveAlters
<1>2. ASSUME UNCHANGED <<inputs, chainVars>> PROVE Fixed /\ UNCHANGED <<done, swaps>> /\ Sends(k) /\ ran' = ran
  BY <1>2 DEF Fixed, chainVars, Sends
<1>3. CASE Start(k)
  <2>1. CASE cmd[k] = "create"
    BY <1>2, <1>3, <2>1, ContinueAlters, KeptParts DEF Start, Alters
  <2>2. CASE cmd[k] # "create"
    BY <1>2, <1>3, <2>2, KeptParts DEF Start, Alters, Place
  <2> QED BY <2>1, <2>2
<1>4. CASE ReadPool(k)
  <2>1. UNCHANGED <<inputs, chainVars>>
    BY <1>4 DEF ReadPool
  <2>2. CASE cmd[k] \in {"fees", "swap"}
    <3>1. UNCHANGED <<seen, sharing>> /\ \E steps : Continue(k, steps)
      BY <1>4, <2>2 DEF ReadPool
    <3> QED BY <1>2, <2>1, <3>1, ContinueAlters, KeptParts DEF Alters
  <2>3. CASE cmd[k] \notin {"fees", "swap"}
    <3>1. Look(k, {<<"migrate", Pool>>}) /\ Goto(k, "readMetadata") /\ UNCHANGED <<queue, sharing, att>>
      BY <1>4, <2>3 DEF ReadPool
    <3> QED BY <1>2, <2>1, <3>1, LookAlters, KeptParts DEF Alters, Place
  <2> QED BY <2>2, <2>3
<1>5. CASE ReadMetadata(k)
  <2>1. UNCHANGED <<inputs, chainVars, sharing>> /\ Look(k, {<<"metadata", Pool>>})
    BY <1>5 DEF ReadMetadata
  <2>2. CASE Goto(k, "readLocker") /\ UNCHANGED <<queue, att>>
    BY <1>2, <2>1, <2>2, LookAlters, KeptParts DEF Alters, Place
  <2>3. CASE \E steps : Continue(k, steps)
    BY <1>2, <2>1, <2>3, LookAlters, ContinueAlters, KeptParts DEF Alters
  <2> QED BY <1>5, <2>2, <2>3 DEF ReadMetadata
<1>6. CASE ReadLocker(k)
  BY <1>2, <1>6, LookAlters, ContinueAlters, KeptParts DEF ReadLocker, Alters
<1>7. CASE ReadLp(k)
  <2>1. CASE Leave(k, "returned")
    BY <1>1, <2>1
  <2>2. CASE /\ Look(k, OnSide \X Side) /\ sharing' = [sharing EXCEPT ![k] = TRUE]
             /\ (\E steps : Continue(k, steps)) /\ UNCHANGED <<inputs, chainVars>>
    <3>1. sharing'[k] = TRUE
      BY <2>2 DEF TypeOK
    <3>2. sharing' = [sharing EXCEPT ![k] = sharing'[k]] /\ sharing'[k] \in BOOLEAN
      BY <2>2, <3>1
    <3> QED BY <1>2, <2>2, <3>2, LookAlters, ContinueAlters DEF Alters
  <2> QED BY <1>7, <2>1, <2>2 DEF ReadLp
<1>8. CASE Simulate(k)
  BY <1>1, <1>2, <1>8, ContinueAlters, KeptParts DEF Simulate, Alters
<1>9. CASE Send(k)
  <2>1. /\ Goto(k, "confirm") /\ Keep /\ UNCHANGED <<world, done, swaps>> /\ Sends(k) /\ ran' = ran
        /\ "confirm" \in Place
    BY <1>9 DEF Send, Submit, Sends, Place
  <2> QED BY <2>1, LeaveAlters
<1>10. CASE Confirmed(k)
  <2>1. UNCHANGED <<world, done, swaps>> /\ Sends(k) /\ ran' = {x \in ran : x.call # k}
    BY <1>10 DEF Confirmed, Sends
  <2>2. CASE Goto(k, "finalize") /\ Keep
    BY <2>1, <2>2, LeaveAlters DEF Place
  <2>3. CASE UNCHANGED <<inputs, seen, sharing>> /\ Continue(k, Tail(queue[k]))
    <3>1. Fixed
      BY <2>1, <2>3 DEF Fixed
    <3> QED BY <2>1, <2>3, <3>1, ContinueAlters, KeptParts DEF Alters
  <2> QED BY <1>10, <2>2, <2>3 DEF Confirmed
<1>11. CASE Finalized(k)
  BY <1>2, <1>11, ContinueAlters, KeptParts DEF Finalized, Alters
<1>12. CASE ConfirmExpired(k)
  <2>1. CASE Leave(k, "stopped")
    BY <1>1, <2>1
  <2>2. CASE Retry(k)
    <3>1. /\ att[k] \in 1..MaxAttempts /\ att[k] < MaxAttempts /\ MaxAttempts \in Nat
      BY <2>2, AttemptsAssumption DEF Retry, TypeOK
    <3>2. att'[k] = att[k] + 1 /\ att' = [att EXCEPT ![k] = att[k] + 1]
      BY <2>2 DEF Retry, TypeOK
    <3>3. att' = [att EXCEPT ![k] = att'[k]] /\ att'[k] \in 1..MaxAttempts
      BY <3>1, <3>2
    <3>4. Goto(k, "send") /\ UNCHANGED <<inputs, seen, queue, sharing, chainVars>>
      BY <2>2 DEF Retry
    <3> QED BY <1>2, <3>3, <3>4, KeptParts DEF Alters, Place
  <2> QED BY <1>12, <2>1, <2>2 DEF ConfirmExpired
<1>13. CASE PoolUnfit(k) \/ Refused(k) \/ Fault(k)
  BY <1>1, <1>13 DEF PoolUnfit, Refused, Fault
<1> QED BY <1>3, <1>4, <1>5, <1>6, <1>7, <1>8, <1>9, <1>10, <1>11, <1>12, <1>13 DEF CallStep

-----------------------------------------------------------------------------
(* The steps of the calls keep the invariant.                              *)

LEMMA OthersRest ==
    ASSUME DbcInv, NEW k \in Call, Alters(k), NEW j \in Call \ {k}
    PROVE  Rests(j) /\ SameSwaps(j)
<1>1. Rests(j)
  BY DEF Alters, Rests, DbcInv, TypeOK
<1>2. swaps'[j] = swaps[j]
  BY DEF Alters
<1>3. Late(j)' = Late(j)
  <2>1. \A n : SwapTx(j, n) # CurrentTx(k)
    BY DEF SwapTx, CurrentTx
  <2>2. CASE live' = live
    BY <2>2 DEF Late
  <2>3. CASE live' = live \cup {CurrentTx(k)}
    <3>1. \A n : SwapTx(j, n) \in live' <=> SwapTx(j, n) \in live
      BY <2>1, <2>3
    <3> QED BY <3>1 DEF Late, SwapTx, ForCall
  <2> QED BY <2>2, <2>3 DEF Alters, Sends
<1>4. CurrentTx(j) \in ran => CurrentTx(j) \in ran'
  <2>1. CurrentTx(j).call # k
    BY DEF CurrentTx
  <2> QED BY <2>1 DEF Alters
<1> QED BY <1>1, <1>2, <1>3, <1>4 DEF SameSwaps

LEMMA CallKeepsType ==
    ASSUME DbcInv, NEW k \in Call, Alters(k), CallOK(k)'
    PROVE  TypeOK'
<1>1. TypeOK
  BY DEF DbcInv
<1>2. live' \in SUBSET Tx
  <2>1. CASE live' = live
    BY <1>1, <2>1 DEF TypeOK, ChainTypeOK
  <2>2. CASE place[k] = "send" /\ live' = live \cup {CurrentTx(k)}
    <3>1. CurrentTx(k) \in Tx
      BY <2>2, HeadFacts DEF InLoop
    <3> QED BY <1>1, <2>2, <3>1 DEF TypeOK, ChainTypeOK
  <2> QED BY <2>1, <2>2 DEF Alters, Sends
<1>3. ChainTypeOK'
  BY <1>1, <1>2 DEF TypeOK, ChainTypeOK, Alters, Fixed
<1>4. place' \in [Call -> Place] /\ cmd' \in [Call -> Command] /\ dry' \in [Call -> BOOLEAN]
  BY <1>1 DEF TypeOK, Alters, Fixed, inputs
<1>5. seen' \in [Call -> SUBSET Fact]
  <2>1. seen'[k] \in SUBSET Fact
    BY <1>1 DEF CallOK, PlanOK, Alters, TypeOK, ChainTypeOK
  <2> QED BY <1>1, <2>1 DEF TypeOK, Alters
<1>6. queue' \in [Call -> Seq(Step)]
  <2>1. /\ queue'[k] \in Seq(Repertoire(k)) /\ Repertoire(k) \subseteq Step
    BY <1>1, FixedFacts, RepertoireFacts DEF CallOK, QueueOK, Alters
  <2>2. queue'[k] \in Seq(Step)
    BY <2>1, SeqGrows
  <2> QED BY <1>1, <2>2 DEF TypeOK, Alters
<1>7. sharing' \in [Call -> BOOLEAN] /\ att' \in [Call -> 1..MaxAttempts]
  BY <1>1 DEF TypeOK, Alters
<1> QED BY <1>3, <1>4, <1>5, <1>6, <1>7 DEF TypeOK

LEMMA CallKeepsLedger ==
    ASSUME DbcInv, NEW k \in Call, Alters(k)
    PROVE  LedgerOK'
<1>1. /\ TxOK /\ GroundOK /\ TogetherOK /\ TypeOK
  BY DEF DbcInv, LedgerOK
<1>2. /\ done' = done /\ world' = world /\ Fixed /\ ran' \subseteq ran
      /\ \A x \in live' : x \in live \/ /\ x = CurrentTx(k) /\ place[k] = "send"
                                        /\ ~dry[k] /\ Accepted(CurrentTx(k))
  BY DEF Alters, Sends, Fixed
<1>3. TxOK'
  <2> SUFFICES ASSUME NEW x \in live' \cup ran'
               PROVE  ~dry'[x.call] /\ x.step \in (Repertoire(x.call))'
    BY DEF TxOK
  <2>1. dry'[x.call] = dry[x.call] /\ (Repertoire(x.call))' = Repertoire(x.call)
    BY <1>2, FixedFacts
  <2>2. CASE x \in live \cup ran
    BY <1>1, <2>1, <2>2 DEF TxOK
  <2>3. CASE x = CurrentTx(k) /\ place[k] = "send" /\ ~dry[k]
    BY <2>1, <2>3, HeadFacts DEF InLoop
  <2> QED BY <1>2, <2>2, <2>3
<1>4. GroundOK'
  <2>1. ASSUME NEW x PROVE Needs(x)' = Needs(x)
    BY <1>2 DEF Needs
  <2>2. \A x \in live' : Needs(x) \subseteq done
    BY <1>1, <1>2 DEF GroundOK, Accepted
  <2> QED BY <1>1, <1>2, <2>1, <2>2 DEF GroundOK
<1>5. TogetherOK'
  BY Zenon, <1>1, <1>2 DEF TogetherOK
<1> QED BY <1>3, <1>4, <1>5 DEF LedgerOK

LEMMA CallStepKeeps ==
    ASSUME DbcInv, NEW k \in Call, CallStep(k)
    PROVE  DbcInv'
<1>1. Alters(k) /\ CallOK(k)'
  BY CallAlters, ActingCallKeeps
<1>2. TypeOK' /\ LedgerOK'
  BY <1>1, CallKeepsType, CallKeepsLedger
<1>3. Fixed /\ done \subseteq done'
  BY <1>1 DEF Alters
<1>4. \A j \in Call \ {k} : Rests(j) /\ SameSwaps(j)
  BY <1>1, OthersRest
<1>5. (\A j \in Call : CallOK(j))'
  BY <1>1, <1>3, <1>4, OthersKeep
<1> QED BY <1>2, <1>5 DEF DbcInv

-----------------------------------------------------------------------------
(* The steps of the chain keep it.                                         *)

\* What is executed or dropped leaves its trace only in its own call's count.
LEMMA ChainFacts ==
    ASSUME DbcInv, NEW x \in live, Execute(x) \/ Drop(x)
    PROVE  /\ world' = world /\ live' = live \ {x} /\ ran \subseteq ran' /\ ran' \subseteq ran \cup {x}
           /\ done \subseteq done' /\ done' \subseteq done \cup Effect(x)
           /\ \/ swaps' = swaps
              \/ /\ x.step.op = "swap" /\ x \in ran'
                 /\ swaps' = [swaps EXCEPT ![x.call] = @ + 1]
           /\ done' = done \/ Accepted(x)
           /\ x \in ran' => x.step.op = "swap" \/ ~Accepted(x) \/ Effect(x) \subseteq done'
<1>1. CASE Drop(x)
  BY <1>1 DEF Drop, DbcInv, TypeOK, ChainTypeOK, LedgerOK, GroundOK
<1>2. CASE Execute(x)
  <2>1. CASE /\ Accepted(x) /\ done' = done \cup Effect(x)
             /\ swaps' = IF x.step.op = "swap" THEN [swaps EXCEPT ![x.call] = @ + 1] ELSE swaps
    BY <1>2, <2>1 DEF Execute
  <2>2. CASE (~Accepted(x) \/ x.step.op = "swap") /\ UNCHANGED <<done, swaps>>
    BY <1>2, <2>2 DEF Execute
  <2> QED BY <1>2, <2>1, <2>2 DEF Execute
<1> QED BY <1>1, <1>2

LEMMA LiveFacts ==
    ASSUME DbcInv, NEW x \in live
    PROVE  /\ x \in Tx /\ x.call \in Call /\ x.step \in Step /\ x.att \in 1..MaxAttempts
           /\ x.step \in Repertoire(x.call) /\ Needs(x) \subseteq done
           /\ x.step.op = "swap" => cmd[x.call] = "swap" /\ x = SwapTx(x.call, x.att)
           /\ ~Accepted(x) => Effect(x) \subseteq done
<1>1. TypeOK /\ TogetherOK
  BY DEF DbcInv, LedgerOK
<1>2. x \in Tx /\ x.call \in Call /\ x.step \in Step /\ x.att \in 1..MaxAttempts
  BY <1>1 DEF TypeOK, ChainTypeOK, Tx
<1>3. x.step \in Repertoire(x.call) /\ Needs(x) \subseteq done
  BY DEF DbcInv, LedgerOK, TxOK, GroundOK
<1>4. /\ x.step.op = "swap" => cmd[x.call] = "swap" /\ x.step = ForCall("swap", x.call)
      /\ x.step.op \in OnSide =>
            IF world.same THEN x.step.on = Side ELSE \E s \in Side : x.step.on = {s}
      /\ x.step.op \notin OnSide => \E a : x.step.on = {a}
  BY ZenonT(60), <1>1, <1>2, <1>3, RepertoireFacts
<1>5. x = [call |-> x.call, step |-> x.step, att |-> x.att]
  BY <1>2 DEF Tx
<1>6. ASSUME ~Accepted(x) PROVE Effect(x) \subseteq done
  <2>1. PICK f : f \in Effect(x) /\ f \in done
    BY <1>3, <1>6 DEF Accepted
  <2>2. CASE \E a : x.step.on = {a}
    <3>1. PICK a : x.step.on = {a}
      BY <2>2
    <3>2. Effect(x) = {<<x.step.op, a>>}
      BY <3>1 DEF Effect
    <3> QED BY <2>1, <3>2
  <2>3. CASE x.step.op \in OnSide /\ world.same /\ x.step.on = Side
    <3>1. Effect(x) = {<<x.step.op, "creator">>, <<x.step.op, "partner">>}
      BY <2>3 DEF Effect, Side
    <3>2. <<x.step.op, "creator">> \in done <=> <<x.step.op, "partner">> \in done
      BY <1>1, <2>3 DEF TogetherOK
    <3> QED BY <2>1, <3>1, <3>2
  <2> QED BY <1>4, <2>2, <2>3
<1>7. x.step.op = "swap" => cmd[x.call] = "swap" /\ x = SwapTx(x.call, x.att)
  BY <1>4, <1>5 DEF SwapTx
<1> QED BY <1>2, <1>3, <1>6, <1>7

LEMMA ChainKeepsLedger ==
    ASSUME DbcInv, NEW x \in live, Execute(x) \/ Drop(x), Fixed
    PROVE  LedgerOK' /\ done' \subseteq Fact
<1>1. /\ TxOK /\ GroundOK /\ TogetherOK /\ TypeOK
  BY DEF DbcInv, LedgerOK
<1>2. /\ world' = world /\ live' = live \ {x} /\ ran' \subseteq ran \cup {x}
      /\ done \subseteq done' /\ done' \subseteq done \cup Effect(x)
      /\ done' = done \/ Accepted(x)
      /\ x \in ran' => x.step.op = "swap" \/ ~Accepted(x) \/ Effect(x) \subseteq done'
  BY ChainFacts
<1>3. /\ x \in Tx /\ x.step \in Step /\ x.step \in Repertoire(x.call)
      /\ ~Accepted(x) => Effect(x) \subseteq done
  BY LiveFacts
<1>4. TxOK'
  <2> SUFFICES ASSUME NEW y \in live' \cup ran'
               PROVE  ~dry'[y.call] /\ y.step \in (Repertoire(y.call))'
    BY DEF TxOK
  <2>1. dry'[y.call] = dry[y.call] /\ (Repertoire(y.call))' = Repertoire(y.call)
    BY FixedFacts
  <2>2. y \in live \cup ran
    BY <1>2
  <2> QED BY <1>1, <2>1, <2>2 DEF TxOK
<1>5. GroundOK'
  <2>1. ASSUME NEW y PROVE Needs(y)' = Needs(y)
    BY <1>2 DEF Needs
  <2>2. \A y \in live' : Needs(y) \subseteq done'
    BY <1>1, <1>2 DEF GroundOK
  <2>3. \A y \in ran' : y.step.op # "swap" => Effect(y) \subseteq done'
    BY <1>1, <1>2, <1>3 DEF GroundOK
  <2>4. ASSUME NEW y PROVE Effect(y)' = Effect(y)
    BY DEF Effect
  <2> QED BY <2>1, <2>2, <2>3, <2>4 DEF GroundOK
<1>6. TogetherOK'
  <2> SUFFICES ASSUME world.same, NEW op \in OnSide
               PROVE  <<op, "creator">> \in done' <=> <<op, "partner">> \in done'
    BY Zenon, <1>2 DEF TogetherOK
  <2>1. <<op, "creator">> \in done <=> <<op, "partner">> \in done
    BY <1>1 DEF TogetherOK
  <2>2. CASE x.step.op = op
    <3>1. x.step.on = Side
      BY <1>1, <1>3, <2>2, LiveFacts, RepertoireFacts
    <3>2. Effect(x) = {<<op, "creator">>, <<op, "partner">>}
      BY <2>2, <3>1 DEF Effect, Side
    <3>3. CASE done' = done
      BY <2>1, <3>3
    <3>4. CASE done' = done \cup Effect(x)
      BY <3>2, <3>4
    <3> QED BY <3>3, <3>4 DEF Execute, Drop
  <2>3. CASE x.step.op # op
    <3>1. <<op, "creator">> \notin Effect(x) /\ <<op, "partner">> \notin Effect(x)
      BY <2>3 DEF Effect
    <3> QED BY <1>2, <2>1, <3>1
  <2> QED BY <2>2, <2>3
<1>7. done' \subseteq Fact
  <2>1. done \subseteq Fact
    BY <1>1 DEF TypeOK, ChainTypeOK
  <2>2. \/ x.step.op \in OnPool /\ x.step.on = {Pool}
        \/ x.step.op \in OnSide /\ x.step.on \in SUBSET Side
        \/ x.step.op \in OnCall /\ x.step.on \in {{k} : k \in Call}
    BY <1>3 DEF Step
  <2>3. Effect(x) \subseteq Fact
    BY <2>2 DEF Effect, Fact
  <2> QED BY <1>2, <2>1, <2>3
<1> QED BY <1>4, <1>5, <1>6, <1>7 DEF LedgerOK

\* Executing a swap moves it from those that may be paid to those that are.
LEMMA ChainKeepsPaid ==
    ASSUME DbcInv, NEW x \in live, Execute(x) \/ Drop(x), UNCHANGED callVars, NEW j \in Call
    PROVE  /\ (SwapOK(j) /\ OnceOK(j))' /\ swaps'[j] \in 0..MaxAttempts
<1>1. /\ world' = world /\ live' = live \ {x} /\ ran \subseteq ran'
      /\ \/ swaps' = swaps
         \/ x.step.op = "swap" /\ x \in ran' /\ swaps' = [swaps EXCEPT ![x.call] = @ + 1]
  BY ChainFacts
<1>2. CallOK(j) /\ TypeOK /\ swaps \in [Call -> 0..MaxAttempts] /\ swaps[j] \in 0..MaxAttempts
  BY DEF DbcInv, TypeOK, ChainTypeOK
<1>3. Fixed /\ Rests(j) /\ CurrentTx(j)' = CurrentTx(j)
  BY <1>1 DEF callVars, inputs, Fixed, Rests, CurrentTx
<1>4. /\ x \in Tx /\ x.call \in Call /\ x.att \in 1..MaxAttempts
      /\ x.step.op = "swap" => cmd[x.call] = "swap" /\ x = SwapTx(x.call, x.att)
  BY LiveFacts
<1>5. ASSUME NEW n PROVE SwapTx(j, n)' = SwapTx(j, n)
  BY DEF SwapTx, ForCall
<1>6. Late(j)' = {n \in Late(j) : SwapTx(j, n) # x}
  BY <1>1, <1>5 DEF Late
<1>7. CASE x.step.op # "swap" \/ x.call # j
  <2>1. \A n : SwapTx(j, n) # x
    BY <1>7 DEF SwapTx, ForCall
  <2>2. Late(j)' = Late(j)
    BY <1>6, <2>1
  <2>3. swaps'[j] = swaps[j]
    BY <1>1, <1>2, <1>4, <1>7
  <2>4. SameSwaps(j)
    BY <1>1, <2>2, <2>3 DEF SameSwaps
  <2> QED BY <1>2, <1>3, <2>3, <2>4, StillPaidOnce
<1>8. CASE x.step.op = "swap" /\ x.call = j
  <2> DEFINE n == x.att
  <2>1. x = SwapTx(j, n) /\ n \in Late(j) /\ cmd[j] = "swap"
    BY <1>4, <1>8 DEF Late
  <2>2. \A m : SwapTx(j, m) = SwapTx(j, n) => m = n
    BY DEF SwapTx
  <2> HIDE DEF n
  <2>3. Late(j)' = Late(j) \ {n}
    BY <1>6, <2>1, <2>2
  <2>4. /\ IsFiniteSet(Late(j)) /\ Cardinality(Late(j)) \in Nat /\ swaps[j] \in Nat
        /\ Paid(j) \in Nat /\ att[j] \in 1..MaxAttempts /\ MaxAttempts \in Nat
    BY <1>2, PaidFacts
  <2>5. Cardinality(Late(j) \ {n}) = Cardinality(Late(j)) - 1
    BY <2>1, <2>4, FS_RemoveElement
  <2>6. Cardinality(Late(j)) # 0
    BY <1>2, <2>1, PaidFacts
  <2>7. swaps'[j] \in {swaps[j], swaps[j] + 1}
    BY <1>1, <1>2, <1>8
  <2>8. Paid(j)' = swaps'[j] + Cardinality(Late(j) \ {n})
    BY <2>3 DEF Paid
  <2>9. Paid(j)' \in Nat /\ Paid(j)' <= Paid(j)
    BY <2>4, <2>5, <2>6, <2>7, <2>8 DEF Paid
  <2>10. Paid(j) # 0 /\ swaps[j] + 1 <= Paid(j)
    BY <2>4, <2>6 DEF Paid
  <2>11. Paid(j) <= MaxAttempts
    BY <1>2, <2>1, <2>4 DEF CallOK, SwapOK
  <2>12. swaps'[j] \in 0..MaxAttempts
    BY <2>4, <2>7, <2>10, <2>11
  <2>13. /\ cmd'[j] = cmd[j] /\ place'[j] = place[j] /\ att'[j] = att[j]
    BY <1>3, FixedFacts DEF Rests
  <2>14. SwapOK(j)'
    <3>1. /\ place[j] \in Ended => Paid(j)' <= MaxAttempts
          /\ place[j] = "send" => Paid(j)' <= att[j] - 1
          /\ place[j] = "confirm" => Paid(j)' <= att[j]
          /\ place[j] \notin Ended \cup {"send", "confirm"} => Paid(j)' = 0
      BY <1>2, <2>1, <2>4, <2>9, <2>10, <2>11 DEF CallOK, SwapOK
    <3> QED BY <2>1, <2>13, <3>1 DEF SwapOK
  <2>15. OnceOK(j)'
    <3> SUFFICES ASSUME ~world.missed
                 PROVE  /\ Paid(j)' <= 1
                        /\ place[j] = "send" => Paid(j)' = 0
                        /\ place[j] = "confirm" =>
                              (Late(j))' \subseteq {att[j]} /\ (swaps'[j] > 0 => CurrentTx(j) \in ran')
      BY <1>1, <1>3, <2>13 DEF OnceOK
    <3>1. /\ Paid(j) <= 1
          /\ place[j] = "send" => Paid(j) = 0
          /\ place[j] = "confirm" =>
                Late(j) \subseteq {att[j]} /\ (swaps[j] > 0 => CurrentTx(j) \in ran)
      BY <1>2, <2>1 DEF CallOK, OnceOK
    <3>2. Paid(j)' <= 1
      BY <2>4, <2>9, <3>1
    <3>3. place[j] # "send"
      BY <2>10, <3>1
    <3>4. ASSUME place[j] = "confirm" PROVE (Late(j))' \subseteq {att[j]}
      BY <2>3, <3>1, <3>4
    <3>5. ASSUME place[j] = "confirm", swaps'[j] > 0 PROVE CurrentTx(j) \in ran'
      <4>1. CASE swaps[j] > 0
        BY <1>1, <3>1, <3>5, <4>1
      <4>2. CASE ~(swaps[j] > 0)
        <5>1. swaps'[j] # swaps[j]
          BY <3>5, <4>2
        <5>2. x \in ran'
          BY <1>1, <5>1
        <5>3. n = att[j]
          BY <2>1, <3>1, <3>5
        <5>4. CurrentTx(j) = SwapTx(j, att[j])
          BY <2>1, <3>5, HeadFacts DEF InLoop
        <5> QED BY <2>1, <5>2, <5>3, <5>4
      <4> QED BY <4>1, <4>2
    <3> QED BY <3>2, <3>3, <3>4, <3>5
  <2> QED BY <2>12, <2>14, <2>15
<1> QED BY <1>7, <1>8

LEMMA ChainStepKeeps ==
    ASSUME DbcInv, ChainStep, UNCHANGED callVars
    PROVE  DbcInv'
<1>1. PICK x \in live : Execute(x) \/ Drop(x)
  BY DEF ChainStep
<1>2. Fixed /\ \A j \in Call : Rests(j)
  BY <1>1, ChainFacts DEF callVars, inputs, Fixed, Rests
<1>3. LedgerOK' /\ done' \subseteq Fact /\ done \subseteq done'
  BY <1>1, <1>2, ChainKeepsLedger, ChainFacts
<1>4. \A j \in Call : swaps'[j] \in 0..MaxAttempts
  BY <1>1, ChainKeepsPaid
<1>5. ASSUME NEW j \in Call PROVE CallOK(j)'
  <2>1. (QueueOK(j) /\ StageOK(j) /\ PlanOK(j))'
    BY <1>2, <1>3, StillPlanned DEF DbcInv
  <2>2. (SwapOK(j) /\ OnceOK(j))'
    BY <1>1, ChainKeepsPaid
  <2> QED BY <2>1, <2>2 DEF CallOK
<1>6. TypeOK'
  <2>1. /\ world' = world /\ live' = live \ {x} /\ ran' \subseteq ran \cup {x} /\ x \in Tx
        /\ swaps' = swaps \/ swaps' = [swaps EXCEPT ![x.call] = @ + 1]
    BY <1>1, ChainFacts, LiveFacts
  <2>2. TypeOK
    BY DEF DbcInv
  <2>3. swaps' \in [Call -> 0..MaxAttempts]
    <3>1. DOMAIN swaps' = Call /\ swaps' = [j \in Call |-> swaps'[j]]
      BY <2>1, <2>2 DEF TypeOK, ChainTypeOK
    <3> QED BY <1>4, <3>1
  <2>4. ChainTypeOK'
    BY <1>3, <2>1, <2>2, <2>3 DEF TypeOK, ChainTypeOK
  <2> QED BY <2>2, <2>4 DEF TypeOK, callVars, inputs
<1> QED BY <1>3, <1>5, <1>6 DEF DbcInv

-----------------------------------------------------------------------------
(* The theorems.                                                           *)

LEMMA DbcInit == Init => DbcInv
<1> SUFFICES ASSUME Init PROVE DbcInv
  OBVIOUS
<1>1. /\ world \in Worlds /\ live = {} /\ ran = {} /\ swaps = [k \in Call |-> 0]
      /\ done = (IF world.curve = "absent" THEN {} ELSE {<<"pool", Pool>>})
      /\ place = [k \in Call |-> "idle"] /\ seen = [k \in Call |-> {}]
      /\ queue = [k \in Call |-> <<>>] /\ sharing = [k \in Call |-> FALSE]
      /\ att = [k \in Call |-> 1]
  BY DEF Init, ChainInit
<1>2. MaxAttempts \in Nat \ {0} /\ 0 \in 0..MaxAttempts /\ 1 \in 1..MaxAttempts
  BY AttemptsAssumption
<1>3. cmd \in [Call -> Command] /\ dry \in [Call -> BOOLEAN]
  <2>1. PICK input \in [Call -> [cmd : Command, dry : BOOLEAN]] :
           cmd = [k \in Call |-> input[k].cmd] /\ dry = [k \in Call |-> input[k].dry]
    BY InputsAssumption DEF Init
  <2>2. \A k \in Call : input[k].cmd \in Command /\ input[k].dry \in BOOLEAN
    OBVIOUS
  <2> QED BY <2>1, <2>2
<1>4. TypeOK
  <2>1. done \subseteq Fact
    BY <1>1 DEF Fact, OnPool
  <2>2. ChainTypeOK
    BY <1>1, <1>2, <2>1 DEF ChainTypeOK
  <2>3. \A S : <<>> \in Seq(S)
    OBVIOUS
  <2> QED BY <1>1, <1>2, <1>3, <2>2, <2>3 DEF TypeOK, Place
<1>5. LedgerOK
  <2>1. \A op \in OnSide : \A s : <<op, s>> \notin done
    BY <1>1 DEF OnSide
  <2> QED BY <1>1, <2>1 DEF LedgerOK, TxOK, GroundOK, TogetherOK
<1>6. ASSUME NEW k \in Call PROVE CallOK(k)
  <2>1. /\ place[k] = "idle" /\ seen[k] = {} /\ queue[k] = <<>> /\ ~sharing[k]
        /\ att[k] = 1 /\ swaps[k] = 0 /\ <<>> \in Seq(Repertoire(k)) /\ Len(<<>>) = 0
    BY <1>1
  <2>2. Paid(k) = 0 /\ Late(k) = {}
    <3>1. Late(k) = {} /\ Cardinality({}) = 0
      BY <1>1, FS_EmptySet DEF Late
    <3> QED BY <2>1, <3>1 DEF Paid
  <2>3. QueueOK(k) /\ StageOK(k) /\ PlanOK(k)
    BY <2>1 DEF QueueOK, StageOK, PlanOK, InLoop
  <2>4. SwapOK(k) /\ OnceOK(k)
    BY <2>1, <2>2 DEF SwapOK, OnceOK, Ended
  <2> QED BY <2>3, <2>4 DEF CallOK
<1> QED BY <1>4, <1>5, <1>6 DEF DbcInv

LEMMA DbcStutter ==
    ASSUME DbcInv, UNCHANGED vars
    PROVE  DbcInv'
<1>1. /\ Fixed /\ UNCHANGED <<chainVars, callVars>>
      /\ UNCHANGED <<world, live, ran, done, swaps, place, cmd, dry, seen, queue, sharing, att>>
  BY DEF vars, callVars, chainVars, inputs, Fixed
<1>2. TypeOK'
  BY <1>1 DEF DbcInv, TypeOK, ChainTypeOK
<1>3. LedgerOK'
  <2>1. ASSUME NEW k PROVE (Repertoire(k))' = Repertoire(k)
    BY <1>1, FixedFacts
  <2>2. ASSUME NEW x PROVE Needs(x)' = Needs(x) /\ Effect(x)' = Effect(x)
    BY <1>1 DEF Needs, Effect
  <2> QED BY <1>1, <2>1, <2>2 DEF DbcInv, LedgerOK, TxOK, GroundOK, TogetherOK
<1>4. ASSUME NEW j \in Call PROVE CallOK(j)'
  <2>1. CallOK(j) /\ Rests(j) /\ done \subseteq done'
    BY <1>1 DEF DbcInv, Rests
  <2>2. SameSwaps(j)
    BY <1>1 DEF SameSwaps, Late, SwapTx, ForCall
  <2> QED BY <1>1, <2>1, <2>2, StillPlanned, StillPaidOnce DEF CallOK
<1> QED BY <1>2, <1>3, <1>4 DEF DbcInv

LEMMA DbcStep == DbcInv /\ [Next]_vars => DbcInv'
<1> SUFFICES ASSUME DbcInv, [Next]_vars PROVE DbcInv'
  OBVIOUS
<1>1. CASE \E k \in Call : CallStep(k)
  BY <1>1, CallStepKeeps
<1>2. CASE ChainStep /\ UNCHANGED callVars
  BY <1>2, ChainStepKeeps
<1>3. CASE UNCHANGED vars
  BY <1>3, DbcStutter
<1> QED BY <1>1, <1>2, <1>3 DEF Next

LEMMA DbcInvariant == Spec => []DbcInv
BY DbcInit, DbcStep, PTL DEF Spec

\* Whatever earlier, rival and killed calls left half done, and however late
\* their transactions land: a command that returns leaves done all it was run
\* for (deployDbc, claimTradingFee, swapBuy/Sell, migrateDammV1, migrateDammV2).
THEOREM ReturnedCorrect == Spec => []ReturnedIsDone
<1>1. ASSUME DbcInv PROVE ReturnedIsDone
  BY <1>1 DEF DbcInv, CallOK, PlanOK, ReturnedIsDone, ReturnedMeansDone
<1> QED BY <1>1, DbcInvariant, PTL

\* No transaction of a dry run is ever with a node, executed or not: every
\* send of every command is behind config.dryRun.
THEOREM DryRunCorrect == Spec => []DryRunSendsNothing
<1>1. ASSUME DbcInv PROVE DryRunSendsNothing
  BY <1>1 DEF DbcInv, LedgerOK, TxOK, DryRunSendsNothing
<1> QED BY <1>1, DbcInvariant, PTL

\* However often sendWithFreshBlockhash tries again, a swap is paid at most
\* once per call, so long as no confirmation misses its notification.
THEOREM SwapCorrect == Spec => []SwapOncePerCall
<1>1. ASSUME DbcInv, NEW k \in Call, ~world.missed PROVE swaps[k] <= 1
  <2>1. CallOK(k) /\ Cardinality(Late(k)) \in Nat /\ swaps[k] \in Nat
    BY <1>1, PaidFacts DEF DbcInv
  <2>2. CASE cmd[k] = "swap"
    BY <1>1, <2>1, <2>2 DEF CallOK, OnceOK, Paid
  <2>3. CASE cmd[k] # "swap"
    BY <2>1, <2>3 DEF CallOK, SwapOK
  <2> QED BY <2>2, <2>3
<1>2. ASSUME DbcInv PROVE SwapOncePerCall
  BY Zenon, <1>1, <1>2 DEF SwapOncePerCall
<1> QED BY <1>2, DbcInvariant, PTL

\* A command is refused by the node only because somebody finished the very
\* step it sends after it had looked: its steps never come before what they
\* build on, and nothing it saw done is sent again.
THEOREM RefusalCorrect == Spec => RefusedOnlyForNews
<1> DEFINE News == \A k \in Call : Refused(k) =>
                      /\ Effect(CurrentTx(k)) \cap done # {}
                      /\ Effect(CurrentTx(k)) \cap seen[k] = {}
<1>1. ASSUME DbcInv PROVE News
  <2> SUFFICES ASSUME NEW k \in Call, Refused(k)
               PROVE  /\ Effect(CurrentTx(k)) \cap done # {}
                      /\ Effect(CurrentTx(k)) \cap seen[k] = {}
    OBVIOUS
  <2>1. InLoop(k) /\ ~dry[k] /\ ~Accepted(CurrentTx(k)) /\ CallOK(k)
    BY <1>1 DEF Refused, InLoop, DbcInv
  <2>2. /\ queue[k] \in Seq(Repertoire(k)) /\ queue[k] # <<>>
        /\ Needs(CurrentTx(k)) = Needs(TxOf(k, Head(queue[k])))
        /\ Effect(CurrentTx(k)) = StepEffect(Head(queue[k]))
    BY <1>1, <2>1, HeadFacts
  <2>3. Founded(k, queue[k], done) /\ EffectsOf(queue[k]) \cap seen[k] = {}
    BY <2>1 DEF CallOK, PlanOK
  <2>4. Needs(CurrentTx(k)) \subseteq done
    BY <2>2, <2>3, HeadFounded
  <2>5. StepEffect(Head(queue[k])) \subseteq EffectsOf(queue[k])
    BY <2>2, TailFacts
  <2> QED BY <2>1, <2>2, <2>3, <2>4, <2>5 DEF Accepted
<1>2. DbcInv => [News]_vars
  BY <1>1
<1> QED BY <1>2, DbcInvariant, PTL DEF RefusedOnlyForNews
=============================================================================
