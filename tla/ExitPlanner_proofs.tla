------------------------- MODULE ExitPlanner_proofs -------------------------
(***************************************************************************)
(* Proofs about ExitPlanner: for any positions, fences and priorities, the *)
(* planner delivers the order the executor relies on, withdraws only what  *)
(* is open and inside the fence, and never lowers the price of a retry.    *)
(***************************************************************************)
EXTENDS ExitPlanner, ListFacts

-----------------------------------------------------------------------------
(* Filters.                                                                *)

IsListOf(s, S) == \E n \in Nat : s \in [1..n -> S] /\ EachOnce(s)

\* A filter keeps exactly what it names, in order.
LEMMA KeptIsList ==
    ASSUME NEW S, NEW T, NEW s, IsListOf(s, S)
    PROVE  /\ IsListOf(Kept(s, T), S)
           /\ ToSet(Kept(s, T)) = ToSet(s) \cap T
<1>1. PICK n \in Nat : s \in [1..n -> S] /\ EachOnce(s)
  BY DEF IsListOf
<1>2. Filters(Kept(s, T), s, n, T)
  BY <1>1, KeptLine
<1>3. PICK c \in 0..n : \E line \in [1..c -> 1..n] :
        /\ Kept(s, T) = [m \in 1..c |-> s[line[m]]]
        /\ \A l, m \in 1..c : l < m => line[l] < line[m]
  BY <1>2 DEF Filters
<1>4. PICK line \in [1..c -> 1..n] :
        /\ Kept(s, T) = [m \in 1..c |-> s[line[m]]]
        /\ \A l, m \in 1..c : l < m => line[l] < line[m]
  BY <1>3
<1>5. c \in Nat /\ \A m \in 1..c : Kept(s, T)[m] = s[line[m]] /\ line[m] \in 1..n
  BY <1>4
<1>6. Kept(s, T) \in [1..c -> S]
  BY <1>1, <1>4
<1>7. EachOnce(Kept(s, T))
  <2> SUFFICES ASSUME NEW l \in 1..c, NEW m \in 1..c, Kept(s, T)[l] = Kept(s, T)[m]
               PROVE  l = m
    BY <1>6 DEF EachOnce
  <2>1. line[l] = line[m]
    BY <1>1, <1>5 DEF EachOnce
  <2>2. ~(l < m) /\ ~(m < l)
    BY <1>4, <1>5, <2>1
  <2> QED BY <1>5, <2>2
<1>8. s \in Seq(S)
  BY <1>1
<1>9. ToSet(Kept(s, T)) = ToSet(s) \cap T
  BY <1>8, KeptSeq
<1> QED BY <1>5, <1>6, <1>7, <1>9 DEF IsListOf

-----------------------------------------------------------------------------
(* The order of the result.                                                *)

LEMMA InsertedOnce ==
    ASSUME NEW n \in Nat, NEW s, DOMAIN s = 1..n
    PROVE  /\ \A i \in 1..n : Inserted(s, i) \in 1..n
           /\ \A i, j \in 1..n : Inserted(s, i) = Inserted(s, j) <=> PoolOf[s[i]] = PoolOf[s[j]]
<1>1. ASSUME NEW i \in 1..n
      PROVE  /\ Inserted(s, i) \in 1..n
             /\ PoolOf[s[Inserted(s, i)]] = PoolOf[s[i]]
  <2> DEFINE S == {j \in 1..n : PoolOf[s[j]] = PoolOf[s[i]]}
  <2>1. S \in SUBSET (1..n) /\ S # {}
    OBVIOUS
  <2>2. PICK j \in S : \A h \in S : j =< h
    <3> HIDE DEF S
    <3> QED BY <2>1, FirstExists
  <2>3. /\ j \in 1..n /\ PoolOf[s[j]] = PoolOf[s[i]]
        /\ \A h \in 1..n : PoolOf[s[h]] = PoolOf[s[i]] => j =< h
    BY <2>2
  <2> HIDE DEF S
  <2> QED BY <2>3 DEF Inserted
<1>2. ASSUME NEW i \in 1..n, NEW j \in 1..n, PoolOf[s[i]] = PoolOf[s[j]]
      PROVE  Inserted(s, i) = Inserted(s, j)
  BY <1>2 DEF Inserted
<1> QED BY <1>1, <1>2

\* Precedes is a total order of the places.
LEMMA PrecedesLine ==
    ASSUME NEW n \in Nat, NEW s \in [1..n -> Task]
    PROVE  IsLess(1..n, [i \in 1..n |-> {j \in 1..n : Precedes(s, j, i)}])
<1> DEFINE before == [i \in 1..n |-> {j \in 1..n : Precedes(s, j, i)}]
           In(i) == Inserted(s, i)
<1>1. \A i \in 1..n : In(i) \in 1..n
  BY InsertedOnce
<1>2. \A i \in 1..n : (s[i] \in Claim /\ s[i] \notin Withdraw) \/ (s[i] \notin Claim /\ s[i] \in Withdraw)
  BY TasksAssumption DEF Task
<1>3. \A i, j \in 1..n :
         Precedes(s, j, i) <=> \/ In(j) < In(i)
                               \/ /\ In(j) = In(i)
                                  /\ \/ s[j] \in Claim /\ s[i] \in Withdraw
                                     \/ (s[i] \in Claim <=> s[j] \in Claim) /\ j < i
  BY DEF Precedes
<1> HIDE DEF In
<1>4. \A i \in 1..n : ~Precedes(s, i, i)
  BY <1>1, <1>2, <1>3
<1>5. \A i, j \in 1..n : i = j \/ Precedes(s, i, j) \/ Precedes(s, j, i)
  BY SMTT(40), <1>1, <1>2, <1>3
<1>6. \A h, i, j \in 1..n : Precedes(s, h, j) /\ Precedes(s, j, i) => Precedes(s, h, i)
  <2> TAKE h, i, j \in 1..n
  <2>1. In(h) \in Nat /\ In(i) \in Nat /\ In(j) \in Nat
    BY <1>1
  <2>2. h \in Nat /\ i \in Nat /\ j \in Nat
    OBVIOUS
  <2> QED BY <1>2, <1>3, <2>1, <2>2
<1>7. before \in [1..n -> SUBSET (1..n)]
  OBVIOUS
<1>8. \A i, j \in 1..n : j \in before[i] <=> Precedes(s, j, i)
  OBVIOUS
<1> HIDE DEF before
<1>9. \A i, j \in 1..n : j \in before[i] => before[j] \subseteq before[i]
  BY <1>6, <1>7, <1>8
<1>10. IsLess(1..n, before)
  BY <1>4, <1>5, <1>7, <1>8, <1>9 DEF IsLess
<1> QED BY <1>10 DEF before

\* The order of the result is the one the executor relies on.
LEMMA OrderedIsPlan ==
    ASSUME NEW cs, NEW ws, IsListOf(cs, Claim), IsListOf(ws, Withdraw)
    PROVE  /\ IsPlan(Ordered(cs, ws))
           /\ ToSet(Ordered(cs, ws)) = ToSet(cs) \cup ToSet(ws)
<1>1. PICK c \in Nat : cs \in [1..c -> Claim] /\ EachOnce(cs)
  BY DEF IsListOf
<1>2. PICK w \in Nat : ws \in [1..w -> Withdraw] /\ EachOnce(ws)
  BY DEF IsListOf
<1> DEFINE all == cs \o ws
           n == c + w
<1>3. cs \in Seq(Claim) /\ Len(cs) = c /\ ws \in Seq(Withdraw) /\ Len(ws) = w
  BY <1>1, <1>2
<1>4. /\ n \in Nat /\ DOMAIN all = 1..n
      /\ \A i \in 1..n : all[i] = IF i <= c THEN cs[i] ELSE ws[i - c]
  BY <1>3
<1>5. \A i \in 1..n : (i <= c /\ i \in 1..c) \/ (~(i <= c) /\ i - c \in 1..w)
  BY <1>1, <1>2
<1>6. \A i \in 1..n : all[i] \in Task
  <2> HIDE DEF all, n
  <2> QED BY <1>1, <1>2, <1>4, <1>5 DEF Task
<1>7. all \in [1..n -> Task]
  <2>1. cs \in Seq(Task) /\ ws \in Seq(Task)
    BY <1>3 DEF Task
  <2>2. all \in Seq(Task)
    BY <2>1
  <2> HIDE DEF all, n
  <2> QED BY <1>4, <2>2
<1>8. ToSet(all) = ToSet(cs) \cup ToSet(ws)
  <2>1. /\ ToSet(all) = {all[i] : i \in 1..n}
        /\ ToSet(cs) = {cs[i] : i \in 1..c} /\ ToSet(ws) = {ws[i] : i \in 1..w}
    BY <1>1, <1>2, <1>4 DEF ToSet
  <2>2. ToSet(all) \subseteq ToSet(cs) \cup ToSet(ws)
    <3> HIDE DEF all, n
    <3> QED BY <2>1, <1>4, <1>5
  <2>3. \A i \in 1..c : i \in 1..n /\ i <= c
    BY <1>1, <1>2
  <2>4. ToSet(cs) \subseteq ToSet(all)
    <3> HIDE DEF all, n
    <3> QED BY <2>1, <2>3, <1>4
  <2>5. \A i \in 1..w : c + i \in 1..n /\ ~(c + i <= c) /\ (c + i) - c = i
    BY <1>1, <1>2
  <2>6. \A i \in 1..w : all[c + i] = ws[i]
    <3> HIDE DEF all, n
    <3> QED BY <2>5, <1>4
  <2>7. ToSet(ws) \subseteq ToSet(all)
    <3> HIDE DEF all, n
    <3> QED BY <2>1, <2>5, <2>6
  <2> QED BY <2>2, <2>4, <2>7
<1>9. EachOnce(all)
  <2> SUFFICES ASSUME NEW i \in 1..n, NEW j \in 1..n, all[i] = all[j]
               PROVE  i = j
    <3> HIDE DEF all
    <3> QED BY <1>4 DEF EachOnce
  <2>1. i <= c <=> j <= c
    <3> HIDE DEF all, n
    <3> QED BY <1>1, <1>2, <1>4, <1>5, TasksAssumption
  <2>2. CASE i <= c
    <3>1. cs[i] = cs[j] /\ i \in 1..c /\ j \in 1..c
      <4> HIDE DEF all, n
      <4> QED BY <2>1, <2>2, <1>4, <1>5
    <3> QED BY <3>1, <1>1 DEF EachOnce
  <2>3. CASE ~(i <= c)
    <3>1. ws[i - c] = ws[j - c] /\ i - c \in 1..w /\ j - c \in 1..w
      <4> HIDE DEF all, n
      <4> QED BY <2>1, <2>3, <1>4, <1>5
    <3>2. i - c = j - c
      BY <3>1, <1>2 DEF EachOnce
    <3> QED BY <3>2, <1>1, <1>2
  <2> QED BY <2>2, <2>3
<1> HIDE DEF all, n
<1> DEFINE before == [i \in 1..n |-> {j \in 1..n : Precedes(all, j, i)}]
           line == Lined(before)
<1>10. IsLess(1..n, before)
  BY <1>4, <1>7, PrecedesLine
<1>11. IsFiniteSet(1..n) /\ Cardinality(1..n) = n
  BY <1>4, FS_Interval
<1>12. /\ line \in [1..n -> 1..n]
       /\ \A i \in 1..n : \E m \in 1..n : line[m] = i
       /\ \A l, m \in 1..n : l < m => line[l] \in before[line[m]]
  <2> HIDE DEF before
  <2> QED BY <1>10, <1>11, LinedUp
<1>13. \A l, m \in 1..n : l < m => Precedes(all, line[l], line[m])
  <2> HIDE DEF line
  <2> QED BY <1>12
<1>14. \A l, m \in 1..n : l < m => line[l] # line[m]
  <2> TAKE l, m \in 1..n
  <2> HAVE l < m
  <2>1. line[l] \in before[line[m]] /\ line[m] \in 1..n
    BY <1>12
  <2> HIDE DEF before, line
  <2> QED BY <1>10, <2>1 DEF IsLess
<1> DEFINE s == Ordered(cs, ws)
<1>15. s = [m \in 1..n |-> all[line[m]]]
  <2>1. s = [m \in DOMAIN line |-> all[line[m]]]
    <3>1. s = LET all1 == cs \o ws
                  line1 == Lined([i \in DOMAIN all1 |-> {j \in DOMAIN all1 : Precedes(all1, j, i)}])
              IN  [m \in DOMAIN line1 |-> all1[line1[m]]]
      BY DEF Ordered
    <3>2. cs \o ws = all
      BY DEF all
    <3> QED BY <3>1, <3>2, <1>4
  <2> HIDE DEF line
  <2> QED BY <1>12, <2>1
<1> HIDE DEF line, before, s
<1>16. DOMAIN s = 1..n /\ \A m \in 1..n : s[m] = all[line[m]] /\ line[m] \in 1..n /\ s[m] \in Task
  BY <1>6, <1>12, <1>15
<1>17. EachOnce(s)
  <2> SUFFICES ASSUME NEW l \in 1..n, NEW m \in 1..n, s[l] = s[m]
               PROVE  l = m
    BY <1>16 DEF EachOnce
  <2>1. line[l] = line[m]
    BY <1>4, <1>9, <1>16 DEF EachOnce
  <2>2. ~(l < m) /\ ~(m < l)
    BY <1>14, <2>1
  <2> QED BY <1>4, <2>2
<1> DEFINE In(m) == Inserted(all, line[m])
<1>18. /\ \A m \in 1..n : In(m) \in 1..n
       /\ \A l, m \in 1..n : In(l) = In(m) <=> PoolOf[s[l]] = PoolOf[s[m]]
  <2>1. /\ \A i \in 1..n : Inserted(all, i) \in 1..n
        /\ \A i, j \in 1..n : Inserted(all, i) = Inserted(all, j) <=> PoolOf[all[i]] = PoolOf[all[j]]
    <3>1. n \in Nat /\ DOMAIN all = 1..n
      BY <1>4
    <3> QED BY ZenonT(60), <3>1, InsertedOnce
  <2>2. \A m \in 1..n : line[m] \in 1..n
    BY <1>16
  <2>3. \A m \in 1..n : In(m) \in 1..n
    BY <2>1, <2>2
  <2>4. \A l, m \in 1..n : In(l) = In(m) <=> PoolOf[all[line[l]]] = PoolOf[all[line[m]]]
    BY <2>1, <2>2
  <2> HIDE DEF In
  <2> QED BY SMTT(40), <1>16, <2>3, <2>4
<1>19. \A l, m \in 1..n : l < m =>
          \/ In(l) < In(m)
          \/ (In(l) = In(m)) /\ ~(s[l] \in Withdraw /\ s[m] \in Claim)
  <2> TAKE l, m \in 1..n
  <2> HAVE l < m
  <2>1. Precedes(all, line[l], line[m])
    BY <1>13
  <2>2. s[l] = all[line[l]] /\ s[m] = all[line[m]] /\ s[l] \in Task /\ s[m] \in Task
    BY <1>16
  <2> QED BY <2>1, <2>2, TasksAssumption DEF Precedes, Task
<1> HIDE DEF In
<1>20. ClaimsFirst(s)
  <2> SUFFICES ASSUME NEW l \in 1..n, NEW m \in 1..n,
                      PoolOf[s[l]] = PoolOf[s[m]], s[l] \in Withdraw, s[m] \in Claim
               PROVE  m < l
    BY <1>16 DEF ClaimsFirst
  <2>1. In(l) = In(m) /\ In(l) \in 1..n /\ In(m) \in 1..n
    BY <1>18
  <2>2. ~(l < m)
    BY <1>19, <2>1
  <2>3. l # m
    BY TasksAssumption
  <2> QED BY <1>4, <2>2, <2>3
<1>21. PoolByPool(s)
  <2> SUFFICES ASSUME NEW l \in 1..n, NEW m \in 1..n, NEW o \in 1..n,
                      l < m, m < o, PoolOf[s[l]] = PoolOf[s[o]]
               PROVE  PoolOf[s[m]] = PoolOf[s[l]]
    BY <1>16 DEF PoolByPool
  <2>1. In(l) = In(o) /\ In(l) \in 1..n /\ In(m) \in 1..n /\ In(o) \in 1..n
    BY <1>18
  <2>2. (In(l) < In(m) \/ In(l) = In(m)) /\ (In(m) < In(o) \/ In(m) = In(o))
    BY <1>19
  <2>3. In(l) = In(m)
    BY <1>4, <2>1, <2>2
  <2> QED BY <1>18, <2>3
<1>22. ToSet(s) = ToSet(all)
  <2>1. ToSet(s) = {s[m] : m \in 1..n} /\ ToSet(all) = {all[i] : i \in 1..n}
    BY <1>4, <1>16 DEF ToSet
  <2>2. ToSet(s) \subseteq ToSet(all)
    BY <1>16, <2>1
  <2>3. ToSet(all) \subseteq ToSet(s)
    <3> SUFFICES ASSUME NEW i \in 1..n
                 PROVE  \E m \in 1..n : s[m] = all[i]
      BY <2>1
    <3>1. PICK m \in 1..n : line[m] = i
      BY <1>12
    <3> QED BY <1>16, <3>1
  <2> QED BY <2>2, <2>3
<1> QED BY <1>8, <1>17, <1>20, <1>21, <1>22 DEF IsPlan, s

-----------------------------------------------------------------------------
(* The priority ladder.                                                    *)

LEMMA Rounding ==
    ASSUME NEW v \in Nat
    PROVE  RoundDown(v, 1000) \in Nat /\ RoundDown(v, 1000) =< v /\ RoundDown(v, 1000) >= v - 999
  BY SMT DEF RoundDown

LEMMA CapMonotone ==
    ASSUME NEW v \in Nat, NEW w \in Nat, v =< w
    PROVE  Capped(v) =< Capped(w) /\ Capped(w) =< Cap /\ Capped(v) \in Nat
  BY SMT DEF Capped, Cap

LEMMA LadderRises ==
    ASSUME NEW b \in Nat, b =< Cap, b >= 2117
    PROVE  LET s == Steps(b) IN s[1] =< s[2] /\ s[2] =< s[3] /\ s[3] =< Cap
<1> DEFINE second == (27 * b) \div 20
           x == (729 * b) \div 400
           third == IF b > 2000000 THEN Cap ELSE Capped(RoundDown(x, 1000))
<1>1. Steps(b) = <<Capped(RoundDown(b, 1000)), Capped(second), third>>
  BY DEF Steps
<1>2. second \in Nat /\ b =< second
  BY SMT
<1>3. x \in Nat /\ second =< x - 999
  BY SMT
<1>4. Cap \in Nat
  BY SMT DEF Cap
<1> HIDE DEF second, x
<1>5. Capped(RoundDown(b, 1000)) =< Capped(second) /\ Capped(second) =< Cap
  <2>1. RoundDown(b, 1000) \in Nat /\ RoundDown(b, 1000) =< second
    BY SMT, <1>2, Rounding
  <2> QED BY SMT, <1>2, <2>1, CapMonotone
<1>6. Capped(second) =< third /\ third =< Cap
  <2>1. RoundDown(x, 1000) \in Nat /\ second =< RoundDown(x, 1000)
    BY SMT, <1>2, <1>3, Rounding
  <2>2. Capped(second) =< Capped(RoundDown(x, 1000)) /\ Capped(RoundDown(x, 1000)) =< Cap
    BY SMT, <1>2, <2>1, CapMonotone
  <2> QED BY SMT, <1>4, <1>5, <2>2
<1> HIDE DEF third
<1> QED BY <1>1, <1>5, <1>6

-----------------------------------------------------------------------------
(* The invariant.                                                          *)

ListsOK ==
    /\ IsListOf(dbc, Claim) /\ IsListOf(claims, Claim)
    /\ IsListOf(damm, Withdraw) /\ IsListOf(withdraws, Withdraw)

\* What speaks against a withdrawal.
MayGo(t) ==
    /\ fence # {} => PoolOf[t] \in fence
    /\ DOMAIN scan # {} => t \in DOMAIN scan /\ scan[t]
    /\ PoolOf[t] # NoPool

PlanInv ==
    /\ at \in {"discovery", "claims", "scan", "withdraws", "order", "done"}
    /\ fence \in Fences /\ base \in Bases /\ sdk \in BOOLEAN
    /\ DOMAIN scan \subseteq Withdraw
    /\ ListsOK
    /\ at \notin {"order", "done"} => ToSet(withdraws) = {}
    /\ \A t \in ToSet(withdraws) : MayGo(t)
    /\ plan = IF at = "done" THEN Ordered(claims, withdraws) ELSE <<>>

LEMMA NoneIsList == ToSet(<<>>) = {} /\ \A S : IsListOf(<<>>, S)
<1>1. ToSet(<<>>) = {}
  BY DEF ToSet
<1>2. ASSUME NEW S
      PROVE  IsListOf(<<>>, S)
  <2>1. <<>> \in [1..0 -> S] /\ EachOnce(<<>>)
    BY DEF EachOnce
  <2> QED BY <2>1 DEF IsListOf
<1> QED BY <1>1, <1>2

LEMMA ListsAreLists == \A S : IsFiniteSet(S) => \A s \in Lists(S) : IsListOf(s, S)
<1> SUFFICES ASSUME NEW S, IsFiniteSet(S), NEW s \in Lists(S)
             PROVE  IsListOf(s, S)
  OBVIOUS
<1>1. Cardinality(S) \in Nat
  BY FS_CardinalityType
<1>2. PICK n \in 0..Cardinality(S) : s \in {q \in [1..n -> S] : EachOnce(q)}
  BY DEF Lists
<1> QED BY <1>1, <1>2 DEF IsListOf

LEMMA CandidatesMayGo ==
    ASSUME IsListOf(damm, Withdraw)
    PROVE  IsListOf(Candidates, Withdraw) /\ \A t \in ToSet(Candidates) : MayGo(t)
<1> DEFINE fenced == Fenced(damm)
           valid == Validated(fenced)
<1>1. IsListOf(fenced, Withdraw) /\ \A t \in ToSet(fenced) : fence # {} => PoolOf[t] \in fence
  BY KeptIsList DEF Fenced
<1> HIDE DEF fenced
<1>2. /\ IsListOf(valid, Withdraw)
      /\ ToSet(valid) \subseteq ToSet(fenced)
      /\ \A t \in ToSet(valid) : DOMAIN scan # {} => t \in DOMAIN scan /\ scan[t]
  <2> DEFINE open == {t \in DOMAIN scan : scan[t]}
  <2>1. CASE DOMAIN scan = {}
    BY <1>1, <2>1 DEF Validated
  <2>2. CASE DOMAIN scan # {}
    <3>1. valid = Kept(fenced, open)
      BY <2>2 DEF Validated
    <3> HIDE DEF open, valid
    <3>2. IsListOf(valid, Withdraw) /\ ToSet(valid) = ToSet(fenced) \cap open
      BY <1>1, <3>1, KeptIsList
    <3> QED BY <3>2 DEF open
  <2> QED BY <2>1, <2>2
<1>3. Candidates = Kept(valid, {t \in Task : PoolOf[t] # NoPool})
  BY DEF Candidates, fenced
<1> HIDE DEF valid
<1>4. /\ IsListOf(Candidates, Withdraw)
      /\ ToSet(Candidates) = ToSet(valid) \cap {t \in Task : PoolOf[t] # NoPool}
  BY <1>2, <1>3, KeptIsList
<1> QED BY <1>1, <1>2, <1>4 DEF MayGo

LEMMA PlanInit == Init => PlanInv
<1> SUFFICES ASSUME Init
             PROVE  PlanInv
  OBVIOUS
<1>1. ListsOK /\ ToSet(withdraws) = {}
  BY NoneIsList DEF Init, ListsOK
<1>2. DOMAIN scan \subseteq Withdraw
  BY DEF Init
<1> QED BY <1>1, <1>2 DEF Init, PlanInv

LEMMA PlanStep == PlanInv /\ [Next]_vars => PlanInv'
<1> SUFFICES ASSUME PlanInv, [Next]_vars
             PROVE  PlanInv'
  OBVIOUS
<1>0. IsFiniteSet(Claim) /\ IsFiniteSet(Withdraw)
  BY TasksAssumption, FS_Subset DEF Task
<1>1. CASE Discovered
  <2>1. IsListOf(dbc', Claim) /\ IsListOf(damm', Withdraw)
    BY <1>0, <1>1, ListsAreLists DEF Discovered
  <2> QED BY <1>1, <2>1 DEF Discovered, PlanInv, ListsOK, MayGo
<1>2. CASE ClaimsBuilt
  <2>1. IsListOf(claims', Claim)
    BY <1>2, KeptIsList DEF ClaimsBuilt, PlanInv, ListsOK
  <2> QED BY <1>2, <2>1 DEF ClaimsBuilt, PlanInv, ListsOK, MayGo
<1>3. CASE Scanned
  <2>1. DOMAIN scan' \subseteq Withdraw
    BY <1>3 DEF Scanned
  <2> QED BY <1>3, <2>1 DEF Scanned, PlanInv, ListsOK, MayGo
<1>4. CASE WithdrawsBuilt
  <2>1. PICK ok \in SUBSET {t \in ToSet(Candidates) : Encodable(base)} : withdraws' = Kept(Candidates, ok)
    BY <1>4 DEF WithdrawsBuilt
  <2>2. IsListOf(Candidates, Withdraw) /\ \A t \in ToSet(Candidates) : MayGo(t)
    BY CandidatesMayGo DEF PlanInv, ListsOK
  <2>3. IsListOf(withdraws', Withdraw) /\ ToSet(withdraws') \subseteq ToSet(Candidates)
    BY <2>1, <2>2, KeptIsList
  <2>4. \A t \in ToSet(withdraws') : MayGo(t)
    BY <2>2, <2>3
  <2>5. \A t \in ToSet(withdraws)' : MayGo(t)'
    BY <1>4, <2>4 DEF WithdrawsBuilt, MayGo, ToSet
  <2> QED BY <1>4, <2>3, <2>5 DEF WithdrawsBuilt, PlanInv, ListsOK
<1>5. CASE Finished
  BY <1>5 DEF Finished, PlanInv, ListsOK, MayGo
<1>6. CASE UNCHANGED vars
  BY <1>6 DEF vars, PlanInv, ListsOK, MayGo
<1> QED BY <1>1, <1>2, <1>3, <1>4, <1>5, <1>6 DEF Next

LEMMA PlanFollows == PlanInv => PlanIsOrdered /\ PlanIsSound
<1> SUFFICES ASSUME PlanInv
             PROVE  PlanIsOrdered /\ PlanIsSound
  OBVIOUS
<1>1. \A s, S : IsListOf(s, S) => ToSet(s) \subseteq S
  <2> SUFFICES ASSUME NEW s, NEW S, NEW n \in Nat, s \in [1..n -> S]
               PROVE  ToSet(s) \subseteq S
    BY DEF IsListOf
  <2> QED BY DEF ToSet
<1>2. /\ ToSet(dbc) \subseteq Claim /\ ToSet(claims) \subseteq Claim
      /\ ToSet(damm) \subseteq Withdraw /\ ToSet(withdraws) \subseteq Withdraw
  BY <1>1 DEF PlanInv, ListsOK
<1>3. at = "done" => IsPlan(plan) /\ ToSet(plan) = ToSet(claims) \cup ToSet(withdraws)
  BY OrderedIsPlan DEF PlanInv, ListsOK
<1>4. at # "done" => ToSet(plan) = {}
  BY NoneIsList DEF PlanInv
<1>5. ToSet(plan) \subseteq Task
  BY <1>2, <1>3, <1>4 DEF Task
<1>6. ToSet(plan) \cap Withdraw \subseteq ToSet(withdraws)
  BY <1>2, <1>3, <1>4, TasksAssumption
<1>7. TypeOK
  BY <1>2, <1>5 DEF PlanInv, TypeOK
<1>8. WithdrawalsAreOpen
  BY <1>6 DEF PlanInv, MayGo, WithdrawalsAreOpen
<1> QED BY <1>3, <1>7, <1>8 DEF PlanIsOrdered, PlanIsSound

\* The plan holds every built task once, pool after pool, claims before
\* withdrawals (universalExitPlanner.ts, the grouping by pool).
THEOREM OrderCorrect == Spec => []PlanIsOrdered
<1>1. PlanInv => PlanIsOrdered
  BY PlanFollows
<1> QED BY <1>1, PlanInit, PlanStep, PTL DEF Spec

\* Nothing is withdrawn outside the fence, or against what the wallet scan has
\* shown (universalExitPlanner.ts, the three filters).
THEOREM SelectionCorrect == Spec => []PlanIsSound
<1>1. PlanInv => PlanIsSound
  BY PlanFollows
<1> QED BY <1>1, PlanInit, PlanStep, PTL DEF Spec

\* For every priority the page can pass, from 2117 micro-lamports on, the three
\* variants rise up to the cap (universalExitPlanner.ts, step1 to step3).
THEOREM LadderCorrect == Spec => []RetriesPayMore
<1>1. PlanInv => RetriesPayMore
  BY LadderRises, BasesAssumption DEF PlanInv, RetriesPayMore
<1> QED BY <1>1, PlanInit, PlanStep, PTL DEF Spec
=============================================================================
