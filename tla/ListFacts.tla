------------------------------ MODULE ListFacts ------------------------------
(***************************************************************************)
(* What the operators of ListPlaces deliver, and induction over an         *)
(* interval in a form that needs no operator for its hypothesis: the facts *)
(* that the proofs about the planner, the Explore page and the whitelist   *)
(* trees share.                                                            *)
(***************************************************************************)
EXTENDS ListPlaces, SequencesExt, FiniteSetTheorems, TLAPS

-----------------------------------------------------------------------------
(* Numbers from 0 or 1 to n.                                               *)

\* Places that are some have a first one.
LEMMA FirstExists ==
    ASSUME NEW n \in Nat, NEW S \in SUBSET (1..n), S # {}
    PROVE  \E j \in S : \A h \in S : j =< h
<1> DEFINE Lacks(T) == T # {} /\ \A x \in T : \E y \in T : ~(x =< y)
           Lacking == {T \in SUBSET S : Lacks(T)}
<1>1. SUFFICES ASSUME Lacks(S)
               PROVE  FALSE
  OBVIOUS
<1>2. S \in Lacking /\ Lacking \subseteq SUBSET S
  BY <1>1
<1>3. PICK T \in Lacking : \A U \in Lacking : <<U, T>> \notin StrictSubsetOrdering(S)
  <2> HIDE DEF Lacking
  <2>1. IsFiniteSet(1..n)
    BY FS_Interval
  <2>2. IsFiniteSet(S)
    BY <2>1, FS_Subset
  <2>3. IsWellFoundedOn(StrictSubsetOrdering(S), SUBSET S)
    BY <2>2, FS_FiniteSubsetsOfFinite, FS_StrictSubsetOrderingWellFounded
  <2> QED BY <1>2, <2>3, WFMin
<1>4. PICK x \in T : TRUE
  OBVIOUS
<1>5. T \ {x} \notin Lacking
  BY <1>3, <1>4 DEF StrictSubsetOrdering
<1>6. CASE T = {x}
  BY <1>6
<1>7. CASE T # {x}
  <2>1. PICK m \in T \ {x} : \A y \in T \ {x} : m =< y
    BY <1>4, <1>5, <1>7
  <2>2. CASE m =< x
    BY <2>1, <2>2
  <2>3. CASE x =< m
    BY <2>1, <2>3
  <2> QED BY <2>1, <2>2, <2>3
<1> QED BY <1>6, <1>7

\* What holds of 0 and passes from each number to the next holds up to n.
LEMMA UpTo ==
    ASSUME NEW n \in Nat, NEW S, 0 \in S, \A i \in 0..(n - 1) : i \in S => i + 1 \in S
    PROVE  0..n \subseteq S
<1> DEFINE Missing == {i \in 1..n : i \notin S}
<1>1. SUFFICES ASSUME Missing # {}
               PROVE  FALSE
  OBVIOUS
<1>2. Missing \in SUBSET (1..n)
  OBVIOUS
<1>3. PICK i \in Missing : \A h \in Missing : i =< h
  <2> HIDE DEF Missing
  <2> QED BY <1>1, <1>2, FirstExists
<1>4. i - 1 \in 0..(n - 1) /\ i - 1 \in S /\ (i - 1) + 1 = i
  BY <1>3
<1> QED BY <1>3, <1>4

-----------------------------------------------------------------------------
(* Places lined up.                                                        *)

IsLess(P, before) ==
    /\ before \in [P -> SUBSET P]
    /\ \A i \in P : i \notin before[i]
    /\ \A i, j \in P : i = j \/ i \in before[j] \/ j \in before[i]
    /\ \A i, j \in P : j \in before[i] => before[j] \subseteq before[i]

\* Places that are totally ordered are lined up in that order, none left out:
\* the number of places before a place is different for each and below their
\* number, hence takes every value there is.
LEMMA LinedUp ==
    ASSUME NEW P, IsFiniteSet(P), NEW before, IsLess(P, before)
    PROVE  /\ Cardinality(P) \in Nat
           /\ Lined(before) \in [1..Cardinality(P) -> P]
           /\ \A i \in P : \E n \in 1..Cardinality(P) : Lined(before)[n] = i
           /\ \A m, n \in 1..Cardinality(P) : m < n => Lined(before)[m] \in before[Lined(before)[n]]
<1> DEFINE N == Cardinality(P)
           size == [i \in P |-> Cardinality(before[i])]
<1>1. N \in Nat
  BY FS_CardinalityType
<1>2. ASSUME NEW i \in P
      PROVE  IsFiniteSet(before[i]) /\ size[i] \in 0..(N - 1)
  <2>1. before[i] \in SUBSET (P \ {i})
    BY DEF IsLess
  <2>2. IsFiniteSet(P \ {i}) /\ Cardinality(P \ {i}) = N - 1
    BY FS_RemoveElement
  <2>3. IsFiniteSet(before[i]) /\ Cardinality(before[i]) <= N - 1
    BY <2>1, <2>2, FS_Subset
  <2>4. Cardinality(before[i]) \in Nat
    BY <2>3, FS_CardinalityType
  <2> QED BY <1>1, <2>3, <2>4
<1>3. ASSUME NEW i \in P, NEW j \in before[i]
      PROVE  size[j] < size[i]
  <2>1. j \in P /\ before[j] \in SUBSET before[i] /\ before[j] # before[i]
    BY DEF IsLess
  <2>2. Cardinality(before[j]) <= Cardinality(before[i]) /\ Cardinality(before[j]) # Cardinality(before[i])
    BY <1>2, <2>1, FS_Subset
  <2>3. size[i] = Cardinality(before[i]) /\ size[j] = Cardinality(before[j])
    BY <2>1
  <2>4. size[i] \in Nat /\ size[j] \in Nat
    BY <1>2, <2>1
  <2> QED BY <2>2, <2>3, <2>4
<1>4. size \in Injection(P, 0..(N - 1))
  <2>1. size \in [P -> 0..(N - 1)]
    BY <1>2
  <2>2. ASSUME NEW i \in P, NEW j \in P, size[i] = size[j]
        PROVE  i = j
    <3> HIDE DEF size
    <3>1. size[i] \in Nat /\ size[j] \in Nat
      BY <1>2
    <3>2. i \notin before[j] /\ j \notin before[i]
      BY <1>3, <2>2, <3>1
    <3> QED BY <3>2 DEF IsLess
  <2> HIDE DEF size
  <2> QED BY <2>1, <2>2 DEF Injection, IsInjective
<1>5. IsFiniteSet(0..(N - 1)) /\ Cardinality(0..(N - 1)) = N
  BY SMTT(40), <1>1, FS_Interval
<1>6. size \in Surjection(P, 0..(N - 1))
  <2> HIDE DEF size, N
  <2>1. IsFiniteSet(P) /\ Cardinality(P) = Cardinality(0..(N - 1))
    BY <1>5 DEF N
  <2> QED BY <1>4, <1>5, <2>1, FS_Injection
<1>7. \A n \in 1..N : \E i \in P : size[i] = n - 1
  <2> HIDE DEF size
  <2>1. \A n \in 1..N : n - 1 \in 0..(N - 1)
    BY <1>1
  <2> QED BY <1>6, <2>1 DEF Surjection
<1>8. DOMAIN before = P
  BY DEF IsLess
<1>9. \A n \in 1..N : Lined(before)[n] \in P /\ size[Lined(before)[n]] = n - 1
  <2> TAKE n \in 1..N
  <2>1. Lined(before)[n] = CHOOSE i \in P : Cardinality(before[i]) = n - 1
    BY <1>8 DEF Lined
  <2>2. \E i \in P : Cardinality(before[i]) = n - 1
    BY <1>7
  <2>3. Lined(before)[n] \in P /\ Cardinality(before[Lined(before)[n]]) = n - 1
    BY <2>1, <2>2
  <2> QED BY <2>3
<1>10. Lined(before) \in [1..N -> P]
  BY <1>8, <1>9 DEF Lined
<1>11. ASSUME NEW i \in P
       PROVE  \E n \in 1..N : Lined(before)[n] = i
  <2> HIDE DEF size
  <2>1. PICK n \in 1..N : n - 1 = size[i]
    <3>1. size[i] \in 0..(N - 1)
      BY <1>2
    <3>2. ASSUME NEW d \in 0..(N - 1)
          PROVE  \E n \in 1..N : n - 1 = d
      <4>1. d + 1 \in 1..N /\ (d + 1) - 1 = d
        BY <1>1
      <4> QED BY <4>1
    <3> QED BY <3>1, <3>2
  <2>2. Lined(before)[n] \in P /\ size[Lined(before)[n]] = size[i]
    BY <1>9, <2>1
  <2>3. DOMAIN size = P /\ IsInjective(size)
    BY <1>4 DEF Injection
  <2>4. Lined(before)[n] = i
    BY <2>2, <2>3 DEF IsInjective
  <2> QED BY <2>4
<1>12. ASSUME NEW m \in 1..N, NEW n \in 1..N, m < n
       PROVE  Lined(before)[m] \in before[Lined(before)[n]]
  <2> DEFINE a == Lined(before)[m]
             b == Lined(before)[n]
  <2>1. a \in P /\ b \in P /\ size[a] = m - 1 /\ size[b] = n - 1
    BY <1>9
  <2> HIDE DEF size, a, b
  <2>2. a # b
    BY <1>1, <1>12, <2>1
  <2>3. b \notin before[a]
    <3>1. SUFFICES ASSUME b \in before[a]
                   PROVE  FALSE
      OBVIOUS
    <3>2. size[b] < size[a]
      BY <1>3, <2>1, <3>1
    <3> QED BY <1>1, <1>12, <2>1, <3>2
  <2>4. a \in before[b]
    BY <2>1, <2>2, <2>3 DEF IsLess
  <2> QED BY <2>4 DEF a, b
<1> QED BY <1>1, <1>10, <1>11, <1>12

\* Numbers in their own order.
LEMMA AscendingLine ==
    ASSUME NEW P \in SUBSET Int, IsFiniteSet(P)
    PROVE  LET line == Ascending(P)  c == Cardinality(P) IN
             /\ c \in Nat
             /\ line \in [1..c -> P]
             /\ \A i \in P : \E m \in 1..c : line[m] = i
             /\ \A l, m \in 1..c : l < m => line[l] < line[m]
<1>2. IsFiniteSet(P) /\ Cardinality(P) \in Nat
  BY FS_CardinalityType
<1> DEFINE before == [i \in P |-> {j \in P : j < i}]
<1>3. before \in [P -> SUBSET P]
  OBVIOUS
<1>4. \A i \in P : i \notin before[i]
  OBVIOUS
<1>5. \A i, j \in P : i = j \/ i \in before[j] \/ j \in before[i]
  OBVIOUS
<1>6. \A i, j \in P : j \in before[i] => before[j] \subseteq before[i]
  <2> TAKE i, j \in P
  <2> HAVE j \in before[i]
  <2>1. \A h \in P : h \in Int
    OBVIOUS
  <2>2. j < i /\ i \in Int /\ j \in Int
    BY <2>1
  <2>3. before[j] = {h \in P : h < j} /\ before[i] = {h \in P : h < i}
    OBVIOUS
  <2>4. \A h \in P : h < j => h < i
    BY <2>1, <2>2
  <2> HIDE DEF before
  <2> QED BY <2>3, <2>4
<1>7. \A i \in P : \A j \in before[i] : j < i
  OBVIOUS
<1>8. Ascending(P) = Lined(before)
  BY DEF Ascending
<1> HIDE DEF before
<1>9. IsLess(P, before)
  BY <1>3, <1>4, <1>5, <1>6 DEF IsLess
<1>10. LET c == Cardinality(P)  line == Lined(before) IN
         /\ line \in [1..c -> P]
         /\ \A i \in P : \E m \in 1..c : line[m] = i
         /\ \A l, m \in 1..c : l < m => line[l] \in before[line[m]]
  BY <1>2, <1>9, LinedUp
<1>11. \A l, m \in 1..Cardinality(P) : l < m => Lined(before)[l] < Lined(before)[m]
  BY <1>7, <1>10
<1> QED BY <1>2, <1>8, <1>10, <1>11

-----------------------------------------------------------------------------
(* Filters.                                                                *)

\* r reads the n places of s along those of members of T, in order.
Filters(r, s, n, T) ==
    \E c \in 0..n : \E line \in [1..c -> 1..n] :
       /\ r = [m \in 1..c |-> s[line[m]]]
       /\ \A l, m \in 1..c : l < m => line[l] < line[m]
       /\ \A m \in 1..c : s[line[m]] \in T
       /\ \A i \in 1..n : s[i] \in T => \E m \in 1..c : line[m] = i

LEMMA KeptLine ==
    ASSUME NEW n \in Nat, NEW s, DOMAIN s = 1..n, NEW T
    PROVE  Filters(Kept(s, T), s, n, T)
<1> DEFINE P == Places(s, T)
           line == Ascending(P)
           c == Cardinality(P)
<1>1. P \in SUBSET (1..n) /\ \A i \in 1..n : i \in P <=> s[i] \in T
  BY DEF Places
<1>2. Kept(s, T) = [m \in DOMAIN line |-> s[line[m]]]
  BY DEF Kept
<1>3. /\ c \in 0..n
      /\ line \in [1..c -> P]
      /\ \A i \in P : \E m \in 1..c : line[m] = i
      /\ \A l, m \in 1..c : l < m => line[l] < line[m]
  <2> HIDE DEF P, line, c
  <2>1. IsFiniteSet(1..n) /\ Cardinality(1..n) = n
    BY FS_Interval
  <2>2. IsFiniteSet(P) /\ Cardinality(P) <= n
    <3>1. P \in SUBSET (1..n)
      BY <1>1
    <3>2. IsFiniteSet(P) /\ Cardinality(P) <= Cardinality(1..n)
      BY <2>1, <3>1, FS_Subset, Zenon
    <3> QED BY <2>1, <3>2
  <2>3. P \in SUBSET Int
    BY <1>1
  <2>4. Cardinality(P) \in Nat /\ c = Cardinality(P) /\ line = Ascending(P)
    BY <2>2, FS_CardinalityType DEF c, line
  <2> QED BY <2>2, <2>3, <2>4, AscendingLine
<1> HIDE DEF P, line, c
<1>4. line \in [1..c -> 1..n]
  BY <1>1, <1>3
<1>5. Kept(s, T) = [m \in 1..c |-> s[line[m]]]
  BY <1>2, <1>4
<1>6. \A m \in 1..c : s[line[m]] \in T
  BY <1>1, <1>3
<1>7. \A i \in 1..n : s[i] \in T => \E m \in 1..c : line[m] = i
  BY <1>1, <1>3
<1> QED BY <1>3, <1>4, <1>5, <1>6, <1>7 DEF Filters

\* It keeps exactly what it names.
LEMMA KeptSeq ==
    ASSUME NEW S, NEW s \in Seq(S), NEW T
    PROVE  /\ Kept(s, T) \in Seq(S)
           /\ Len(Kept(s, T)) <= Len(s)
           /\ ToSet(Kept(s, T)) = ToSet(s) \cap T
<1> DEFINE n == Len(s)
<1>1. n \in Nat /\ DOMAIN s = 1..n /\ \A i \in 1..n : s[i] \in S
  OBVIOUS
<1>2. PICK c \in 0..n : \E line \in [1..c -> 1..n] :
             /\ Kept(s, T) = [m \in 1..c |-> s[line[m]]]
             /\ \A m \in 1..c : s[line[m]] \in T
             /\ \A i \in 1..n : s[i] \in T => \E m \in 1..c : line[m] = i
  <2> HIDE DEF n
  <2>1. n \in Nat /\ DOMAIN s = 1..n
    BY <1>1
  <2>2. Filters(Kept(s, T), s, n, T)
    BY <2>1, KeptLine
  <2> QED BY <2>2 DEF Filters
<1>3. PICK line \in [1..c -> 1..n] :
             /\ Kept(s, T) = [m \in 1..c |-> s[line[m]]]
             /\ \A m \in 1..c : s[line[m]] \in T
             /\ \A i \in 1..n : s[i] \in T => \E m \in 1..c : line[m] = i
  BY <1>2
<1> DEFINE r == Kept(s, T)
<1>4. /\ c \in Nat /\ DOMAIN r = 1..c
      /\ \A m \in 1..c : r[m] = s[line[m]] /\ line[m] \in 1..n
  BY <1>3
<1> HIDE DEF r, n
<1>5. r \in [1..c -> S]
  <2>1. r = [m \in 1..c |-> r[m]]
    BY <1>3 DEF r
  <2>2. \A m \in 1..c : r[m] \in S
    BY <1>1, <1>4
  <2> QED BY <2>1, <2>2
<1>6. r \in Seq(S) /\ Len(r) = c
  BY <1>4, <1>5
<1>7. ToSet(r) = {r[m] : m \in 1..c} /\ ToSet(s) = {s[i] : i \in 1..n}
  BY <1>1, <1>4 DEF ToSet
<1>8. ToSet(r) \subseteq ToSet(s) \cap T
  BY <1>3, <1>4, <1>7
<1>9. ToSet(s) \cap T \subseteq ToSet(r)
  BY <1>3, <1>4, <1>7
<1> QED BY <1>2, <1>6, <1>8, <1>9 DEF r, n

-----------------------------------------------------------------------------
(* Orders.                                                                 *)

\* A stable sort reads the list along all its places, each once, and no key
\* is below a later one.
LEMMA SortedSeq ==
    ASSUME NEW S, NEW s \in Seq(S), NEW key, \A x \in S : key[x] \in Int
    PROVE  LET r == SortDesc(s, key) IN
             /\ r \in Seq(S) /\ Len(r) = Len(s) /\ ToSet(r) = ToSet(s)
             /\ \A l, m \in 1..Len(r) : l < m => key[r[l]] >= key[r[m]]
<1> DEFINE n == Len(s)
           Above(j, i) == key[s[j]] > key[s[i]] \/ (key[s[j]] = key[s[i]] /\ j < i)
           before == [i \in 1..n |-> {j \in 1..n : Above(j, i)}]
           line == Lined(before)
           r == SortDesc(s, key)
<1>1. n \in Nat /\ DOMAIN s = 1..n /\ \A i \in 1..n : s[i] \in S /\ key[s[i]] \in Int
  OBVIOUS
<1>2. r = [m \in DOMAIN line |-> s[line[m]]]
  BY <1>1 DEF SortDesc
<1> HIDE DEF n, r
<1>3. \A i, j \in 1..n : j \in before[i] <=> Above(j, i)
  OBVIOUS
<1>4. before \in [1..n -> SUBSET (1..n)]
  OBVIOUS
<1>5. /\ \A i \in 1..n : ~Above(i, i)
      /\ \A i, j \in 1..n : i = j \/ Above(i, j) \/ Above(j, i)
      /\ \A h, i, j \in 1..n : Above(h, j) /\ Above(j, i) => Above(h, i)
      /\ \A i, j \in 1..n : Above(j, i) => key[s[j]] >= key[s[i]]
  BY <1>1
<1> HIDE DEF before, line, Above
<1>6. IsLess(1..n, before)
  BY <1>3, <1>4, <1>5 DEF IsLess
<1>7. IsFiniteSet(1..n) /\ Cardinality(1..n) = n
  BY <1>1, FS_Interval
<1>8. /\ line \in [1..n -> 1..n]
      /\ \A i \in 1..n : \E m \in 1..n : line[m] = i
      /\ \A l, m \in 1..n : l < m => line[l] \in before[line[m]]
  BY <1>6, <1>7, LinedUp DEF line
<1>9. DOMAIN r = 1..n /\ \A m \in 1..n : r[m] = s[line[m]] /\ line[m] \in 1..n /\ r[m] \in S
  BY <1>1, <1>2, <1>8
<1>10. r \in [1..n -> S]
  BY <1>2, <1>8, <1>9
<1>11. r \in Seq(S) /\ Len(r) = n
  BY <1>1, <1>10
<1>12. ToSet(r) = {r[m] : m \in 1..n} /\ ToSet(s) = {s[i] : i \in 1..n}
  BY <1>1, <1>9 DEF ToSet
<1>13. ToSet(r) = ToSet(s)
  <2>1. ToSet(r) \subseteq ToSet(s)
    BY <1>9, <1>12
  <2>2. ASSUME NEW i \in 1..n
        PROVE  s[i] \in ToSet(r)
    <3>1. PICK m \in 1..n : line[m] = i
      BY <1>8
    <3> QED BY <1>9, <1>12, <3>1
  <2> QED BY <1>12, <2>1, <2>2
<1>14. \A l, m \in 1..n : l < m => key[r[l]] >= key[r[m]]
  <2> TAKE l, m \in 1..n
  <2> HAVE l < m
  <2>1. Above(line[l], line[m])
    BY <1>3, <1>8, <1>9
  <2> QED BY <1>5, <1>9, <2>1
<1> QED BY <1>11, <1>13, <1>14 DEF n, r
=============================================================================
