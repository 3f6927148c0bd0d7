------------------------- MODULE StudioTools_proofs --------------------------
(***************************************************************************)
(* Proofs about StudioTools: for any calls on any chain, what was traded   *)
(* was traded at the price shown, no call runs into its own transactions,  *)
(* the claim jobs report what happened, everyone on a whitelist is let in, *)
(* and a lock locks what it counted.                                       *)
(***************************************************************************)
EXTENDS StudioTools, ListFacts, FiniteSetTheorems, TLAPS

(***************************************************************************)
(* The inductive invariant.                                                *)
(***************************************************************************)

IsOf(f) == f = [j \in Call |-> f[j]]
IsQueue(s) == s \in Seq({s[i] : i \in DOMAIN s})

Shape ==
    /\ IsOf(seen) /\ IsOf(todo) /\ IsOf(job)
    /\ \A k \in Call : /\ job[k].cmd \in Commands /\ job[k].pool \in Pools
                       /\ IsQueue(job[k].list) /\ job[k].alloc \in Seq(Nat)

\* Files are numbered.
FilesOK ==
    /\ \A f \in facts : f[1] = "file" => f[3] \in Nat
    /\ \A k \in Call : \A f \in seen[k] : f[1] = "file" => f[3] \in Nat

Claims(k) == job[k].cmd \in ClaimCommands
PriceSeen(k) == \E q \in Price : <<"price", q>> \in seen[k]

\* The pool of position commands has one price.
PriceOK ==
    /\ \A f \in facts : f[1] = "price" => f \in Prices
    /\ \A f, g \in facts : (f[1] = "price" /\ g[1] = "price") => f = g
    /\ (\E k \in Call : job[k].cmd \in PositionCommands) => \E q \in Price : <<"price", q>> \in facts

\* Where a call is says what it does and knows.
PlaceOK(k) ==
    /\ at[k] \in {"idle", "position"} => todo[k] = <<>>
    /\ at[k] = "position" => job[k].cmd \in PositionCommands
    /\ at[k] \in PositionPlaces \cup {"quoted"} => PriceSeen(k)
    /\ todo[k] = <<>> => stage[k] = "ready"
    /\ ~Claims(k) => at[k] \notin ClaimPlaces /\ rescue[k] = Uncaught

\* What no transaction of the studio takes away; what none writes; a root and
\* what it was made from are written together.
Lasting == {"paid", "curve", "root", "rootOf", "escrow", "lpLock"}
Local == {"file", "proof"}
Mild(k, x) ==
    /\ \A f \in x.makes : f[1] \notin {"price", "traded"} \cup Local
    /\ (\E f \in x.makes : f[1] \in {"root", "rootOf"}) =>
           \E i \in Nat : x.makes = {theRoot(k, i), <<"rootOf", PoolOf(k), i, Part(job[k].list, ChunkSize, i)>>}
    /\ \A f \in x.drops : f[1] \notin {"price"} \cup Local \cup Lasting

\* What no program does to the price, and what a call sends only with a price
\* it has seen.
Sound(k, x) ==
    /\ x.by = k /\ Mild(k, x)
    /\ x.op \in Trades => \E q \in Price : <<"price", q>> \in x.needs /\ <<"price", q>> \in seen[k]
    /\ Claims(k) => /\ \A f \in x.makes : f[1] \in {"paid", "owed", "received"}
                    /\ \A f \in x.needs : f[1] \in {"curve", "left"}

QueueOK(k) == IsQueue(todo[k]) /\ \A i \in DOMAIN todo[k] : \A x \in todo[k][i] : Sound(k, x)
PendingOK == \A x \in pending : x.by \in Call /\ at[x.by] \notin {"idle", "position"} /\ Sound(x.by, x)
TradedOK == \A f \in facts : f[1] = "traded" =>
                /\ f[2] \in Call /\ at[f[2]] \notin {"idle", "position"}
                /\ <<"price", f[3]>> \in seen[f[2]] /\ f[3] \in Price

\* An outcome is heard by the call that awaits it, once.
FateOK == \A z \in fate :
    /\ z[2] \in Outcome /\ z[1].by \in Call
    /\ Awaited(z[1]) /\ z[1] \notin pending
    /\ z[2] = "ok" => \A f \in z[1].makes : f[1] \in Lasting => f \in facts

\* Unless it claims, a call goes on only when nothing of its own is on its way.
OrderOK(k) ==
    ~Claims(k) => \A y \in pending : y.by = k =>
        \/ at[k] \in {"returned", "stopped"} /\ todo[k] = <<>>
        \/ Waiting(k) /\ y \in Batch(k)

-----------------------------------------------------------------------------
(* The claim jobs.                                                         *)

Busy == {"claimed", "libFailed", "sdkExpired", "sdkFailed", "tryEntry"}
Named(k) == {m \in Mints(k) : <<"current", m>> \in seen[k]}

\* One mint at a time, one verdict for each.
LoopOK(k) ==
    /\ at[k] \in ClaimPlaces \cup {"idle", "returned", "stopped"}
    /\ rescue[k] \in [Failures -> Busy \cup {"stopped"}]
    /\ at[k] # "claimed" => todo[k] = <<>>
    /\ at[k] \in {"idle", "claims"} => seen[k] = {}
    /\ \A m \in Mints(k) : \A v, w \in Verdicts(k, m) : v = w
    /\ at[k] = "claimNext" => Named(k) = {}
    /\ at[k] \in Busy => \E m \in Left(k) : Named(k) = {m}
    /\ at[k] = "returned" => Left(k) = {} /\ ~ExitsWithError(k)

\* A claim of fees is accepted whenever its pool is there.
Claim(k, x) ==
    /\ x.without = {} /\ x.takes = <<0, 0>>
    /\ \A f \in x.needs : f[1] = "curve" /\ f \in facts
    /\ \A m \in Named(k) : <<"paid", m, k>> \in x.makes

PaidOK(k) ==
    job[k].cmd # "claimLeftovers" /\ ~job[k].dry =>
        /\ \A m \in Mints(k) : "claimed" \in Verdicts(k, m) => <<"paid", m, k>> \in facts
        /\ \A f \in Failures : rescue[k][f] # "tryEntry" /\ (rescue[k][f] = "claimed" => f = "failed")
        /\ at[k] # "tryEntry"
        /\ at[k] \in Busy => \A m \in Named(k) : <<"curve", m>> \in facts
        /\ at[k] = "claimed" /\ todo[k] = <<>> => \A m \in Named(k) : <<"paid", m, k>> \in facts
        /\ todo[k] # <<>> => \E x \in Batch(k) : todo[k] = <<{x}>> /\ Claim(k, x)
        /\ \A z \in fate : z[1].by = k => z[2] # "failed"

ClaimOK(k) == Claims(k) => LoopOK(k) /\ PaidOK(k)

StudioInv ==
    /\ TypeOK /\ Shape /\ FilesOK /\ PriceOK /\ PendingOK /\ TradedOK /\ FateOK
    /\ \A k \in Call : PlaceOK(k) /\ QueueOK(k) /\ OrderOK(k) /\ ClaimOK(k)

(***************************************************************************)
(* Sequences of sets of transactions.                                      *)
(***************************************************************************)

LEMMA QueueEmpty == IsQueue(<<>>) /\ DOMAIN <<>> = {}
BY DEF IsQueue

LEMMA QueueOne ==
    ASSUME NEW b
    PROVE  /\ IsQueue(<<b>>) /\ DOMAIN <<b>> = {1} /\ <<b>>[1] = b
           /\ <<b>> # <<>> /\ Len(<<b>>) = 1
<1>1. Len(<<b>>) = 1 /\ <<b>>[1] = b
  OBVIOUS
<1>2. DOMAIN <<b>> = {1}
  OBVIOUS
<1>3. <<b>> \in Seq({b})
  OBVIOUS
<1>4. {<<b>>[i] : i \in DOMAIN <<b>>} = {b}
  BY <1>1, <1>2
<1>5. <<b>> # <<>>
  OBVIOUS
<1> QED BY <1>1, <1>2, <1>3, <1>4, <1>5 DEF IsQueue

LEMMA QueueOf ==
    ASSUME NEW n \in Nat, NEW f, f = [i \in 1..n |-> f[i]]
    PROVE  IsQueue(f) /\ DOMAIN f = 1..n
<1>1. DOMAIN f = 1..n
  OBVIOUS
<1>2. f \in [1..n -> {f[i] : i \in DOMAIN f}]
  BY <1>1
<1> QED BY <1>1, <1>2 DEF IsQueue

LEMMA QueueTail ==
    ASSUME NEW s, IsQueue(s), s # <<>>
    PROVE  /\ IsQueue(Tail(s))
           /\ 1 \in DOMAIN s
           /\ \A i \in DOMAIN Tail(s) : i + 1 \in DOMAIN s /\ Tail(s)[i] = s[i + 1]
           /\ Len(s) = 1 => Tail(s) = <<>>
<1> DEFINE S == {s[i] : i \in DOMAIN s}
<1>1. s \in Seq(S)
  BY DEF IsQueue
<1> HIDE DEF S
<1>2. /\ Tail(s) \in Seq(S) /\ Len(s) \in Nat /\ Len(s) # 0
      /\ DOMAIN s = 1..Len(s)
      /\ Len(Tail(s)) = Len(s) - 1
      /\ DOMAIN Tail(s) = 1..(Len(s) - 1)
      /\ \A i \in 1..(Len(s) - 1) : Tail(s)[i] = s[i + 1]
  BY <1>1
<1>3. IsQueue(Tail(s))
  <2> DEFINE u == Tail(s)
  <2>1. u \in Seq(S)
    BY <1>2
  <2> HIDE DEF u
  <2>2. u \in Seq({u[i] : i \in DOMAIN u})
    BY <2>1
  <2> QED BY <2>2 DEF u, IsQueue
<1>4. \A i \in 1..(Len(s) - 1) : i + 1 \in 1..Len(s)
  BY <1>2
<1>5. 1 \in DOMAIN s
  BY <1>2
<1>6. Len(s) = 1 => Tail(s) = <<>>
  BY <1>2
<1> QED BY <1>2, <1>3, <1>4, <1>5, <1>6

Joins(r, s, t) == r = s \o t

LEMMA QueueAfter ==
    ASSUME NEW s, IsQueue(s), NEW t, IsQueue(t), NEW r, Joins(r, s, t)
    PROVE  /\ IsQueue(r)
           /\ \A i \in DOMAIN r : (\E j \in DOMAIN s : r[i] = s[j]) \/ (\E j \in DOMAIN t : r[i] = t[j])
<1> DEFINE S == {s[i] : i \in DOMAIN s}
           T == {t[i] : i \in DOMAIN t}
<1>0. r = s \o t
  BY DEF Joins
<1>1. s \in Seq(S) /\ t \in Seq(T)
  BY DEF IsQueue
<1>2. s \in Seq(S \cup T) /\ t \in Seq(S \cup T)
  BY <1>1
<1> HIDE DEF S, T
<1>3. /\ (s \o t) \in Seq(S \cup T) /\ Len(s) \in Nat /\ Len(t) \in Nat
      /\ DOMAIN s = 1..Len(s) /\ DOMAIN t = 1..Len(t)
      /\ Len(s \o t) = Len(s) + Len(t)
      /\ DOMAIN (s \o t) = 1..(Len(s) + Len(t))
      /\ \A i \in 1..(Len(s) + Len(t)) : (s \o t)[i] = IF i <= Len(s) THEN s[i] ELSE t[i - Len(s)]
  BY <1>2
<1>4. ASSUME NEW i \in DOMAIN (s \o t)
      PROVE  (\E j \in DOMAIN s : (s \o t)[i] = s[j]) \/ (\E j \in DOMAIN t : (s \o t)[i] = t[j])
  <2>1. CASE i <= Len(s)
    BY <1>3, <2>1
  <2>2. CASE ~(i <= Len(s))
    <3>1. i - Len(s) \in DOMAIN t /\ (s \o t)[i] = t[i - Len(s)]
      BY <1>3, <2>2
    <3> QED BY <3>1
  <2> QED BY <2>1, <2>2
<1>5. IsQueue(s \o t)
  <2> DEFINE u == s \o t
  <2>1. u \in Seq(S \cup T)
    BY <1>3
  <2> HIDE DEF u
  <2>2. u \in Seq({u[i] : i \in DOMAIN u})
    BY <2>1
  <2> QED BY <2>2 DEF u, IsQueue
<1> QED BY <1>0, <1>4, <1>5

(***************************************************************************)
(* What a call of others leaves alone.                                     *)
(***************************************************************************)

Watched == {"price", "traded"} \cup Lasting
SameWorld == \A f \in facts \cup facts' : f[1] \in Watched => (f \in facts <=> f \in facts')

\* Call j stays where it is and as it is.
Rests(j) ==
    /\ job' = job /\ at'[j] = at[j] /\ todo'[j] = todo[j] /\ stage'[j] = stage[j]
    /\ rescue'[j] = rescue[j] /\ seen'[j] = seen[j]
PricesKept(j) == \A q \in Price : <<"price", q>> \in seen[j] => <<"price", q>> \in seen'[j]

LEMMA SoundKept ==
    ASSUME NEW j, NEW x, Sound(j, x), job' = job, PricesKept(j)
    PROVE  Sound(j, x)'
<1>1. Mild(j, x)' <=> Mild(j, x)
  BY DEF Mild, theRoot, PoolOf
<1> QED BY <1>1 DEF Sound, PricesKept, Claims

LEMMA RestsPlace ==
    ASSUME NEW j, Rests(j), PlaceOK(j), QueueOK(j)
    PROVE  PlaceOK(j)' /\ QueueOK(j)'
<1>1. PlaceOK(j)'
  BY DEF Rests, PlaceOK, Claims, PriceSeen
<1>2. \A x : Sound(j, x) => Sound(j, x)'
  BY SoundKept DEF Rests, PricesKept
<1> QED BY <1>1, <1>2 DEF Rests, QueueOK

LEMMA RestsLoop ==
    ASSUME NEW j, Rests(j), LoopOK(j)
    PROVE  LoopOK(j)'
<1>1. Mints(j)' = Mints(j) /\ Left(j)' = Left(j) /\ Named(j)' = Named(j)
  BY DEF Rests, Mints, Left, Named, Verdicts
<1>2. ExitsWithError(j)' <=> ExitsWithError(j)
  BY <1>1 DEF ExitsWithError, AnyFailed, NoneClaimed, Rests, Verdicts
<1>3. \A m : Verdicts(j, m)' = Verdicts(j, m)
  BY DEF Verdicts, Rests
<1> QED BY <1>1, <1>2, <1>3 DEF LoopOK, Rests

LEMMA RestsPaid ==
    ASSUME NEW j, Rests(j), PaidOK(j),
           \A f \in facts : f[1] \in {"paid", "curve"} => f \in facts',
           job[j].cmd # "claimLeftovers" /\ ~job[j].dry =>
               \A z \in fate' : z[1].by = j => z \in fate \/ z[2] # "failed"
    PROVE  PaidOK(j)'
<1>1. Mints(j)' = Mints(j) /\ Named(j)' = Named(j) /\ (\A m : Verdicts(j, m)' = Verdicts(j, m))
  BY DEF Rests, Mints, Named, Verdicts
<1>2. ASSUME NEW x, Claim(j, x)
      PROVE  Claim(j, x)'
  BY <1>1, <1>2 DEF Claim
<1>3. Batch(j)' = Batch(j)
  BY DEF Batch, Rests
<1>4. ASSUME NEW m
      PROVE  <<"paid", m, j>> \in facts => <<"paid", m, j>> \in facts'
  <2>1. <<"paid", m, j>>[1] = "paid"
    OBVIOUS
  <2> QED BY <2>1
<1>5. ASSUME NEW m
      PROVE  <<"curve", m>> \in facts => <<"curve", m>> \in facts'
  <2>1. <<"curve", m>>[1] = "curve"
    OBVIOUS
  <2> QED BY <2>1
<1> QED BY <1>1, <1>2, <1>3, <1>4, <1>5 DEF PaidOK, Rests

LEMMA RestsClaim ==
    ASSUME NEW j, Rests(j), ClaimOK(j),
           \A f \in facts : f[1] \in {"paid", "curve"} => f \in facts',
           Claims(j) /\ job[j].cmd # "claimLeftovers" /\ ~job[j].dry =>
               \A z \in fate' : z[1].by = j => z \in fate \/ z[2] # "failed"
    PROVE  ClaimOK(j)'
<1>1. Claims(j)' <=> Claims(j)
  BY DEF Claims, Rests
<1> QED BY <1>1, RestsLoop, RestsPaid DEF ClaimOK

(***************************************************************************)
(* A command goes on.                                                      *)
(***************************************************************************)

FilesNumbered == \A f \in facts' : f[1] = "file" => f \in facts \/ f[3] \in Nat
Knows(k) ==
    /\ IsOf(seen') /\ \A j \in Call \ {k} : seen'[j] = seen[j]
    /\ \A f \in seen'[k] : f[1] = "file" => f \in seen[k] \cup facts

\* What every step of a command does: only its own variables change, and of
\* the facts none that another call relies on.
Goes(k) ==
    /\ todo[k] = <<>> /\ at[k] \notin {"returned", "stopped"}
    /\ UNCHANGED <<stage, pending, fate, job>> /\ SameWorld
    /\ \A j \in Call \ {k} : Rests(j)
    /\ at' \in [Call -> Place] /\ rescue' \in [Call -> [Failures -> Place]]
    /\ round' \in [Call -> Nat] /\ Knows(k) /\ IsOf(todo')
    /\ FilesNumbered
    /\ at'[k] # "idle" /\ (at'[k] = "position" => at[k] = "idle")
    /\ at[k] \notin {"idle", "position"} => PricesKept(k)
    /\ PlaceOK(k)' /\ QueueOK(k)' /\ ClaimOK(k)'

LEMMA GoesOn ==
    ASSUME StudioInv, NEW k \in Call, Goes(k)
    PROVE  StudioInv'
<1>1. TypeOK' /\ Shape'
  <2>1. ASSUME NEW j \in Call, NEW i \in DOMAIN todo'[j], NEW x \in todo'[j][i]
        PROVE  x.by = j
    BY <2>1 DEF Goes, StudioInv, Rests, QueueOK, Sound
  <2> QED BY <2>1 DEF StudioInv, TypeOK, Shape, Goes, Knows
<1>8. FilesOK'
  BY DEF StudioInv, FilesOK, Goes, Knows, FilesNumbered
<1>2. PriceOK'
  <2>1. \A f : f[1] = "price" => (f \in facts <=> f \in facts')
    BY DEF Goes, SameWorld, Watched
  <2>2. \A q \in Price : <<"price", q>> \in facts <=> <<"price", q>> \in facts'
    BY <2>1
  <2> QED BY <2>1, <2>2 DEF StudioInv, PriceOK, Goes
<1>3. ASSUME NEW j \in Call, at[j] \notin {"idle", "position"}
      PROVE  at'[j] \notin {"idle", "position"} /\ PricesKept(j)
  BY <1>3 DEF Goes, Rests, PricesKept
<1>4. PendingOK'
  <2>1. ASSUME NEW x \in pending
        PROVE  x.by \in Call /\ at'[x.by] \notin {"idle", "position"} /\ Sound(x.by, x)'
    <3>1. x.by \in Call /\ at[x.by] \notin {"idle", "position"} /\ Sound(x.by, x)
      BY DEF StudioInv, PendingOK
    <3> QED BY <1>3, <3>1, SoundKept DEF Goes
  <2> QED BY <2>1 DEF PendingOK, Goes
<1>5. TradedOK'
  <2>1. ASSUME NEW f \in facts', f[1] = "traded"
        PROVE  /\ f[2] \in Call /\ at'[f[2]] \notin {"idle", "position"}
               /\ <<"price", f[3]>> \in seen'[f[2]] /\ f[3] \in Price
    <3>1. f \in facts
      BY <2>1 DEF Goes, SameWorld, Watched
    <3>2. /\ f[2] \in Call /\ at[f[2]] \notin {"idle", "position"}
          /\ <<"price", f[3]>> \in seen[f[2]] /\ f[3] \in Price
      BY <2>1, <3>1 DEF StudioInv, TradedOK
    <3> QED BY <1>3, <3>2 DEF PricesKept
  <2> QED BY <2>1 DEF TradedOK
<1>6. FateOK'
  <2>1. ASSUME NEW z \in fate
        PROVE  /\ z[2] \in Outcome /\ z[1].by \in Call
               /\ Awaited(z[1])' /\ z[1] \notin pending
               /\ z[2] = "ok" => \A f \in z[1].makes : f[1] \in Lasting => f \in facts'
    <3>1. /\ z[2] \in Outcome /\ z[1].by \in Call
          /\ Awaited(z[1]) /\ z[1] \notin pending
          /\ z[2] = "ok" => \A f \in z[1].makes : f[1] \in Lasting => f \in facts
      BY DEF StudioInv, FateOK
    <3>2. z[1].by # k
      BY <3>1 DEF Awaited, Waiting, Goes
    <3>3. Awaited(z[1])'
      BY <3>1, <3>2 DEF Awaited, Waiting, Batch, Goes, Rests
    <3>4. \A f \in facts : f[1] \in Lasting => f \in facts'
      BY DEF Goes, SameWorld, Watched
    <3> QED BY <3>1, <3>3, <3>4
  <2> QED BY <2>1 DEF FateOK, Goes
<1>7. ASSUME NEW j \in Call
      PROVE  PlaceOK(j)' /\ QueueOK(j)' /\ ClaimOK(j)' /\ OrderOK(j)'
  <2>1. CASE j = k
    <3>1. OrderOK(k)'
      BY DEF StudioInv, OrderOK, Goes, Waiting, Claims
    <3> QED BY <2>1, <3>1 DEF Goes
  <2>2. CASE j # k
    <3>1. Rests(j)
      BY <2>2 DEF Goes
    <3>2. PlaceOK(j) /\ QueueOK(j) /\ ClaimOK(j) /\ OrderOK(j)
      BY DEF StudioInv
    <3>3. OrderOK(j)'
      BY <3>1, <3>2 DEF OrderOK, Waiting, Batch, Goes, Rests, Claims
    <3>4. \A f \in facts : f[1] \in {"paid", "curve"} => f \in facts'
      BY DEF Goes, SameWorld, Watched, Lasting
    <3>5. ClaimOK(j)'
      BY <3>1, <3>2, <3>4, RestsClaim DEF Goes
    <3> QED BY <3>1, <3>2, <3>3, <3>5, RestsPlace
  <2> QED BY <2>1, <2>2
<1> QED BY <1>1, <1>2, <1>4, <1>5, <1>6, <1>7, <1>8 DEF StudioInv

LEMMA Learns ==
    ASSUME StudioInv, NEW k \in Call, NEW s
    PROVE  /\ Nothing => Knows(k) /\ PricesKept(k) /\ seen'[k] = seen[k]
           /\ Keep(k, s) /\ (\A f \in s : f[1] = "file" => f \in facts) =>
                 Knows(k) /\ PricesKept(k) /\ seen'[k] = seen[k] \cup s
           /\ Read(k, s) => Knows(k) /\ seen'[k] = (seen[k] \ s) \cup (s \cap facts)
           /\ (Read(k, s) /\ \A f \in s : f[1] # "price") => PricesKept(k)
<1>1. IsOf(seen)
  BY DEF StudioInv, Shape
<1>2. Nothing => Knows(k) /\ PricesKept(k) /\ seen'[k] = seen[k]
  BY <1>1 DEF Nothing, Knows, PricesKept, IsOf
<1>3. ASSUME Keep(k, s), \A f \in s : f[1] = "file" => f \in facts
      PROVE  Knows(k) /\ seen'[k] = seen[k] \cup s
  BY <1>1, <1>3 DEF Keep, Knows, IsOf
<1>4. ASSUME Read(k, s)
      PROVE  Knows(k) /\ seen'[k] = (seen[k] \ s) \cup (s \cap facts)
  BY <1>1, <1>4 DEF Read, Knows, IsOf
<1>5. ASSUME Read(k, s), \A f \in s : f[1] # "price"
      PROVE  PricesKept(k)
  <2>1. \A q \in Price : <<"price", q>> \notin s
    BY <1>5
  <2> QED BY <1>4, <1>5, <2>1 DEF PricesKept
<1> QED BY <1>2, <1>3, <1>4, <1>5 DEF PricesKept

\* A step of a command that is not a claim job.
LEMMA Tries ==
    ASSUME StudioInv, NEW k \in Call, NEW b, NEW p,
           todo[k] = <<>>, at[k] \notin ClaimPlaces \cup {"idle", "returned", "stopped"},
           Try(k, b, p, Uncaught), SameWorld, round' \in [Call -> Nat], FilesNumbered,
           Knows(k), at[k] # "position" => PricesKept(k),
           p \in Place \ (ClaimPlaces \cup {"idle", "position"}),
           p \in PositionPlaces \cup {"quoted"} => PriceSeen(k)',
           IsQueue(b), \A i \in DOMAIN b : \A x \in b[i] : Sound(k, x)'
    PROVE  Goes(k)
<1>1. ~Claims(k)
  BY DEF StudioInv, ClaimOK, LoopOK
<1>2. ~Claims(k)'
  BY <1>1 DEF Claims, Try
<1>3. /\ at \in [Call -> Place] /\ IsOf(todo) /\ rescue \in [Call -> [Failures -> Place]]
      /\ stage[k] = "ready"
  BY DEF StudioInv, TypeOK, Shape, PlaceOK
<1>4. Uncaught \in [Failures -> Place]
  BY DEF Uncaught, CaughtAs, Place
<1>5. /\ at' \in [Call -> Place] /\ at'[k] = p /\ \A j \in Call \ {k} : at'[j] = at[j]
      /\ rescue' \in [Call -> [Failures -> Place]] /\ rescue'[k] = Uncaught
      /\ \A j \in Call \ {k} : rescue'[j] = rescue[j]
  BY <1>3, <1>4 DEF Try
<1>6. IsOf(todo') /\ todo'[k] = b /\ \A j \in Call \ {k} : todo'[j] = todo[j]
  BY <1>3 DEF Try, IsOf
<1>7. QueueOK(k)'
  BY <1>6 DEF QueueOK
<1>8. PlaceOK(k)'
  BY <1>2, <1>3, <1>5 DEF PlaceOK, Try
<1>9. ClaimOK(k)'
  BY <1>2 DEF ClaimOK
<1>10. \A j \in Call \ {k} : Rests(j)
  BY <1>5, <1>6 DEF Rests, Try, Knows
<1> QED BY <1>5, <1>6, <1>7, <1>8, <1>9, <1>10 DEF Goes, Try, Knows

LEMMA Sends ==
    ASSUME StudioInv, NEW k \in Call, NEW b, NEW p,
           todo[k] = <<>>, at[k] \notin ClaimPlaces \cup {"idle", "returned", "stopped"},
           Send(k, b, p),
           Knows(k), at[k] # "position" => PricesKept(k),
           p \in Place \ (ClaimPlaces \cup {"idle", "position"}),
           p \in PositionPlaces \cup {"quoted"} => PriceSeen(k)',
           IsQueue(b), \A i \in DOMAIN b : \A x \in b[i] : Sound(k, x)'
    PROVE  Goes(k)
<1>1. SameWorld /\ FilesNumbered /\ round' \in [Call -> Nat]
  BY DEF Send, SameWorld, FilesNumbered, StudioInv, TypeOK
<1> QED BY <1>1, Tries DEF Send

LEMMA SendsOne ==
    ASSUME StudioInv, NEW k \in Call, NEW b, NEW p,
           todo[k] = <<>>, at[k] \notin ClaimPlaces \cup {"idle", "returned", "stopped"},
           Send(k, <<b>>, p),
           Knows(k), at[k] # "position" => PricesKept(k),
           p \in Place \ (ClaimPlaces \cup {"idle", "position"}),
           p \in PositionPlaces \cup {"quoted"} => PriceSeen(k)',
           \A x \in b : Sound(k, x)'
    PROVE  Goes(k)
<1>1. \A i \in DOMAIN <<b>> : \A x \in <<b>>[i] : Sound(k, x)'
  BY QueueOne
<1> HIDE DEF PriceSeen
<1> QED BY <1>1, QueueOne, Sends

LEMMA GoesTo ==
    ASSUME StudioInv, NEW k \in Call, NEW p,
           todo[k] = <<>>, at[k] \notin ClaimPlaces \cup {"idle", "returned", "stopped"},
           Goto(k, p),
           Knows(k), at[k] # "position" => PricesKept(k),
           p \in Place \ (ClaimPlaces \cup {"idle", "position"}),
           p \in PositionPlaces \cup {"quoted"} => PriceSeen(k)'
    PROVE  Goes(k)
<1>1. Send(k, <<>>, p)
  BY DEF Goto
<1>2. \A i \in DOMAIN <<>> : \A x \in <<>>[i] : Sound(k, x)'
  OBVIOUS
<1> QED BY <1>1, <1>2, QueueEmpty, Sends

\* What a call other than a claim job may send.
LEMMA SoundTx ==
    ASSUME StudioInv, NEW k \in Call, NEW x,
           at[k] \notin ClaimPlaces \cup {"idle", "returned", "stopped"}, job' = job,
           x.by = k, x.op \notin Trades,
           Mild(k, x)
    PROVE  Sound(k, x)'
<1>1. ~Claims(k)
  BY DEF StudioInv, ClaimOK, LoopOK
<1>2. Mild(k, x)'
  BY DEF Mild, theRoot, PoolOf
<1> QED BY <1>1, <1>2 DEF Sound, Claims

(***************************************************************************)
(* The position commands.                                                  *)
(***************************************************************************)

LEMMA PriceStays ==
    ASSUME NEW k \in Call, PriceSeen(k), PricesKept(k) PROVE PriceSeen(k)'
BY DEF PriceSeen, PricesKept

\* A deposit and a withdrawal need the price that was seen.
LEMMA QuotedTx ==
    ASSUME StudioInv, NEW k \in Call, NEW x,
           at[k] \in PositionPlaces \cup {"quoted"}, job' = job, PricesKept(k),
           x.by = k, <<"price", Shown(k)>> \in x.needs,
           Mild(k, x)
    PROVE  Sound(k, x)'
<1>1. ~Claims(k)
  BY DEF StudioInv, ClaimOK, LoopOK, PositionPlaces, ClaimPlaces
<1>2. \E q \in Price : <<"price", q>> \in seen[k]
  BY DEF StudioInv, PlaceOK, PriceSeen
<1>3. Shown(k) \in Price /\ <<"price", Shown(k)>> \in seen[k]
  BY <1>2 DEF Shown
<1>4. <<"price", Shown(k)>> \in seen'[k]
  BY <1>3 DEF PricesKept
<1>5. Mild(k, x)'
  BY DEF Mild, theRoot, PoolOf
<1> QED BY <1>1, <1>3, <1>4, <1>5 DEF Sound, Claims

\* The transactions of the position commands.
Quoted(k, p) == {AddTx(k, p), RemoveTx(k, p)}
Others(k, p) == {createPosition(k), SplitTx(k, p), ClaimTx(k, p), CloseTx(k, p)}

LEMMA LearnsButFee ==
    ASSUME StudioInv, NEW k \in Call, NEW p, ReadButFee(k, p)
    PROVE  /\ Knows(k) /\ PricesKept(k)
           /\ seen'[k] = (seen[k] \ State(p)) \cup ((State(p) \ {<<"fee", p>>}) \cap facts)
<1>1. IsOf(seen)
  BY DEF StudioInv, Shape
<1>2. /\ Knows(k)
      /\ seen'[k] = (seen[k] \ State(p)) \cup ((State(p) \ {<<"fee", p>>}) \cap facts)
  BY <1>1 DEF ReadButFee, Knows, IsOf
<1>3. \A q \in Price : <<"price", q>> \notin State(p)
  BY DEF State, Liquidity
<1> QED BY <1>2, <1>3 DEF PricesKept

LEMMA QuotedTxs ==
    ASSUME NEW k, NEW p, NEW x, x \in Quoted(k, p)
    PROVE  /\ x.by = k /\ <<"price", Shown(k)>> \in x.needs
           /\ x.makes \subseteq {<<"free", p, k>>}
           /\ x.drops \subseteq Free(p, seen[k]) \cup Vested(p, seen[k])
<1>1. CASE x = AddTx(k, p)
  BY <1>1 DEF AddTx, AtQuote, OnOpen, Bare
<1>2. CASE x = RemoveTx(k, p)
  BY <1>2 DEF RemoveTx, AtQuote, OnOpen, Bare
<1> QED BY <1>1, <1>2 DEF Quoted

LEMMA OtherTxs ==
    ASSUME NEW k, NEW p, NEW x, x \in Others(k, p)
    PROVE  /\ x.by = k /\ x.op \in {"createPosition", "splitPosition", "claimPositionFee", "closePosition"}
           /\ \A f \in x.makes : f[1] \in {"open", "owner", "split"}
           /\ \A f \in x.drops : f[1] \in {"fee", "open"}
<1>1. CASE x = createPosition(k)
  BY <1>1 DEF createPosition, Creates, Bare
<1>2. CASE x = SplitTx(k, p)
  BY <1>2 DEF SplitTx, OnOpen, Bare
<1>3. CASE x = ClaimTx(k, p)
  BY <1>3 DEF ClaimTx, OnOpen, Bare
<1>4. CASE x = CloseTx(k, p)
  BY <1>4 DEF CloseTx, OnOpen, Bare
<1> QED BY <1>1, <1>2, <1>3, <1>4 DEF Others

LEMMA PositionSound ==
    ASSUME StudioInv, NEW k \in Call, NEW p,
           at[k] \in PositionPlaces \cup {"quoted"}, job' = job, PricesKept(k)
    PROVE  \A x \in Quoted(k, p) \cup Others(k, p) :
              Sound(k, x)'
<1>1. at[k] \notin ClaimPlaces \cup {"idle", "returned", "stopped"}
  BY DEF PositionPlaces, ClaimPlaces
<1>2. ASSUME NEW x, x \in Quoted(k, p)
      PROVE  Sound(k, x)'
  <2>1. /\ x.by = k /\ <<"price", Shown(k)>> \in x.needs
        /\ x.makes \subseteq {<<"free", p, k>>}
        /\ x.drops \subseteq Free(p, seen[k]) \cup Vested(p, seen[k])
    BY <1>2, QuotedTxs
  <2>2. \A f \in x.makes : f[1] = "free"
    BY <2>1
  <2>3. \A f \in x.drops : f[1] \in {"free", "vested"}
    BY <2>1 DEF Free, Vested
  <2>4. Mild(k, x)
    BY <2>2, <2>3 DEF Mild, Local, Lasting
  <2> QED BY <2>1, <2>4, QuotedTx
<1>3. ASSUME NEW x, x \in Others(k, p)
      PROVE  Sound(k, x)'
  <2>1. /\ x.by = k /\ x.op \in {"createPosition", "splitPosition", "claimPositionFee", "closePosition"}
        /\ \A f \in x.makes : f[1] \in {"open", "owner", "split"}
        /\ \A f \in x.drops : f[1] \in {"fee", "open"}
    BY <1>3, OtherTxs
  <2>2. x.op \notin Trades
    BY <2>1 DEF Trades
  <2>3. Mild(k, x)
    BY <2>1 DEF Mild, Local, Lasting
  <2> QED BY <1>1, <2>1, <2>2, <2>3, SoundTx
<1> QED BY <1>2, <1>3

LEMMA PositionGoes ==
    ASSUME StudioInv, NEW k \in Call, PositionStep(k)
    PROVE  Goes(k)
<1>1. /\ at[k] \in PositionPlaces \cup {"position", "quoted"} =>
              at[k] \notin ClaimPlaces \cup {"idle", "returned", "stopped"}
      /\ at[k] \in PositionPlaces \cup {"quoted"} => PriceSeen(k) /\ at[k] # "position"
  BY DEF StudioInv, PlaceOK, PositionPlaces, ClaimPlaces
<1> DEFINE Onward == (PositionPlaces \cup {"quoted", "returned", "stopped"}) 
<1>2. \A p \in Onward : p \in Place \ (ClaimPlaces \cup {"idle", "position"})
  BY DEF Place, PositionPlaces, ClaimPlaces
<1>3. FetchPool(k) => Goes(k)
  <2> SUFFICES ASSUME FetchPool(k) PROVE Goes(k)
    OBVIOUS
  <2>1. at[k] = "position" /\ todo[k] = <<>> /\ Read(k, Prices) /\ Goto(k, "positions")
    BY DEF FetchPool, At
  <2>2. Knows(k) /\ Prices \cap facts \subseteq seen'[k]
    BY <2>1, Learns
  <2>3. \E q \in Price : <<"price", q>> \in facts
    BY <2>1 DEF StudioInv, PlaceOK, PriceOK
  <2>4. PriceSeen(k)'
    BY <2>2, <2>3 DEF PriceSeen, Prices
  <2>5. at[k] \notin ClaimPlaces \cup {"idle", "returned", "stopped"}
    BY <1>1, <2>1
  <2>6. "positions" \in Onward
    BY DEF PositionPlaces
  <2> HIDE DEF Onward
  <2> QED BY <1>2, <2>1, <2>2, <2>4, <2>5, <2>6, GoesTo
\* Every later step knows a price and forgets none.
<1>4. ASSUME at[k] \in PositionPlaces \cup {"quoted"}, todo[k] = <<>>, Knows(k), PricesKept(k),
             NEW p \in Onward
      PROVE  /\ PriceSeen(k)' /\ at[k] \notin ClaimPlaces \cup {"idle", "returned", "stopped"}
             /\ p \in Place \ (ClaimPlaces \cup {"idle", "position"})
             /\ Goto(k, p) => Goes(k)
  <2>1. PriceSeen(k)' /\ at[k] \notin ClaimPlaces \cup {"idle", "returned", "stopped"}
    BY <1>1, <1>4, PriceStays
  <2>2. p \in Place \ (ClaimPlaces \cup {"idle", "position"})
    BY <1>2
  <2> HIDE DEF Onward
  <2>3. Goto(k, p) => Goes(k)
    BY <1>4, <2>1, <2>2, GoesTo
  <2> QED BY <2>1, <2>2, <2>3
<1>5. ASSUME at[k] \in PositionPlaces \cup {"quoted"}, todo[k] = <<>>, Knows(k), PricesKept(k),
             NEW p \in Onward, NEW b, NEW q, Send(k, <<b>>, p),
             b \subseteq Quoted(k, q) \cup Others(k, q)
      PROVE  Goes(k)
  <2> HIDE DEF Onward
  <2>1. job' = job
    BY <1>5 DEF Send, Try
  <2>2. \A x \in b : Sound(k, x)'
    BY <1>5, <2>1, PositionSound
  <2>3. PriceSeen(k)' /\ at[k] \notin ClaimPlaces \cup {"idle", "returned", "stopped"}
        /\ p \in Place \ (ClaimPlaces \cup {"idle", "position"})
    BY <1>4, <1>5
  <2> QED BY <1>5, <2>2, <2>3, SendsOne
<1>6. \A p : \A f \in State(p) : f[1] # "price"
  BY DEF State, Liquidity
<1>7. \A p : <<"open", p>>[1] # "price"
  OBVIOUS
<1>8. ASSUME NoPosition(k) PROVE Goes(k)
  <2>1. at[k] \in PositionPlaces \cup {"quoted"} /\ todo[k] = <<>>
    BY <1>8 DEF NoPosition, Doing, At, PositionPlaces
  <2>2. Knows(k) /\ PricesKept(k)
    BY <1>8, Learns DEF NoPosition
  <2>3. {"returned", "stopped", "chosen"} \subseteq Onward
    BY DEF PositionPlaces
  <2> HIDE DEF Onward
  <2> QED BY <1>4, <1>8, <2>1, <2>2, <2>3 DEF NoPosition, Return
<1>9. ASSUME ChoosePosition(k) PROVE Goes(k)
  <2>1. at[k] \in PositionPlaces \cup {"quoted"} /\ todo[k] = <<>>
    BY <1>9 DEF ChoosePosition, Doing, At, PositionPlaces
  <2>2. Knows(k) /\ PricesKept(k)
    BY <1>9, Learns DEF ChoosePosition
  <2>3. {"returned", "stopped", "chosen"} \subseteq Onward
    BY DEF PositionPlaces
  <2> HIDE DEF Onward
  <2> QED BY <1>4, <1>9, <2>1, <2>2, <2>3 DEF ChoosePosition, Return
<1>10. ASSUME PositionGone(k) PROVE Goes(k)
  <2>1. at[k] \in PositionPlaces \cup {"quoted"} /\ todo[k] = <<>>
    BY <1>10 DEF PositionGone, Doing, At, PositionPlaces
  <2>2. Knows(k) /\ PricesKept(k)
    BY <1>10, Learns DEF PositionGone
  <2>3. {"returned", "stopped", "chosen"} \subseteq Onward
    BY DEF PositionPlaces
  <2> HIDE DEF Onward
  <2> QED BY <1>4, <1>10, <2>1, <2>2, <2>3 DEF PositionGone, Return
<1>11. ASSUME Refetch(k) PROVE Goes(k)
  <2>1. at[k] \in PositionPlaces \cup {"quoted"} /\ todo[k] = <<>>
    BY <1>11 DEF Refetch, Doing, At, PositionPlaces
  <2>2. Knows(k) /\ PricesKept(k)
    BY <1>11, <1>6, Learns DEF Refetch
  <2>3. {"returned", "stopped", "chosen"} \subseteq Onward
    BY DEF PositionPlaces
  <2> HIDE DEF Onward
  <2> QED BY <1>4, <1>11, <2>1, <2>2, <2>3 DEF Refetch, Return
<1>12. ASSUME RemoveLiquidity(k) PROVE Goes(k)
  <2>1. at[k] \in PositionPlaces \cup {"quoted"} /\ todo[k] = <<>>
    BY <1>12 DEF RemoveLiquidity, Doing, At, PositionPlaces
  <2>2. Knows(k) /\ PricesKept(k)
    BY <1>12, <1>6, Learns DEF RemoveLiquidity
  <2>3. {"returned", "stopped", "quoted"} \subseteq Onward
    BY DEF PositionPlaces
  <2> HIDE DEF Onward
  <2> QED BY <1>4, <1>12, <2>1, <2>2, <2>3 DEF RemoveLiquidity, Return
<1>13. ASSUME SplitCreate(k) PROVE Goes(k)
  <2>1. at[k] \in PositionPlaces \cup {"quoted"} /\ todo[k] = <<>>
    BY <1>13 DEF SplitCreate, Doing, At, PositionPlaces
  <2>2. Knows(k) /\ PricesKept(k)
    BY <1>13, Learns DEF SplitCreate
  <2>3. {"returned", "stopped", "findSecond"} \subseteq Onward
    BY DEF PositionPlaces
  <2> HIDE DEF Onward
  <2>4. {createPosition(k)} \subseteq Quoted(k, Chosen(k)) \cup Others(k, Chosen(k))
    BY DEF Quoted, Others
  <2>5. Send(k, <<{createPosition(k)}>>, "findSecond")
    BY <1>13 DEF SplitCreate
  <2> QED BY <1>5, <2>1, <2>2, <2>3, <2>4, <2>5
<1>14. ASSUME SplitPosition(k) PROVE Goes(k)
  <2>1. at[k] \in PositionPlaces \cup {"quoted"} /\ todo[k] = <<>>
    BY <1>14 DEF SplitPosition, Doing, At, PositionPlaces
  <2>2. Knows(k) /\ PricesKept(k)
    BY <1>14, <1>7, Learns DEF SplitPosition
  <2>3. {"returned", "stopped", "chosen"} \subseteq Onward
    BY DEF PositionPlaces
  <2> HIDE DEF Onward
  <2>4. {SplitTx(k, Chosen(k))} \subseteq Quoted(k, Chosen(k)) \cup Others(k, Chosen(k))
    BY DEF Quoted, Others
  <2>5. Send(k, <<{SplitTx(k, Chosen(k))}>>, "returned") \/ Goto(k, "stopped")
    BY <1>14 DEF SplitPosition, Return, Goto
  <2>6. CASE Send(k, <<{SplitTx(k, Chosen(k))}>>, "returned")
    BY <1>5, <2>1, <2>2, <2>3, <2>4, <2>6
  <2> QED BY <1>4, <2>1, <2>2, <2>3, <2>5, <2>6
<1>15. ASSUME ClaimPositionFee(k) PROVE Goes(k)
  <2>1. at[k] \in PositionPlaces \cup {"quoted"} /\ todo[k] = <<>>
    BY <1>15 DEF ClaimPositionFee, Doing, At, PositionPlaces
  <2>2. Knows(k) /\ PricesKept(k)
    BY <1>15, Learns DEF ClaimPositionFee
  <2>3. {"returned", "stopped", "chosen"} \subseteq Onward
    BY DEF PositionPlaces
  <2> HIDE DEF Onward
  <2>4. {ClaimTx(k, Chosen(k))} \subseteq Quoted(k, Chosen(k)) \cup Others(k, Chosen(k))
    BY DEF Quoted, Others
  <2>5. Send(k, <<{ClaimTx(k, Chosen(k))}>>, "returned")
    BY <1>15 DEF ClaimPositionFee
  <2> QED BY <1>5, <2>1, <2>2, <2>3, <2>4, <2>5
<1>16. ASSUME AddLiquidity(k) PROVE Goes(k)
  <2>1. at[k] \in PositionPlaces \cup {"quoted"} /\ todo[k] = <<>>
    BY <1>16 DEF AddLiquidity, Doing, At, PositionPlaces
  <2>2. Knows(k) /\ PricesKept(k)
    BY <1>16, Learns DEF AddLiquidity
  <2>3. {"returned", "stopped", "refetch"} \subseteq Onward
    BY DEF PositionPlaces
  <2> HIDE DEF Onward
  <2>4. {AddTx(k, Chosen(k))} \subseteq Quoted(k, Chosen(k)) \cup Others(k, Chosen(k))
    BY DEF Quoted, Others
  <2>5. Send(k, <<{AddTx(k, Chosen(k))}>>, "refetch")
    BY <1>16 DEF AddLiquidity
  <2> QED BY <1>5, <2>1, <2>2, <2>3, <2>4, <2>5
<1>17. ASSUME RemoveQuoted(k) PROVE Goes(k)
  <2>1. at[k] \in PositionPlaces \cup {"quoted"} /\ todo[k] = <<>>
    BY <1>17 DEF RemoveQuoted, Doing, At, PositionPlaces
  <2>2. Knows(k) /\ PricesKept(k)
    BY <1>17, Learns DEF RemoveQuoted
  <2>3. {"returned", "stopped", "remains"} \subseteq Onward
    BY DEF PositionPlaces
  <2> HIDE DEF Onward
  <2>4. {RemoveTx(k, Chosen(k))} \subseteq Quoted(k, Chosen(k)) \cup Others(k, Chosen(k))
    BY DEF Quoted, Others
  <2>5. Send(k, <<{RemoveTx(k, Chosen(k))}>>, "remains")
    BY <1>17 DEF RemoveQuoted
  <2> QED BY <1>5, <2>1, <2>2, <2>3, <2>4, <2>5
<1>18. ASSUME RemoveRemains(k) PROVE Goes(k)
  <2>1. at[k] \in PositionPlaces \cup {"quoted"} /\ todo[k] = <<>>
    BY <1>18 DEF RemoveRemains, Doing, At, PositionPlaces
  <2>2. Knows(k) /\ PricesKept(k)
    BY <1>18, LearnsButFee DEF RemoveRemains
  <2>3. {"returned", "stopped", "verified"} \subseteq Onward
    BY DEF PositionPlaces
  <2> HIDE DEF Onward
  <2>4. {ClaimTx(k, Chosen(k))} \subseteq Quoted(k, Chosen(k)) \cup Others(k, Chosen(k))
    BY DEF Quoted, Others
  <2>5. Send(k, <<{ClaimTx(k, Chosen(k))}>>, "verified") \/ Goto(k, "returned") \/ Goto(k, "verified")
    BY <1>18 DEF RemoveRemains, Return, Goto
  <2>6. CASE Send(k, <<{ClaimTx(k, Chosen(k))}>>, "verified")
    BY <1>5, <2>1, <2>2, <2>3, <2>4, <2>6
  <2> QED BY <1>4, <2>1, <2>2, <2>3, <2>5, <2>6
<1>19. ASSUME RemoveClose(k) PROVE Goes(k)
  <2>1. at[k] \in PositionPlaces \cup {"quoted"} /\ todo[k] = <<>>
    BY <1>19 DEF RemoveClose, Doing, At, PositionPlaces
  <2>2. Knows(k) /\ PricesKept(k)
    BY <1>19, Learns DEF RemoveClose
  <2>3. {"returned", "stopped", "chosen"} \subseteq Onward
    BY DEF PositionPlaces
  <2> HIDE DEF Onward
  <2>4. {CloseTx(k, Chosen(k))} \subseteq Quoted(k, Chosen(k)) \cup Others(k, Chosen(k))
    BY DEF Quoted, Others
  <2>5. Send(k, <<{CloseTx(k, Chosen(k))}>>, "returned")
    BY <1>19 DEF RemoveClose
  <2> QED BY <1>5, <2>1, <2>2, <2>3, <2>4, <2>5
<1>20. ASSUME ClosePosition(k) PROVE Goes(k)
  <2>1. at[k] \in PositionPlaces \cup {"quoted"} /\ todo[k] = <<>>
    BY <1>20 DEF ClosePosition, Doing, At, PositionPlaces
  <2>2. Knows(k) /\ PricesKept(k)
    BY <1>20, <1>6, Learns DEF ClosePosition
  <2>3. {"returned", "stopped", "chosen"} \subseteq Onward
    BY DEF PositionPlaces
  <2> HIDE DEF Onward
  <2>4. {CloseTx(k, Chosen(k))} \subseteq Quoted(k, Chosen(k)) \cup Others(k, Chosen(k))
    BY DEF Quoted, Others
  <2>5. Send(k, <<{CloseTx(k, Chosen(k))}>>, "returned") \/ Goto(k, "returned")
    BY <1>20 DEF ClosePosition, Return, Goto
  <2>6. CASE Send(k, <<{CloseTx(k, Chosen(k))}>>, "returned")
    BY <1>5, <2>1, <2>2, <2>3, <2>4, <2>6
  <2> QED BY <1>4, <2>1, <2>2, <2>3, <2>5, <2>6
<1> QED BY <1>3, <1>8, <1>9, <1>10, <1>11, <1>12, <1>13, <1>14, <1>15, <1>16, <1>17, <1>18, <1>19, <1>20 DEF PositionStep

(***************************************************************************)
(* The vault and pool commands.                                            *)
(***************************************************************************)

OtherPlaces == VaultPlaces \cup PoolPlaces \cup {"createPool", "lockStake"}

\* Made by a command that touches neither prices nor claims.
Harmless(k, x) == x.by = k /\ x.op \notin Trades /\ Mild(k, x)

\* What only some commands make.
Special == {"price", "traded", "file", "proof", "root", "rootOf"}

LEMMA MakesHarmless ==
    ASSUME NEW k, NEW x, x.by = k, x.op \notin Trades, x.drops = {}, \A f \in x.makes : f[1] \notin Special
    PROVE  Harmless(k, x)
BY DEF Harmless, Mild, Special, Local

LEMMA CreatesHarmless ==
    ASSUME NEW k, NEW op, NEW needs, NEW new, NEW x, x = Creates(k, op, needs, new),
           op \notin Trades, \A f \in new : f[1] \notin Special
    PROVE  Harmless(k, x)
<1>1. x.by = k /\ x.op = op /\ x.drops = {} /\ x.makes = new
  BY DEF Creates, Bare
<1> QED BY <1>1, MakesHarmless

LEMMA Elsewhere ==
    ASSUME StudioInv, NEW k \in Call, at[k] \in OtherPlaces, todo[k] = <<>>,
           Knows(k), PricesKept(k), NEW p \in OtherPlaces \cup {"returned", "stopped"}, NEW b,
           Try(k, b, p, Uncaught), SameWorld, round' \in [Call -> Nat], FilesNumbered,
           IsQueue(b), \A i \in DOMAIN b : \A x \in b[i] : Harmless(k, x)
    PROVE  Goes(k)
<1>1. at[k] \notin ClaimPlaces \cup {"idle", "returned", "stopped"}
  BY DEF OtherPlaces, VaultPlaces, PoolPlaces, ClaimPlaces
<1>2. p \in Place \ (ClaimPlaces \cup {"idle", "position"}) /\ p \notin PositionPlaces \cup {"quoted"}
  BY DEF OtherPlaces, VaultPlaces, PoolPlaces, PositionPlaces, ClaimPlaces, Place
<1>3. ASSUME NEW x, Harmless(k, x)
      PROVE  Sound(k, x)'
  <2>1. job' = job
    BY DEF Try
  <2> QED BY <1>1, <1>3, <2>1, SoundTx DEF Harmless
<1> QED BY <1>1, <1>2, <1>3, Tries

LEMMA ElsewhereSend ==
    ASSUME StudioInv, NEW k \in Call, at[k] \in OtherPlaces, todo[k] = <<>>,
           Knows(k), PricesKept(k), NEW p \in OtherPlaces \cup {"returned", "stopped"}, NEW b,
           Send(k, b, p),
           IsQueue(b), \A i \in DOMAIN b : \A x \in b[i] : Harmless(k, x)
    PROVE  Goes(k)
<1>1. SameWorld /\ FilesNumbered /\ round' \in [Call -> Nat]
  BY DEF Send, SameWorld, FilesNumbered, StudioInv, TypeOK
<1> QED BY <1>1, Elsewhere DEF Send

LEMMA ElsewhereOne ==
    ASSUME StudioInv, NEW k \in Call, at[k] \in OtherPlaces, todo[k] = <<>>,
           Knows(k), PricesKept(k), NEW p \in OtherPlaces \cup {"returned", "stopped"}, NEW b,
           Send(k, <<b>>, p) \/ Goto(k, p), \A x \in b : Harmless(k, x)
    PROVE  Goes(k)
<1>1. \A i \in DOMAIN <<b>> : \A x \in <<b>>[i] : Harmless(k, x)
  BY QueueOne
<1>2. \A i \in DOMAIN <<>> : \A x \in <<>>[i] : Harmless(k, x)
  OBVIOUS
<1>3. CASE Send(k, <<b>>, p)
  BY <1>1, <1>3, QueueOne, ElsewhereSend
<1>4. CASE Goto(k, p)
  BY <1>2, <1>4, QueueEmpty, ElsewhereSend DEF Goto
<1> QED BY <1>3, <1>4

LEMMA ElsewhereGoto ==
    ASSUME StudioInv, NEW k \in Call, at[k] \in OtherPlaces, todo[k] = <<>>,
           Knows(k), PricesKept(k), NEW p \in OtherPlaces \cup {"returned", "stopped"}, Goto(k, p)
    PROVE  Goes(k)
BY QueueEmpty, ElsewhereSend DEF Goto

LEMMA PartsInNat ==
    ASSUME NEW list, NEW S, list \in Seq(S), NEW size \in Nat \ {0}
    PROVE  Parts(list, size) \in Nat
<1>1. Len(list) + size - 1 \in Nat
  OBVIOUS
<1> DEFINE n == Len(list) + size - 1
<1> HIDE DEF n
<1>2. n \in Nat => n \div size \in Nat
  OBVIOUS
<1> QED BY <1>1, <1>2 DEF Parts, n

LEMMA VaultTxs ==
    ASSUME NEW k, NEW i \in Nat, NEW part, NEW b,
           b \in {{NewVault(k)}, {RootTx(k, i, Part(job[k].list, ChunkSize, i))},
                  {Creates(k, "metadata", {theVault(k)}, {Metadata(k)})},
                  {Creates(k, "escrow", {theVault(k)}, {<<"escrow", PoolOf(k), e>> : e \in part})}}
    PROVE  \A x \in b : Harmless(k, x)
<1>1. NewVault(k) \in {Creates(k, op, {thePool(k)}, {theVault(k)}) : op \in {"fcfs", "prorata"}}
  BY DEF NewVault, createFcfsAlphaVault, createProrataAlphaVault, InitVault
<1>2. ASSUME NEW x, x = NewVault(k)
      PROVE  Harmless(k, x)
  <2>1. PICK op \in {"fcfs", "prorata"} : x = Creates(k, op, {thePool(k)}, {theVault(k)})
    BY <1>1, <1>2
  <2>2. op \notin Trades /\ \A f \in {theVault(k)} : f[1] \notin Special
    BY DEF Trades, Special, theVault
  <2> QED BY <2>1, <2>2, CreatesHarmless
<1>3. ASSUME NEW x, x = RootTx(k, i, Part(job[k].list, ChunkSize, i))
      PROVE  Harmless(k, x)
  <2> DEFINE made == Part(job[k].list, ChunkSize, i)
  <2>1. /\ x.by = k /\ x.op = "root" /\ x.drops = {}
        /\ x.makes = {theRoot(k, i)} \cup {<<"rootOf", PoolOf(k), i, made>>}
    BY Zenon, <1>3 DEF RootTx, Creates, Bare
  <2> HIDE DEF made
  <2>2. x.makes = {theRoot(k, i), <<"rootOf", PoolOf(k), i, made>>}
    BY <2>1
  <2>3. \A f \in x.makes : f[1] \in {"root", "rootOf"}
    BY <2>2 DEF theRoot
  <2>4. Mild(k, x)
    BY <2>1, <2>2, <2>3 DEF Mild, Local, made
  <2> QED BY <2>1, <2>4 DEF Harmless, Trades
<1>4. \A x : x = Creates(k, "metadata", {theVault(k)}, {Metadata(k)}) => Harmless(k, x)
  BY CreatesHarmless DEF Trades, Special, Metadata
<1>5. \A x : x = Creates(k, "escrow", {theVault(k)}, {<<"escrow", PoolOf(k), e>> : e \in part}) => Harmless(k, x)
  <2>1. \A f \in {<<"escrow", PoolOf(k), e>> : e \in part} : f[1] \notin Special
    BY DEF Special
  <2> QED BY <2>1, CreatesHarmless DEF Trades
<1> QED BY <1>2, <1>3, <1>4, <1>5

LEMMA EscrowTxs ==
    ASSUME StudioInv, NEW k \in Call, NEW b, b = handleSendTxs(k, job[k].list, EscrowsPerTx)
    PROVE  IsQueue(b) /\ \A i \in DOMAIN b : \A x \in b[i] : Harmless(k, x)
<1> DEFINE n == Parts(job[k].list, EscrowsPerTx)
           batch(i) == {Creates(k, "escrow", {theVault(k)},
                                {<<"escrow", PoolOf(k), e>> : e \in Part(job[k].list, EscrowsPerTx, i - 1)})}
<1>1. n \in Nat
  BY PartsInNat, ChunkAssumption DEF StudioInv, Shape, IsQueue
<1>2. b = [i \in 1..n |-> batch(i)]
  BY DEF handleSendTxs
<1>3. \A i : \A x \in batch(i) : Harmless(k, x)
  BY VaultTxs
<1> HIDE DEF n, batch
<1>4. b = [i \in 1..n |-> b[i]]
  BY <1>2
<1>5. IsQueue(b) /\ DOMAIN b = 1..n
  BY <1>1, <1>4, QueueOf
<1> QED BY <1>2, <1>3, <1>5

LEMMA VaultGoes ==
    ASSUME StudioInv, NEW k \in Call, VaultStep(k)
    PROVE  Goes(k)
<1>1. ASSUME EnterVault(k) PROVE Goes(k)
  <2>1. at[k] \in OtherPlaces /\ todo[k] = <<>> /\ Knows(k) /\ PricesKept(k)
    BY <1>1, Learns DEF EnterVault, At, OtherPlaces, VaultPlaces
  <2>2. {"returned", "lookForVault"} \subseteq OtherPlaces \cup {"returned", "stopped"}
    BY DEF OtherPlaces, VaultPlaces
  <2>3. \A x \in {NewVault(k)} : Harmless(k, x)
    BY VaultTxs
  <2>4. Send(k, <<{NewVault(k)}>>, "returned") \/ Goto(k, "lookForVault")
    BY <1>1 DEF EnterVault
  <2> QED BY <2>1, <2>2, <2>3, <2>4, ElsewhereOne
<1>2. ASSUME LookForVault(k) PROVE Goes(k)
  <2>1. theVault(k)[1] # "price"
    BY DEF theVault
  <2>2. at[k] \in OtherPlaces /\ todo[k] = <<>> /\ Knows(k) /\ PricesKept(k)
    BY <1>2, <2>1, Learns DEF LookForVault, At, OtherPlaces, VaultPlaces
  <2>3. "openVault" \in OtherPlaces \cup {"returned", "stopped"}
    BY DEF OtherPlaces, VaultPlaces
  <2>4. \A x \in {NewVault(k)} : Harmless(k, x)
    BY VaultTxs
  <2>5. Send(k, <<{NewVault(k)}>>, "openVault") \/ Goto(k, "openVault")
    BY <1>2 DEF LookForVault, Goto
  <2> QED BY <2>2, <2>3, <2>4, <2>5, ElsewhereOne
<1>3. ASSUME NoVault(k) PROVE Goes(k)
  <2>1. at[k] \in OtherPlaces /\ todo[k] = <<>> /\ Knows(k) /\ PricesKept(k) /\ Goto(k, "stopped")
    BY <1>3, Learns DEF NoVault, At, OtherPlaces, VaultPlaces
  <2> QED BY <2>1, ElsewhereGoto
<1>4. ASSUME OpenForEscrows(k) PROVE Goes(k)
  <2>1. at[k] \in OtherPlaces /\ todo[k] = <<>> /\ Knows(k) /\ PricesKept(k)
    BY <1>4, Learns DEF OpenForEscrows, At, OtherPlaces, VaultPlaces
  <2>2. Send(k, handleSendTxs(k, job[k].list, EscrowsPerTx), "returned")
    BY <1>4 DEF OpenForEscrows
  <2> QED BY <2>1, <2>2, EscrowTxs, ElsewhereSend
<1>5. ASSUME OpenForProofs(k) PROVE Goes(k)
  <2>1. at[k] \in OtherPlaces /\ todo[k] = <<>> /\ Knows(k) /\ PricesKept(k)
    BY <1>5, Learns DEF OpenForProofs, At, OtherPlaces, VaultPlaces
  <2>2. /\ Try(k, <<>>, "writeProofs", Uncaught) /\ SameWorld /\ FilesNumbered
        /\ "writeProofs" \in OtherPlaces
    BY <1>5 DEF OpenForProofs, SameWorld, FilesNumbered, OtherPlaces, VaultPlaces
  <2>3. round' \in [Call -> Nat]
    BY <1>5 DEF OpenForProofs, StudioInv, TypeOK
  <2> QED BY <2>1, <2>2, <2>3, QueueEmpty, Elsewhere
<1>6. ASSUME WriteProofs(k) PROVE Goes(k)
  <2>1. at[k] \in OtherPlaces /\ todo[k] = <<>> /\ Knows(k) /\ PricesKept(k)
    BY <1>6, Learns DEF WriteProofs, At, OtherPlaces, VaultPlaces
  <2>2. Try(k, <<>>, "lookForRoot", Uncaught) /\ "lookForRoot" \in OtherPlaces
    BY <1>6 DEF WriteProofs, OtherPlaces, VaultPlaces
  <2>3. SameWorld
    <3>1. PICK part : facts' = {f \in facts : <<f[1], f[2]>> # <<"file", PoolOf(k)>> \/ f[3] # round[k]}
                               \cup {<<"file", PoolOf(k), round[k], part>>}
      BY <1>6 DEF WriteProofs
    <3>2. ASSUME NEW f, f[1] \in Watched
          PROVE  <<f[1], f[2]>> # <<"file", PoolOf(k)>> /\ f # <<"file", PoolOf(k), round[k], part>>
      BY <3>2 DEF Watched, Lasting
    <3> QED BY <3>1, <3>2 DEF SameWorld
  <2>4. round' \in [Call -> Nat] /\ FilesNumbered
    BY <1>6 DEF WriteProofs, StudioInv, TypeOK, FilesNumbered
  <2> QED BY <2>1, <2>2, <2>3, <2>4, QueueEmpty, Elsewhere
<1>7. ASSUME LookForRoot(k) PROVE Goes(k)
  <2>1. at[k] \in OtherPlaces /\ todo[k] = <<>> /\ Knows(k) /\ PricesKept(k)
    BY <1>7, Learns DEF LookForRoot, At, OtherPlaces, VaultPlaces
  <2>2. round[k] \in Nat /\ round \in [Call -> Nat]
    BY DEF StudioInv, TypeOK
  <2>3. PICK tx, p : /\ \A x \in {tx} : Harmless(k, x)
                     /\ p \in {"writeProofs", "metadata", "returned"}
                     /\ Try(k, <<>>, p, Uncaught) \/ Try(k, <<{tx}>>, p, Uncaught)
    <3>1. \A x \in {RootTx(k, round[k], Part(job[k].list, ChunkSize, round[k]))} : Harmless(k, x)
      BY <2>2, VaultTxs
    <3> QED BY <1>7, <3>1 DEF LookForRoot
  <2>4. round' \in [Call -> Nat] /\ SameWorld /\ FilesNumbered
    BY <1>7, <2>2 DEF LookForRoot, SameWorld, FilesNumbered
  <2>5. p \in OtherPlaces \cup {"returned", "stopped"}
    BY <2>3 DEF OtherPlaces, VaultPlaces
  <2>6. \A i \in DOMAIN <<{tx}>> : \A x \in <<{tx}>>[i] : Harmless(k, x)
    BY <2>3, QueueOne
  <2>7. CASE Try(k, <<>>, p, Uncaught)
    BY <2>1, <2>4, <2>5, <2>7, QueueEmpty, Elsewhere
  <2>8. CASE Try(k, <<{tx}>>, p, Uncaught)
    BY <2>1, <2>4, <2>5, <2>6, <2>8, QueueOne, Elsewhere
  <2> QED BY <2>3, <2>7, <2>8
<1>8. ASSUME LookForMetadata(k) PROVE Goes(k)
  <2>1. at[k] \in OtherPlaces /\ todo[k] = <<>> /\ Knows(k) /\ PricesKept(k)
    BY <1>8, Learns DEF LookForMetadata, At, OtherPlaces, VaultPlaces
  <2> DEFINE b == {Creates(k, "metadata", {theVault(k)}, {Metadata(k)})}
  <2>2. \A x \in b : Harmless(k, x)
    BY VaultTxs
  <2>3. Send(k, <<b>>, "readProofs") \/ Goto(k, "readProofs")
    BY <1>8 DEF LookForMetadata, Goto
  <2>4. "readProofs" \in OtherPlaces
    BY DEF OtherPlaces, VaultPlaces
  <2> HIDE DEF b
  <2> QED BY <2>1, <2>2, <2>3, <2>4, ElsewhereOne
<1>9. ASSUME ReadProofs(k) PROVE Goes(k)
  <2>1. at[k] \in OtherPlaces /\ todo[k] = <<>> /\ Knows(k) /\ PricesKept(k)
    BY <1>9, Learns DEF ReadProofs, At, OtherPlaces, VaultPlaces
  <2>2. Goto(k, "putProofs") /\ "putProofs" \in OtherPlaces
    BY <1>9 DEF ReadProofs, OtherPlaces, VaultPlaces
  <2> QED BY <2>1, <2>2, ElsewhereGoto
<1>10. ASSUME PutProofs(k) PROVE Goes(k)
  <2>1. at[k] \in OtherPlaces /\ todo[k] = <<>> /\ Knows(k) /\ PricesKept(k)
    BY <1>10, Learns DEF PutProofs, At, OtherPlaces, VaultPlaces
  <2>2. PICK f \in seen[k] :
           /\ f[1] = "file"
           /\ facts' = {x \in facts : <<x[1], x[2]>> # <<"proof", f[2]>> \/ x[3] \notin f[4]}
                       \cup {<<"proof", f[2], e, f[3], f[4]>> : e \in f[4]}
           /\ round' = [round EXCEPT ![k] = f[3] + 1]
    BY <1>10 DEF PutProofs
  <2>3. f[3] \in Nat
    BY <2>2 DEF StudioInv, FilesOK
  <2>4. round' \in [Call -> Nat]
    BY <2>2, <2>3 DEF StudioInv, TypeOK
  <2>5. ASSUME NEW g, g[1] \in Watched \cup {"file"}
        PROVE  g \in facts <=> g \in facts'
    <3>1. \A e \in f[4] : g # <<"proof", f[2], e, f[3], f[4]>>
      BY <2>5 DEF Watched, Lasting
    <3>2. <<g[1], g[2]>> # <<"proof", f[2]>>
      BY <2>5 DEF Watched, Lasting
    <3> QED BY <2>2, <3>1, <3>2
  <2>6. SameWorld /\ FilesNumbered
    BY <2>5 DEF SameWorld, FilesNumbered
  <2>7. \E p \in {"putProofs", "returned"} : Try(k, <<>>, p, Uncaught)
    BY <1>10 DEF PutProofs
  <2>8. {"putProofs", "returned"} \subseteq OtherPlaces \cup {"returned", "stopped"}
    BY DEF OtherPlaces, VaultPlaces
  <2> QED BY <2>1, <2>4, <2>6, <2>7, <2>8, QueueEmpty, Elsewhere
<1> QED BY <1>1, <1>2, <1>3, <1>4, <1>5, <1>6, <1>7, <1>8, <1>9, <1>10 DEF VaultStep

LEMMA QueueThree ==
    ASSUME NEW a, NEW b, NEW c
    PROVE  IsQueue(<<a, b, c>>) /\ \A i \in DOMAIN <<a, b, c>> : <<a, b, c>>[i] \in {a, b, c}
<1> DEFINE s == <<a, b, c>>
<1>1. DOMAIN s = 1..3 /\ s[1] = a /\ s[2] = b /\ s[3] = c
  OBVIOUS
<1>2. \A i \in 1..3 : s[i] \in {a, b, c}
  BY <1>1
<1>3. s = [i \in 1..3 |-> s[i]]
  OBVIOUS
<1> HIDE DEF s
<1>4. IsQueue(s)
  BY <1>3, QueueOf
<1> QED BY <1>1, <1>2, <1>4 DEF s

LEMMA PoolTxHarmless ==
    ASSUME StudioInv, NEW k \in Call, NEW x, x = PoolTx(k)
    PROVE  Harmless(k, x)
<1> DEFINE lp == {<<"lpAccount", PoolOf(k)>>} \cup {<<"lp", PoolOf(k), i>> : i \in 1..LpUnits}
<1>1. ASSUME NEW program \in {"dlmm", "dammV1", "oneSided", "balanced"}, NEW holds,
             \A f \in holds : f[1] \notin Special
      PROVE  Harmless(k, InitPool(k, program, holds))
  <2>1. program \notin Trades
    BY DEF Trades
  <2>2. \A f \in {thePool(k)} \cup holds : f[1] \notin Special
    BY <1>1 DEF thePool, Special
  <2> QED BY <2>1, <2>2, CreatesHarmless DEF InitPool
<1>2. Harmless(k, createPermissionlessDlmmPool(k))
  BY <1>1 DEF createPermissionlessDlmmPool
<1>3. Harmless(k, createDammV1Pool(k))
  <2>1. \A f \in lp : f[1] \notin Special
    BY DEF Special
  <2>2. createDammV1Pool(k) = InitPool(k, "dammV1", lp)
    BY DEF createDammV1Pool
  <2> HIDE DEF lp
  <2> QED BY <1>1, <2>1, <2>2
<1>4. \A program \in {"oneSided", "balanced"} : Harmless(k, InitPool(k, program, {<<"poolPosition", PoolOf(k)>>}))
  <2>1. \A f \in {<<"poolPosition", PoolOf(k)>>} : f[1] \notin Special
    BY DEF Special
  <2> QED BY <1>1, <2>1
<1>5. Harmless(k, createDammV2OneSidedPool(k))
  BY <1>4 DEF createDammV2OneSidedPool
<1>6. Harmless(k, createDammV2BalancedPool(k))
  <2> DEFINE y == InitPool(k, "balanced", {<<"poolPosition", PoolOf(k)>>})
             z == createDammV2BalancedPool(k)
  <2>1. z.by = y.by /\ z.op = y.op /\ z.makes = y.makes /\ z.drops = y.drops
    BY DEF createDammV2BalancedPool, InitPool, Creates, Bare
  <2>2. Harmless(k, y)
    BY <1>4
  <2> HIDE DEF y, z
  <2>3. Harmless(k, z)
    BY <2>1, <2>2 DEF Harmless, Mild
  <2> QED BY <2>3 DEF z
<1>7. job[k].pool \in {"dlmm", "dammV1", "oneSided", "balanced"}
  BY DEF StudioInv, Shape, Pools
<1> QED BY <1>2, <1>3, <1>5, <1>6, <1>7 DEF PoolTx

LEMMA MintTxs ==
    ASSUME NEW k, NEW b,
           b \in {{Creates(k, "mint", {}, {<<"mint", k>>})},
                  {Creates(k, "ata", {<<"mint", k>>}, {<<"ata", k>>})},
                  {Creates(k, "mintTo", {<<"ata", k>>}, {theSupply(k)})}}
    PROVE  \A x \in b : Harmless(k, x)
<1>1. ASSUME NEW x, x = Creates(k, "mint", {}, {<<"mint", k>>})
      PROVE  Harmless(k, x)
  <2>1. \A f \in {<<"mint", k>>} : f[1] \notin Special
    BY DEF Special
  <2> QED BY <1>1, <2>1, CreatesHarmless DEF Trades
<1>2. ASSUME NEW x, x = Creates(k, "ata", {<<"mint", k>>}, {<<"ata", k>>})
      PROVE  Harmless(k, x)
  <2>1. \A f \in {<<"ata", k>>} : f[1] \notin Special
    BY DEF Special
  <2> QED BY <1>2, <2>1, CreatesHarmless DEF Trades
<1>3. ASSUME NEW x, x = Creates(k, "mintTo", {<<"ata", k>>}, {theSupply(k)})
      PROVE  Harmless(k, x)
  <2>1. \A f \in {theSupply(k)} : f[1] \notin Special
    BY DEF Special, theSupply
  <2> QED BY <1>3, <2>1, CreatesHarmless DEF Trades
<1> QED BY <1>1, <1>2, <1>3

LEMMA SeedTxs ==
    ASSUME NEW k, NEW i, NEW x,
           x \in Inits(k) \cup {Prove(k)} \/
           x = [Creates(k, "deposit", {<<"bins", k, i>>}, {<<"seeded", k, i>>}) EXCEPT !.real = TRUE]
    PROVE  Harmless(k, x)
<1>1. CASE x \in Inits(k)
  <2>1. PICK n : x = [Creates(k, "initBins", {thePool(k), <<"proven", 0>>}, {<<"bins", k, n>>}) EXCEPT !.real = TRUE]
    BY <1>1 DEF Inits
  <2>2. x.by = k /\ x.op = "initBins" /\ x.drops = {} /\ x.makes = {<<"bins", k, n>>}
    BY <2>1 DEF Creates, Bare
  <2> QED BY <2>2, MakesHarmless DEF Special, Trades
<1>2. CASE x = Prove(k)
  <2>1. x.by = k /\ x.op = "prove" /\ x.drops = {} /\ x.makes = {<<"proven", 0>>}
    BY <1>2 DEF Prove, Bare
  <2> QED BY <2>1, MakesHarmless DEF Special, Trades
<1>3. CASE x = [Creates(k, "deposit", {<<"bins", k, i>>}, {<<"seeded", k, i>>}) EXCEPT !.real = TRUE]
  <2>1. x.by = k /\ x.op = "deposit" /\ x.drops = {} /\ x.makes = {<<"seeded", k, i>>}
    BY <1>3 DEF Creates, Bare
  <2> QED BY <2>1, MakesHarmless DEF Special, Trades
<1> QED BY <1>1, <1>2, <1>3

\* What the seeding of a curve sends.
Seeds(k) ==
    {(<<{Prove(k)}>> \o <<Inits(k)>>) \o Deposits(k), (<<>> \o <<Inits(k)>>) \o Deposits(k)}

LEMMA DepositQueue ==
    ASSUME NEW k
    PROVE  IsQueue(Deposits(k)) /\ \A i \in DOMAIN Deposits(k) : \A x \in Deposits(k)[i] : Harmless(k, x)
<1> DEFINE batch(i) == {[Creates(k, "deposit", {<<"bins", k, i>>}, {<<"seeded", k, i>>}) EXCEPT !.real = TRUE]}
           d == Deposits(k)
<1>1. d = [i \in 1..Groups |-> batch(i)]
  BY DEF Deposits
<1>2. \A i : \A x \in batch(i) : Harmless(k, x)
  BY SeedTxs
<1> HIDE DEF batch, d
<1>3. d = [i \in 1..Groups |-> d[i]]
  BY <1>1
<1>4. IsQueue(d) /\ DOMAIN d = 1..Groups
  BY <1>3, QueueOf, SeedingAssumption
<1>5. \A i \in DOMAIN d : \A x \in d[i] : Harmless(k, x)
  BY <1>1, <1>2, <1>4
<1> QED BY <1>4, <1>5 DEF d

LEMMA SeedQueue ==
    ASSUME NEW k, NEW b \in Seeds(k)
    PROVE  IsQueue(b) /\ \A i \in DOMAIN b : \A x \in b[i] : Harmless(k, x)
<1>1. \A x \in Inits(k) \cup {Prove(k)} : Harmless(k, x)
  BY SeedTxs
<1>2. PICK a \in {<<{Prove(k)}>>, <<>>} : b = (a \o <<Inits(k)>>) \o Deposits(k)
  BY DEF Seeds
<1>3. IsQueue(a) /\ \A i \in DOMAIN a : a[i] = {Prove(k)}
  BY QueueOne, QueueEmpty
<1>4. IsQueue(<<Inits(k)>>) /\ \A i \in DOMAIN <<Inits(k)>> : <<Inits(k)>>[i] = Inits(k)
  BY QueueOne
<1> DEFINE c == a \o <<Inits(k)>>
           d == Deposits(k)
<1>8. Joins(c, a, <<Inits(k)>>) /\ Joins(b, c, d)
  BY <1>2 DEF Joins
<1> HIDE DEF c
<1>5. IsQueue(c) /\ \A i \in DOMAIN c : c[i] = {Prove(k)} \/ c[i] = Inits(k)
  BY <1>3, <1>4, <1>8, QueueAfter
<1>6. IsQueue(d) /\ \A i \in DOMAIN d : \A x \in d[i] : Harmless(k, x)
  BY DepositQueue
<1> HIDE DEF d
<1>7. IsQueue(b) /\ \A i \in DOMAIN b : (\E j \in DOMAIN c : b[i] = c[j])
                                        \/ (\E j \in DOMAIN d : b[i] = d[j])
  BY <1>5, <1>6, <1>8, QueueAfter
<1> QED BY <1>1, <1>5, <1>6, <1>7

LEMMA LockGoes ==
    ASSUME StudioInv, NEW k \in Call, at[k] \in OtherPlaces, todo[k] = <<>>, LockAll(k)
    PROVE  Goes(k)
<1> DEFINE amount == fromAllocationsToAmount(Balance(k), job[k].alloc)
           b == [j \in DOMAIN amount |-> {LockTx(k, j, amount[j])}]
<1>1. Knows(k) /\ PricesKept(k)
  <2>1. \A f \in {<<"balance", Balance(k)>>} : f[1] # "file"
    OBVIOUS
  <2>2. Keep(k, {<<"balance", Balance(k)>>})
    BY DEF LockAll
  <2> QED BY <2>1, <2>2, Learns
<1>2. Send(k, b, "returned")
  BY DEF LockAll
<1>3. DOMAIN amount = 1..Len(job[k].alloc) /\ Len(job[k].alloc) \in Nat
  <2>1. job[k].alloc \in Seq(Nat)
    BY DEF StudioInv, Shape
  <2>2. DOMAIN amount = DOMAIN job[k].alloc
    BY DEF fromAllocationsToAmount
  <2> QED BY <2>1, <2>2
<1>4. \A j, n : Harmless(k, LockTx(k, j, n))
  <2>1. ASSUME NEW j, NEW n, NEW x, x = LockTx(k, j, n)
        PROVE  Harmless(k, x)
    <3>1. x.by = k /\ x.op = "lock" /\ x.drops = {} /\ x.makes = {<<"lpLock", k, j, n>>}
      BY <2>1 DEF LockTx, Bare
    <3> QED BY <3>1, MakesHarmless DEF Special, Trades
  <2> QED BY <2>1
<1> HIDE DEF amount
<1>5. \A j \in DOMAIN b : \A x \in b[j] : Harmless(k, x)
  BY <1>4
<1>6. b = [j \in 1..Len(job[k].alloc) |-> b[j]]
  BY <1>3
<1> HIDE DEF b
<1>7. IsQueue(b)
  BY <1>3, <1>6, QueueOf
<1> QED BY <1>1, <1>2, <1>5, <1>7, ElsewhereSend

LEMMA PoolGoes ==
    ASSUME StudioInv, NEW k \in Call, PoolStep(k)
    PROVE  Goes(k)
<1>1. ASSUME CreateTokenMint(k) PROVE Goes(k)
  <2>1. at[k] \in OtherPlaces /\ todo[k] = <<>> /\ Knows(k) /\ PricesKept(k)
    BY <1>1, Learns DEF CreateTokenMint, Starts, At, OtherPlaces, PoolPlaces
  <2>2. {"stopped", "newPool"} \subseteq OtherPlaces \cup {"returned", "stopped"}
    BY DEF OtherPlaces, PoolPlaces, VaultPlaces
  <2> DEFINE a == {Creates(k, "mint", {}, {<<"mint", k>>})}
             b == {Creates(k, "ata", {<<"mint", k>>}, {<<"ata", k>>})}
             c == {Creates(k, "mintTo", {<<"ata", k>>}, {theSupply(k)})}
  <2>3. (\A x \in a : Harmless(k, x)) /\ (\A x \in b : Harmless(k, x)) /\ (\A x \in c : Harmless(k, x))
    BY MintTxs
  <2>4. Goto(k, "stopped") \/ Send(k, <<a, b, c>>, "newPool")
    BY <1>1 DEF CreateTokenMint
  <2> HIDE DEF a, b, c
  <2>5. CASE Goto(k, "stopped")
    BY <2>1, <2>5, ElsewhereGoto
  <2>6. CASE Send(k, <<a, b, c>>, "newPool")
    <3> DEFINE s == <<a, b, c>>
    <3>1. IsQueue(s) /\ \A i \in DOMAIN s : s[i] \in {a, b, c}
      BY QueueThree
    <3>2. Send(k, s, "newPool")
      BY <2>6
    <3> HIDE DEF s
    <3>3. \A i \in DOMAIN s : \A x \in s[i] : Harmless(k, x)
      BY <2>3, <3>1
    <3> QED BY <2>1, <2>2, <3>1, <3>2, <3>3, ElsewhereSend
  <2> QED BY <2>4, <2>5, <2>6
<1>2. ASSUME UseMint(k) PROVE Goes(k)
  <2>1. at[k] \in OtherPlaces /\ todo[k] = <<>> /\ Knows(k) /\ PricesKept(k)
    BY <1>2, Learns DEF UseMint, Starts, At, OtherPlaces, PoolPlaces
  <2>2. {"newPool"} \subseteq OtherPlaces \cup {"returned", "stopped"}
    BY DEF OtherPlaces, PoolPlaces, VaultPlaces
  <2>3. \E p \in {"newPool"} : Goto(k, p)
    BY <1>2 DEF UseMint, Return
  <2> QED BY <2>1, <2>2, <2>3, ElsewhereGoto
<1>3. ASSUME CreatePool(k) PROVE Goes(k)
  <2>1. at[k] \in OtherPlaces /\ todo[k] = <<>> /\ Knows(k) /\ PricesKept(k)
    BY <1>3, Learns DEF CreatePool, At, OtherPlaces, PoolPlaces
  <2>2. {"returned", "vault"} \subseteq OtherPlaces \cup {"returned", "stopped"}
    BY DEF OtherPlaces, PoolPlaces, VaultPlaces
  <2> DEFINE b == {PoolTx(k)}
  <2>3. \A x \in b : Harmless(k, x)
    BY PoolTxHarmless
  <2>4. \E p \in {"returned", "vault"} : Send(k, <<b>>, p) \/ Goto(k, p)
    BY <1>3 DEF CreatePool, Return
  <2> HIDE DEF b
  <2> QED BY <2>1, <2>2, <2>3, <2>4, ElsewhereOne
<1>4. ASSUME NoPool(k) PROVE Goes(k)
  <2>1. at[k] \in OtherPlaces /\ todo[k] = <<>> /\ Knows(k) /\ PricesKept(k)
    BY <1>4, Learns DEF NoPool, Starts, At, OtherPlaces, PoolPlaces
  <2>2. {"stopped"} \subseteq OtherPlaces \cup {"returned", "stopped"}
    BY DEF OtherPlaces, PoolPlaces, VaultPlaces
  <2>3. \E p \in {"stopped"} : Goto(k, p)
    BY <1>4 DEF NoPool, Return
  <2> QED BY <2>1, <2>2, <2>3, ElsewhereGoto
<1>5. ASSUME SeedLiquidityLfg(k) PROVE Goes(k)
  <2>1. at[k] \in OtherPlaces /\ todo[k] = <<>> /\ Knows(k) /\ PricesKept(k)
    BY <1>5, Learns DEF SeedLiquidityLfg, Starts, At, OtherPlaces, PoolPlaces
  <2>2. Goto(k, "stopped") \/ \E b \in Seeds(k) : Send(k, b, "returned")
    BY <1>5 DEF SeedLiquidityLfg, Seeds
  <2>3. CASE Goto(k, "stopped")
    BY <2>1, <2>3, ElsewhereGoto
  <2>4. CASE \E b \in Seeds(k) : Send(k, b, "returned")
    BY <2>1, <2>4, SeedQueue, ElsewhereSend
  <2> QED BY <2>2, <2>3, <2>4
<1>6. ASSUME SeedLiquiditySingleBin(k) PROVE Goes(k)
  <2>1. at[k] \in OtherPlaces /\ todo[k] = <<>> /\ Knows(k) /\ PricesKept(k)
    BY <1>6, Learns DEF SeedLiquiditySingleBin, Starts, At, OtherPlaces, PoolPlaces
  <2>2. {"returned"} \subseteq OtherPlaces \cup {"returned", "stopped"}
    BY DEF OtherPlaces, PoolPlaces, VaultPlaces
  <2> DEFINE b == {Creates(k, "singleBin", {thePool(k)}, {<<"seeded", k, 0>>})}
  <2>3. \A x \in b : Harmless(k, x)
    <3>1. \A f \in {<<"seeded", k, 0>>} : f[1] \notin Special
      BY DEF Special
    <3> QED BY <3>1, CreatesHarmless DEF Trades
  <2>4. \E p \in {"returned"} : Send(k, <<b>>, p) \/ Goto(k, p)
    BY <1>6 DEF SeedLiquiditySingleBin, Return
  <2> HIDE DEF b
  <2> QED BY <2>1, <2>2, <2>3, <2>4, ElsewhereOne
<1>7. ASSUME SetPoolStatus(k) PROVE Goes(k)
  <2>1. at[k] \in OtherPlaces /\ todo[k] = <<>> /\ Knows(k) /\ PricesKept(k)
    BY <1>7, Learns DEF SetPoolStatus, Starts, At, OtherPlaces, PoolPlaces
  <2>2. {"returned"} \subseteq OtherPlaces \cup {"returned", "stopped"}
    BY DEF OtherPlaces, PoolPlaces, VaultPlaces
  <2> DEFINE b == {[Bare(k, "status") EXCEPT !.needs = {thePool(k)}, !.makes = {<<"enabled", 0>>}]}
  <2>3. \A x \in b : Harmless(k, x)
    <3>1. ASSUME NEW x \in b
          PROVE  x.by = k /\ x.op = "status" /\ x.drops = {} /\ x.makes = {<<"enabled", 0>>}
      BY DEF Bare
    <3> HIDE DEF b
    <3> QED BY <3>1, MakesHarmless DEF Special, Trades
  <2>4. \E p \in {"returned"} : Send(k, <<b>>, p) \/ Goto(k, p)
    BY <1>7 DEF SetPoolStatus, Return
  <2> HIDE DEF b
  <2> QED BY <2>1, <2>2, <2>3, <2>4, ElsewhereOne
<1>8. ASSUME CreateFarm(k) PROVE Goes(k)
  <2>1. at[k] \in OtherPlaces /\ todo[k] = <<>> /\ Knows(k) /\ PricesKept(k)
    BY <1>8, Learns DEF CreateFarm, Starts, At, OtherPlaces, PoolPlaces
  <2>2. {"returned"} \subseteq OtherPlaces \cup {"returned", "stopped"}
    BY DEF OtherPlaces, PoolPlaces, VaultPlaces
  <2> DEFINE b == {Creates(k, "farm", {thePool(k)}, {<<"farm", PoolOf(k)>>})}
  <2>3. \A x \in b : Harmless(k, x)
    <3>1. \A f \in {<<"farm", PoolOf(k)>>} : f[1] \notin Special
      BY DEF Special
    <3> QED BY <3>1, CreatesHarmless DEF Trades
  <2>4. \E p \in {"returned"} : Send(k, <<b>>, p) \/ Goto(k, p)
    BY <1>8 DEF CreateFarm, Return
  <2> HIDE DEF b
  <2> QED BY <2>1, <2>2, <2>3, <2>4, ElsewhereOne
<1>9. ASSUME LockLiquidity(k) PROVE Goes(k)
  <2>1. at[k] \in OtherPlaces /\ todo[k] = <<>> /\ LockAll(k)
    BY <1>9 DEF LockLiquidity, Starts, At, OtherPlaces, PoolPlaces
  <2> QED BY <2>1, LockGoes
<1>10. ASSUME LockLiquidityStake2Earn(k) PROVE Goes(k)
  <2>1. at[k] \in OtherPlaces /\ todo[k] = <<>> /\ LockAll(k)
    BY <1>10 DEF LockLiquidityStake2Earn, Starts, At, OtherPlaces, PoolPlaces
  <2> QED BY <2>1, LockGoes
<1>11. ASSUME LockRefused(k) PROVE Goes(k)
  <2>1. at[k] \in OtherPlaces /\ todo[k] = <<>> /\ Knows(k) /\ PricesKept(k)
    BY <1>11, Learns DEF LockRefused, Starts, At, OtherPlaces, PoolPlaces
  <2>2. {"stopped"} \subseteq OtherPlaces \cup {"returned", "stopped"}
    BY DEF OtherPlaces, PoolPlaces, VaultPlaces
  <2>3. \E p \in {"stopped"} : Goto(k, p)
    BY <1>11 DEF LockRefused, Return
  <2> QED BY <2>1, <2>2, <2>3, ElsewhereGoto
<1> QED BY <1>1, <1>2, <1>3, <1>4, <1>5, <1>6, <1>7, <1>8, <1>9, <1>10, <1>11 DEF PoolStep

(***************************************************************************)
(* The claim jobs.                                                         *)
(***************************************************************************)

\* Made by a claim job.
ClaimKind(k, x) ==
    /\ x.by = k /\ x.op \notin Trades
    /\ \A f \in x.makes : f[1] \in {"paid", "owed", "received"}
    /\ \A f \in x.needs : f[1] \in {"curve", "left"}
    /\ \A f \in x.drops : f[1] \in {"owed", "left"}

LEMMA AtClaims ==
    ASSUME StudioInv, NEW k \in Call, at[k] \in ClaimPlaces
    PROVE  /\ Claims(k) /\ LoopOK(k) /\ PaidOK(k) /\ at[k] \notin {"idle", "position", "returned", "stopped"}
           /\ \A z \in fate : z[1].by = k => todo[k] # <<>>
<1>1. Claims(k) /\ LoopOK(k) /\ PaidOK(k)
  BY DEF StudioInv, PlaceOK, ClaimOK
<1>2. \A z \in fate : z[1].by = k => todo[k] # <<>>
  BY DEF StudioInv, FateOK, Awaited, Waiting
<1> QED BY <1>1, <1>2 DEF ClaimPlaces

LEMMA ClaimTries ==
    ASSUME StudioInv, NEW k \in Call, todo[k] = <<>>, at[k] \in ClaimPlaces,
           NEW b, NEW p \in ClaimPlaces \cup {"returned", "stopped"}, NEW c \in [Failures -> Place],
           Try(k, b, p, c), UNCHANGED facts, round' \in [Call -> Nat],
           Knows(k), PricesKept(k),
           b = <<>> \/ (\E x : b = <<{x}>> /\ ClaimKind(k, x)),
           LoopOK(k)', PaidOK(k)'
    PROVE  Goes(k)
<1>1. Claims(k) /\ at[k] \notin {"idle", "position", "returned", "stopped"}
  BY AtClaims
<1>2. Claims(k)' /\ job' = job
  BY <1>1 DEF Claims, Try
<1>3. /\ at \in [Call -> Place] /\ IsOf(todo) /\ rescue \in [Call -> [Failures -> Place]]
      /\ stage[k] = "ready"
  BY DEF StudioInv, TypeOK, Shape, PlaceOK
<1>4. p \in Place /\ p \notin {"idle", "position"} \cup PositionPlaces \cup {"quoted"}
  BY DEF ClaimPlaces, PositionPlaces, Place
<1>5. /\ at' \in [Call -> Place] /\ at'[k] = p /\ \A j \in Call \ {k} : at'[j] = at[j]
      /\ rescue' \in [Call -> [Failures -> Place]]
      /\ \A j \in Call \ {k} : rescue'[j] = rescue[j]
  BY <1>3, <1>4 DEF Try
<1>6. IsOf(todo') /\ todo'[k] = b /\ \A j \in Call \ {k} : todo'[j] = todo[j]
  BY <1>3 DEF Try, IsOf
<1>7. IsQueue(b) /\ \A i \in DOMAIN b : \A x \in b[i] : ClaimKind(k, x)
  <2>1. CASE b = <<>>
    BY <2>1, QueueEmpty
  <2>2. CASE \E x : b = <<{x}>> /\ ClaimKind(k, x)
    <3>1. PICK x : b = <<{x}>> /\ ClaimKind(k, x)
      BY <2>2
    <3>2. IsQueue(b) /\ DOMAIN b = {1} /\ b[1] = {x}
      BY <3>1, QueueOne
    <3> QED BY <3>1, <3>2
  <2> QED BY <2>1, <2>2
<1>8. ASSUME NEW x, ClaimKind(k, x)
      PROVE  Sound(k, x)'
  <2>1. Mild(k, x)'
    BY <1>8 DEF ClaimKind, Mild, Local, Lasting
  <2> QED BY <1>8, <2>1 DEF ClaimKind, Sound
<1>9. QueueOK(k)'
  BY <1>6, <1>7, <1>8 DEF QueueOK
<1>10. PlaceOK(k)'
  BY <1>2, <1>3, <1>4, <1>5 DEF PlaceOK, Try
<1>11. ClaimOK(k)'
  BY DEF ClaimOK
<1>12. \A j \in Call \ {k} : Rests(j)
  BY <1>5, <1>6 DEF Rests, Try, Knows
<1>13. SameWorld /\ FilesNumbered
  BY DEF SameWorld, FilesNumbered
<1> QED BY <1>1, <1>4, <1>5, <1>6, <1>9, <1>10, <1>11, <1>12, <1>13 DEF Goes, Try

\* What a job knows of its mints depends on what it has seen.
LEMMA SameSeen ==
    ASSUME NEW k, seen'[k] = seen[k], job' = job
    PROVE  /\ Mints(k)' = Mints(k) /\ Left(k)' = Left(k) /\ Named(k)' = Named(k)
           /\ ExitsWithError(k)' <=> ExitsWithError(k)
           /\ \A m : Verdicts(k, m)' = Verdicts(k, m)
<1>1. Mints(k)' = Mints(k) /\ Left(k)' = Left(k) /\ Named(k)' = Named(k)
  BY DEF Mints, Left, Named, Verdicts
<1>2. \A m : Verdicts(k, m)' = Verdicts(k, m)
  BY DEF Verdicts
<1>3. ExitsWithError(k)' <=> ExitsWithError(k)
  BY <1>1, <1>2 DEF ExitsWithError, AnyFailed, NoneClaimed
<1> QED BY <1>1, <1>2, <1>3

LEMMA Settles ==
    ASSUME StudioInv, NEW k \in Call, at[k] \in Busy \cup {"claimNext"}, todo[k] = <<>>,
           NEW m \in Left(k), Named(k) \subseteq {m}, NEW verdict \in Verdict,
           verdict = "claimed" /\ job[k].cmd # "claimLeftovers" /\ ~job[k].dry => <<"paid", m, k>> \in facts,
           Settle(k, m, verdict)
    PROVE  Goes(k)
<1>1. at[k] \in ClaimPlaces
  BY DEF Busy, ClaimPlaces
<1>2. LoopOK(k) /\ PaidOK(k) /\ IsOf(seen) /\ IsOf(todo) /\ at \in [Call -> Place] /\ rescue \in [Call -> [Failures -> Place]]
      /\ round \in [Call -> Nat] /\ \A z \in fate : z[1].by # k
  BY <1>1, AtClaims DEF StudioInv, Shape, TypeOK
<1>3. /\ IsOf(seen') /\ \A j \in Call \ {k} : seen'[j] = seen[j]
      /\ seen'[k] = (seen[k] \ {<<"current", m>>}) \cup {<<verdict, m>>}
  BY <1>2 DEF Settle, IsOf
<1>4. Try(k, <<>>, "claimNext", Uncaught) /\ UNCHANGED <<facts, round, job, fate>>
  BY DEF Settle, Goto, Send, Try
<1>5. at'[k] = "claimNext" /\ todo'[k] = <<>> /\ rescue'[k] = Uncaught
  BY <1>2, <1>4 DEF Try, IsOf
<1>6. Knows(k) /\ PricesKept(k)
  BY <1>3 DEF Knows, PricesKept, Verdict
<1>7. Mints(k)' = Mints(k)
  BY <1>4 DEF Mints
<1>8. /\ \A n : n # m => Verdicts(k, n)' = Verdicts(k, n)
      /\ Verdicts(k, m)' = {verdict}
  BY <1>3 DEF Verdicts, Left, Verdict
<1>9. Named(k)' = {}
  <2>1. \A n : <<"current", n>> # <<verdict, m>>
    BY DEF Verdict
  <2> QED BY <1>3, <1>7, <2>1 DEF Named
<1>10. Uncaught \in [Failures -> Busy \cup {"stopped"}] /\ Uncaught \in [Failures -> Place]
       /\ \A f \in Failures : Uncaught[f] = "stopped"
  BY DEF Uncaught, CaughtAs, Place
<1>11. LoopOK(k)'
  BY SMTT(40), <1>2, <1>5, <1>7, <1>8, <1>9, <1>10 DEF LoopOK, Busy, ClaimPlaces
<1>12. PaidOK(k)'
  BY <1>2, <1>4, <1>5, <1>7, <1>8, <1>9, <1>10 DEF PaidOK, Busy
<1> QED BY <1>1, <1>2, <1>4, <1>6, <1>10, <1>11, <1>12, ClaimTries DEF ClaimPlaces

LEMMA TheCurrent ==
    ASSUME NEW k, LoopOK(k), at[k] \in Busy
    PROVE  Current(k) \in Left(k) /\ Current(k) \in Mints(k) /\ Named(k) = {Current(k)}
<1>1. PICK m \in Left(k) : Named(k) = {m}
  BY DEF LoopOK
<1>2. \A n \in Mints(k) : <<"current", n>> \in seen[k] <=> n = m
  BY Zenon, <1>1 DEF Named
<1>3. m \in Mints(k)
  BY DEF Left
<1>4. Current(k) = m
  BY <1>2, <1>3 DEF Current
<1> QED BY <1>1, <1>3, <1>4

\* The start of a job's loop: it knows no verdict but "skipped".
LEMMA StartsLoop ==
    ASSUME StudioInv, NEW k \in Call, At(k, "claims"), Knows(k), PricesKept(k),
           \A f \in seen'[k] : f[1] \in {"skipped", "fallback", "fee"}, Goto(k, "claimNext")
    PROVE  Goes(k)
<1>1. todo[k] = <<>> /\ at[k] = "claims" /\ at[k] \in ClaimPlaces
  BY DEF At, ClaimPlaces
<1>2. /\ LoopOK(k) /\ PaidOK(k) /\ IsOf(todo) /\ at \in [Call -> Place] /\ rescue \in [Call -> [Failures -> Place]]
      /\ round \in [Call -> Nat] /\ \A z \in fate : z[1].by # k
  BY <1>1, AtClaims DEF StudioInv, Shape, TypeOK
<1>3. Try(k, <<>>, "claimNext", Uncaught) /\ UNCHANGED <<facts, round, job, fate>>
  BY DEF Goto, Send, Try
<1>4. at'[k] = "claimNext" /\ todo'[k] = <<>> /\ rescue'[k] = Uncaught
  BY <1>2, <1>3 DEF Try, IsOf
<1>5. Uncaught \in [Failures -> Busy \cup {"stopped"}] /\ Uncaught \in [Failures -> Place]
      /\ \A f \in Failures : Uncaught[f] = "stopped"
  BY DEF Uncaught, CaughtAs, Place
<1>6. \A m : Verdicts(k, m)' \subseteq {"skipped"}
  BY DEF Verdicts, Verdict
<1>7. Named(k)' = {}
  BY DEF Named
<1>8. LoopOK(k)'
  BY <1>4, <1>5, <1>6, <1>7 DEF LoopOK, Busy, ClaimPlaces
<1>9. PaidOK(k)'
  BY <1>2, <1>3, <1>4, <1>5, <1>6, <1>7 DEF PaidOK, Busy
<1> QED BY <1>1, <1>2, <1>3, <1>5, <1>8, <1>9, ClaimTries DEF ClaimPlaces

\* A job turns to a mint that has no verdict yet.
LEMMA TakesMint ==
    ASSUME StudioInv, NEW k \in Call, At(k, "claimNext"), NEW m \in Left(k), Take(k, m)
    PROVE  /\ Knows(k) /\ PricesKept(k)
           /\ job' = job => /\ Mints(k)' = Mints(k) /\ Named(k)' = {m} /\ m \in Left(k)'
                            /\ \A n : Verdicts(k, n)' = Verdicts(k, n)
<1>1. LoopOK(k) /\ at[k] = "claimNext"
  BY AtClaims DEF At, ClaimPlaces
<1>2. Knows(k) /\ PricesKept(k) /\ seen'[k] = seen[k] \cup {<<"current", m>>}
  <2>1. \A f \in {<<"current", m>>} : f[1] # "file"
    OBVIOUS
  <2> QED BY <2>1, Learns DEF Take
<1>3. ASSUME job' = job
      PROVE  /\ Mints(k)' = Mints(k) /\ Named(k)' = {m} /\ m \in Left(k)'
             /\ \A n : Verdicts(k, n)' = Verdicts(k, n)
  <2>1. Mints(k)' = Mints(k)
    BY <1>3 DEF Mints
  <2>2. \A n : Verdicts(k, n)' = Verdicts(k, n)
    BY <1>2 DEF Verdicts, Verdict
  <2>3. Named(k)' = {m}
    BY <1>1, <1>2, <2>1 DEF LoopOK, Named, Left
  <2>4. m \in Left(k)'
    BY <2>1, <2>2 DEF Left
  <2> QED BY <2>1, <2>2, <2>3, <2>4
<1> QED BY <1>2, <1>3

LEMMA ClaimTxs ==
    ASSUME NEW k, NEW m, NEW n
    PROVE  /\ ClaimKind(k, LibClaim(k, m)) /\ ClaimKind(k, SdkClaim(k, m, n)) /\ ClaimKind(k, LeftoverTx(k, m, n))
           /\ \A x \in {LibClaim(k, m), SdkClaim(k, m, n)} :
                 x.without = {} /\ x.takes = <<0, 0>> /\ x.needs = {<<"curve", m>>} /\ <<"paid", m, k>> \in x.makes
<1>1. ASSUME NEW x \in {LibClaim(k, m), SdkClaim(k, m, n)}
      PROVE  /\ x.by = k /\ x.op \in {"claimTradingFee", "sdkClaim"} /\ x.without = {} /\ x.takes = <<0, 0>>
             /\ x.needs = {<<"curve", m>>} /\ x.makes = {<<"paid", m, k>>, <<"owed", m, 0>>}
             /\ x.drops = {<<"owed", m, i>> : i \in 1..2}
  <2>1. CASE x = LibClaim(k, m)
    BY <2>1 DEF LibClaim, Bare
  <2>2. CASE x = SdkClaim(k, m, n)
    BY <2>2 DEF SdkClaim, LibClaim, Bare
  <2> QED BY <2>1, <2>2
<1>2. ASSUME NEW x \in {LibClaim(k, m), SdkClaim(k, m, n)}
      PROVE  ClaimKind(k, x)
  <2>1. /\ x.by = k /\ x.op \in {"claimTradingFee", "sdkClaim"}
        /\ x.needs = {<<"curve", m>>} /\ x.makes = {<<"paid", m, k>>, <<"owed", m, 0>>}
        /\ x.drops = {<<"owed", m, i>> : i \in 1..2}
    BY <1>1
  <2> QED BY <2>1 DEF ClaimKind, Trades
<1>3. ASSUME NEW x, x = LeftoverTx(k, m, n)
      PROVE  ClaimKind(k, x)
  <2>1. /\ x.by = k /\ x.op = "claimLeftover"
        /\ x.needs = {<<"left", m>>} /\ x.makes = {<<"received", m>>} /\ x.drops = {<<"left", m>>}
    BY <1>3 DEF LeftoverTx, Bare
  <2> QED BY <2>1 DEF ClaimKind, Trades
<1> QED BY <1>1, <1>2, <1>3

LEMMA Catches ==
    ASSUME NEW k
    PROVE  /\ LibCatch(k) \in [Failures -> {"libFailed", "claimed"}]
           /\ \A f \in Failures : LibCatch(k)[f] = "claimed" => f = "failed"
           /\ SdkCatch \in [Failures -> {"sdkFailed", "sdkExpired"}]
           /\ [CaughtAs("claimed") EXCEPT !.send = "tryEntry"] \in [Failures -> Busy]
           /\ {"libFailed", "claimed", "sdkFailed", "sdkExpired", "tryEntry"} \subseteq Place
           /\ {"libFailed", "claimed", "sdkFailed", "sdkExpired", "tryEntry"} \subseteq Busy
BY DEF LibCatch, SdkCatch, CaughtAs, Failures, Place, ClaimPlaces, Busy

LEMMA SendsClaim ==
    ASSUME StudioInv, NEW k \in Call, at[k] \in ClaimPlaces, todo[k] = <<>>, Knows(k), PricesKept(k),
           NEW m, Mints(k)' = Mints(k), Named(k)' = {m}, m \in Left(k)',
           \A n : Verdicts(k, n)' = Verdicts(k, n),
           NEW x, ClaimKind(k, x), NEW c \in [Failures -> Busy],
           Try(k, <<{x}>>, "claimed", c), UNCHANGED facts, round' \in [Call -> Nat],
           job[k].cmd # "claimLeftovers" /\ ~job[k].dry =>
               /\ x.without = {} /\ x.takes = <<0, 0>> /\ x.needs = {<<"curve", m>>}
               /\ <<"paid", m, k>> \in x.makes /\ <<"curve", m>> \in facts
               /\ \A f \in Failures : c[f] # "tryEntry" /\ (c[f] = "claimed" => f = "failed")
    PROVE  Goes(k)
<1>1. /\ LoopOK(k) /\ PaidOK(k) /\ IsOf(todo) /\ at \in [Call -> Place]
      /\ rescue \in [Call -> [Failures -> Place]] /\ \A z \in fate : z[1].by # k
  BY AtClaims DEF StudioInv, Shape, TypeOK
<1>2. c \in [Failures -> Place] /\ c \in [Failures -> Busy \cup {"stopped"}]
  <2>1. Busy \subseteq Place
    BY DEF Busy, Place, ClaimPlaces
  <2> QED BY <2>1
<1>3. at'[k] = "claimed" /\ todo'[k] = <<{x}>> /\ rescue'[k] = c /\ job' = job /\ fate' = fate
  BY <1>1 DEF Try, IsOf
<1>4. todo'[k] # <<>> /\ Batch(k)' = {x}
  BY <1>3 DEF Batch
<1>5. "claimed" \in Busy /\ "claimed" \in ClaimPlaces
  BY DEF Busy, ClaimPlaces
<1>6. LoopOK(k)'
  <2>1. \A n \in Mints(k)' : \A v, w \in Verdicts(k, n)' : v = w
    BY <1>1 DEF LoopOK
  <2> QED BY <1>2, <1>3, <1>5, <2>1 DEF LoopOK
<1>7. PaidOK(k)'
  <2> SUFFICES ASSUME job[k].cmd # "claimLeftovers", ~job[k].dry
               PROVE  PaidOK(k)'
    BY <1>3 DEF PaidOK
  <2>1. Claim(k, x)'
    <3>1. <<"curve", m>>[1] = "curve"
      OBVIOUS
    <3> QED BY <3>1 DEF Claim
  <2>2. \A n \in Mints(k)' : "claimed" \in Verdicts(k, n)' => <<"paid", n, k>> \in facts'
    BY <1>1 DEF PaidOK
  <2>3. \E y \in Batch(k)' : todo'[k] = <<{y}>> /\ Claim(k, y)'
    BY <1>3, <1>4, <2>1
  <2> QED BY <1>1, <1>3, <1>4, <1>5, <2>2, <2>3 DEF PaidOK
<1>8. \E y : <<{x}>> = <<{y}>> /\ ClaimKind(k, y)
  OBVIOUS
<1> QED BY <1>1, <1>2, <1>5, <1>6, <1>7, <1>8, ClaimTries

LEMMA ClaimGoes ==
    ASSUME StudioInv, NEW k \in Call, ClaimStep(k)
    PROVE  Goes(k)
<1>1. ASSUME StartList(k) PROVE Goes(k)
  <2>1. At(k, "claims") /\ Knows(k) /\ PricesKept(k) /\ seen'[k] = seen[k] /\ Goto(k, "claimNext")
    BY <1>1, Learns DEF StartList
  <2>2. seen[k] = {}
    BY <2>1, AtClaims DEF At, ClaimPlaces, LoopOK
  <2> QED BY <2>1, <2>2, StartsLoop
<1>2. ASSUME StartAuto(k) PROVE Goes(k)
  <2> DEFINE none == {<<"skipped", m>> : m \in {n \in Mints(k) : <<"curve", n>> \notin facts}}
  <2>5. Keep(k, none) \/ Keep(k, {<<"fallback", 0>>})
    BY <1>2 DEF StartAuto
  <2>6. ASSUME NEW f \in none
        PROVE  f[1] = "skipped"
    <3>1. PICK m : f = <<"skipped", m>>
      OBVIOUS
    <3> QED BY <3>1
  <2>7. \A f \in {<<"fallback", 0>>} : f[1] = "fallback"
    OBVIOUS
  <2> HIDE DEF none
  <2>1. PICK s : Keep(k, s) /\ \A f \in s : f[1] \in {"skipped", "fallback"}
    BY <2>5, <2>6, <2>7
  <2>2. Knows(k) /\ PricesKept(k) /\ seen'[k] = seen[k] \cup s
    BY <2>1, Learns
  <2>3. At(k, "claims") /\ Goto(k, "claimNext")
    BY <1>2 DEF StartAuto
  <2>4. seen[k] = {}
    BY <2>3, AtClaims DEF At, ClaimPlaces, LoopOK
  <2> QED BY <2>1, <2>2, <2>3, <2>4, StartsLoop
<1>3. ASSUME StartSdk(k) PROVE Goes(k)
  <2> DEFINE fees(unread) ==
                 {<<"fee", z[1], IF z[1] \in unread THEN Unknown ELSE z[2]>> :
                     z \in {y \in Mints(k) \X (0..2) : <<"owed", y[1], y[2]>> \in facts}}
  <2>5. PICK unread : Keep(k, fees(unread))
    BY <1>3 DEF StartSdk
  <2>6. ASSUME NEW f \in fees(unread)
        PROVE  f[1] = "fee"
    <3>1. PICK m, n : f = <<"fee", m, n>>
      OBVIOUS
    <3> QED BY <3>1
  <2> HIDE DEF fees
  <2>1. PICK s : Keep(k, s) /\ \A f \in s : f[1] = "fee"
    BY <2>5, <2>6
  <2>2. Knows(k) /\ PricesKept(k) /\ seen'[k] = seen[k] \cup s
    BY <2>1, Learns
  <2>3. At(k, "claims") /\ Goto(k, "claimNext")
    BY <1>3 DEF StartSdk
  <2>4. seen[k] = {}
    BY <2>3, AtClaims DEF At, ClaimPlaces, LoopOK
  <2> QED BY <2>1, <2>2, <2>3, <2>4, StartsLoop
<1>4. ASSUME ClaimByLib(k) PROVE Goes(k)
  <2>1. At(k, "claimNext") /\ job[k].cmd # "claimLeftovers"
    BY <1>4 DEF ClaimByLib
  <2>2. PICK m \in Mints(k) :
           /\ Turn(k, m)
           /\ IF <<"curve", m>> \in facts
              THEN /\ Take(k, m)
                   /\ Try(k, <<{LibClaim(k, m)}>>, "claimed", LibCatch(k)) /\ UNCHANGED <<facts, round>>
              ELSE Settle(k, m, "failed")
    BY <1>4 DEF ClaimByLib
  <2>3. m \in Left(k)
    BY <2>2 DEF Turn
  <2>4. at[k] \in ClaimPlaces /\ todo[k] = <<>> /\ at[k] = "claimNext" /\ Named(k) = {}
    <3>1. at[k] \in ClaimPlaces /\ todo[k] = <<>> /\ at[k] = "claimNext"
      BY <2>1 DEF At, ClaimPlaces
    <3> QED BY <3>1, AtClaims DEF LoopOK
  <2>5. CASE <<"curve", m>> \in facts
    <3>1. Take(k, m) /\ Try(k, <<{LibClaim(k, m)}>>, "claimed", LibCatch(k)) /\ UNCHANGED <<facts, round>>
      BY <2>2, <2>5
    <3>2. job' = job
      BY <3>1 DEF Try
    <3>3. /\ Knows(k) /\ PricesKept(k) /\ Mints(k)' = Mints(k) /\ Named(k)' = {m} /\ m \in Left(k)'
          /\ \A n : Verdicts(k, n)' = Verdicts(k, n)
      BY <2>1, <2>3, <3>1, <3>2, TakesMint
    <3>4. LibCatch(k) \in [Failures -> Busy] /\ \A f \in Failures : LibCatch(k)[f] # "tryEntry" /\ (LibCatch(k)[f] = "claimed" => f = "failed")
      BY Catches
    <3>5. round' \in [Call -> Nat]
      BY <3>1 DEF StudioInv, TypeOK
    <3> DEFINE x == LibClaim(k, m)
               c == LibCatch(k)
    <3>6. ClaimKind(k, x) /\ x.without = {} /\ x.takes = <<0, 0>> /\ x.needs = {<<"curve", m>>} /\ <<"paid", m, k>> \in x.makes
      BY ClaimTxs
    <3>7. Try(k, <<{x}>>, "claimed", c)
      BY <3>1
    <3>8. c \in [Failures -> Busy] /\ \A f \in Failures : c[f] # "tryEntry" /\ (c[f] = "claimed" => f = "failed")
      BY <3>4
    <3> HIDE DEF x, c
    <3> QED BY <2>4, <2>5, <3>1, <3>3, <3>5, <3>6, <3>7, <3>8, SendsClaim
  <2>6. CASE <<"curve", m>> \notin facts
    BY <2>2, <2>3, <2>4, <2>6, Settles DEF Verdict
  <2> QED BY <2>5, <2>6
\* At a mint the job is busy with.
<1>5. ASSUME at[k] \in Busy, todo[k] = <<>>
      PROVE  /\ at[k] \in ClaimPlaces /\ LoopOK(k) /\ PaidOK(k)
             /\ Current(k) \in Left(k) /\ Named(k) = {Current(k)}
  <2>1. at[k] \in ClaimPlaces
    BY <1>5 DEF Busy, ClaimPlaces
  <2> QED BY <1>5, <2>1, AtClaims, TheCurrent
<1>6. ASSUME at[k] \in Busy, todo[k] = <<>>, NEW verdict \in Verdict \ {"claimed"}, Settle(k, Current(k), verdict)
      PROVE  Goes(k)
  BY <1>5, <1>6, Settles
<1>7. ASSUME SkipMint(k) PROVE Goes(k)
  <2>1. at[k] = "claimNext" /\ todo[k] = <<>> /\ at[k] \in ClaimPlaces
    BY <1>7 DEF SkipMint, At, ClaimPlaces
  <2>2. Named(k) = {}
    BY <2>1, AtClaims DEF LoopOK
  <2>3. PICK m \in Left(k) : Settle(k, m, "skipped")
    BY <1>7 DEF SkipMint, Turn
  <2> QED BY <2>1, <2>2, <2>3, Settles DEF Verdict
<1>8. ASSUME Claimed(k) PROVE Goes(k)
  <2>1. at[k] = "claimed" /\ todo[k] = <<>> /\ at[k] \in Busy /\ Settle(k, Current(k), "claimed")
    BY <1>8 DEF Claimed, At, Busy
  <2>2. job[k].cmd # "claimLeftovers" /\ ~job[k].dry => <<"paid", Current(k), k>> \in facts
    BY <1>5, <2>1 DEF PaidOK
  <2> QED BY <1>5, <2>1, <2>2, Settles DEF Verdict
\* The next attempt at the same mint.
<1>9. ASSUME at[k] \in Busy, todo[k] = <<>>, Nothing, job' = job
      PROVE  /\ Knows(k) /\ PricesKept(k) /\ Mints(k)' = Mints(k) /\ Named(k)' = {Current(k)}
             /\ Current(k) \in Left(k)' /\ \A n : Verdicts(k, n)' = Verdicts(k, n)
  <2>1. Knows(k) /\ PricesKept(k) /\ seen'[k] = seen[k]
    BY <1>9, Learns
  <2> QED BY <1>5, <1>9, <2>1, SameSeen
<1>10. ASSUME at[k] \in {"libFailed", "sdkExpired"}, todo[k] = <<>>, Nothing, UNCHANGED facts,
              round' \in [Call -> Nat], NEW n, Try(k, <<{SdkClaim(k, Current(k), n)}>>, "claimed", SdkCatch)
       PROVE  Goes(k)
  <2>1. at[k] \in Busy /\ job' = job
    BY <1>10 DEF Busy, Try
  <2>2. job[k].cmd # "claimLeftovers" /\ ~job[k].dry => <<"curve", Current(k)>> \in facts
    BY <1>5, <1>10, <2>1 DEF PaidOK
  <2> DEFINE x == SdkClaim(k, Current(k), n)
             m == Current(k)
  <2>3. /\ ClaimKind(k, x) /\ x.without = {} /\ x.takes = <<0, 0>> /\ x.needs = {<<"curve", m>>}
        /\ <<"paid", m, k>> \in x.makes
    BY ClaimTxs
  <2>4. SdkCatch \in [Failures -> Busy] /\ \A f \in Failures : SdkCatch[f] \notin {"tryEntry", "claimed"}
    BY Catches
  <2>5. Try(k, <<{x}>>, "claimed", SdkCatch)
    BY <1>10
  <2>6. /\ at[k] \in ClaimPlaces /\ Knows(k) /\ PricesKept(k) /\ Mints(k)' = Mints(k) /\ Named(k)' = {m}
        /\ m \in Left(k)' /\ \A i : Verdicts(k, i)' = Verdicts(k, i)
    BY <1>5, <1>9, <1>10, <2>1
  <2>7. job[k].cmd # "claimLeftovers" /\ ~job[k].dry => <<"curve", m>> \in facts
    BY <2>2
  <2> HIDE DEF x, m
  <2> QED BY <1>10, <2>3, <2>4, <2>5, <2>6, <2>7, SendsClaim
<1>11. ASSUME LibFailed(k) PROVE Goes(k)
  <2>1. at[k] = "libFailed" /\ todo[k] = <<>> /\ at[k] \in Busy
    BY <1>11 DEF LibFailed, At, Busy
  <2>2. CASE job[k].cmd = "claimSdk"
    <3>1. /\ Try(k, <<{SdkClaim(k, Current(k), 1)}>>, "claimed", SdkCatch)
          /\ round' = [round EXCEPT ![k] = 1] /\ UNCHANGED facts /\ Nothing
      BY <1>11, <2>2 DEF LibFailed
    <3>2. round' \in [Call -> Nat]
      BY <3>1 DEF StudioInv, TypeOK
    <3> QED BY <1>10, <2>1, <3>1, <3>2
  <2>3. CASE job[k].cmd # "claimSdk"
    BY <1>6, <1>11, <2>1, <2>3 DEF LibFailed, Verdict
  <2> QED BY <2>2, <2>3
<1>12. ASSUME SdkRetry(k) PROVE Goes(k)
  <2>1. at[k] = "sdkExpired" /\ todo[k] = <<>> /\ Nothing /\ UNCHANGED facts
    BY <1>12 DEF SdkRetry, At
  <2>2. Try(k, <<{SdkClaim(k, Current(k), round[k] + 1)}>>, "claimed", SdkCatch)
    BY <1>12 DEF SdkRetry
  <2>3. round' \in [Call -> Nat]
    BY <1>12 DEF SdkRetry, StudioInv, TypeOK
  <2> QED BY <1>10, <2>1, <2>2, <2>3
<1>13. ASSUME SdkGivesUp(k) PROVE Goes(k)
  <2>1. at[k] \in Busy /\ todo[k] = <<>> /\ Settle(k, Current(k), "failed")
    BY <1>13 DEF SdkGivesUp, At, Busy
  <2> QED BY <1>6, <2>1 DEF Verdict
<1>14. ASSUME NothingLeft(k) PROVE Goes(k)
  <2>1. at[k] \in Busy /\ todo[k] = <<>> /\ Settle(k, Current(k), "noop")
    BY <1>14 DEF NothingLeft, At, Busy
  <2> QED BY <1>6, <2>1 DEF Verdict
<1>15. ASSUME NoEntryLeft(k) PROVE Goes(k)
  <2>1. at[k] \in Busy /\ todo[k] = <<>> /\ Settle(k, Current(k), "failed")
    BY <1>15 DEF NoEntryLeft, At, Busy
  <2> QED BY <1>6, <2>1 DEF Verdict
<1>16. ASSUME NextLeftover(k) PROVE Goes(k)
  <2>1. At(k, "claimNext") /\ at[k] \in ClaimPlaces /\ todo[k] = <<>> /\ job[k].cmd = "claimLeftovers"
    BY <1>16 DEF NextLeftover, At, ClaimPlaces
  <2>2. PICK m \in Left(k) : Take(k, m)
    BY <1>16 DEF NextLeftover, Turn
  <2>3. /\ Try(k, <<>>, "tryEntry", Uncaught) /\ UNCHANGED facts /\ round' \in [Call -> Nat]
        /\ job' = job
    BY <1>16 DEF NextLeftover, Try, StudioInv, TypeOK
  <2>4. /\ Knows(k) /\ PricesKept(k) /\ Mints(k)' = Mints(k) /\ Named(k)' = {m} /\ m \in Left(k)'
        /\ \A n : Verdicts(k, n)' = Verdicts(k, n)
    BY <2>1, <2>2, <2>3, TakesMint
  <2>5. /\ LoopOK(k) /\ IsOf(todo) /\ at \in [Call -> Place] /\ rescue \in [Call -> [Failures -> Place]]
    BY <2>1, AtClaims DEF StudioInv, Shape, TypeOK
  <2>6. at'[k] = "tryEntry" /\ todo'[k] = <<>> /\ rescue'[k] = Uncaught
    BY <2>3, <2>5 DEF Try, IsOf
  <2>7. Uncaught \in [Failures -> Busy \cup {"stopped"}] /\ Uncaught \in [Failures -> Place]
    BY DEF Uncaught, CaughtAs, Place
  <2>8. \A n \in Mints(k)' : \A v, w \in Verdicts(k, n)' : v = w
    BY <2>4, <2>5 DEF LoopOK
  <2>9. "tryEntry" \in Busy /\ "tryEntry" \in ClaimPlaces
    BY DEF Busy, ClaimPlaces
  <2>10. LoopOK(k)'
    BY <2>4, <2>6, <2>7, <2>8, <2>9 DEF LoopOK
  <2>11. PaidOK(k)'
    BY <2>1, <2>3 DEF PaidOK
  <2> QED BY <2>1, <2>3, <2>4, <2>7, <2>9, <2>10, <2>11, ClaimTries
<1>17. ASSUME TryEntry(k) PROVE Goes(k)
  <2>1. at[k] = "tryEntry" /\ at[k] \in Busy /\ todo[k] = <<>> /\ Nothing /\ UNCHANGED facts
    BY <1>17 DEF TryEntry, At, Busy
  <2> DEFINE x == LeftoverTx(k, Current(k), round[k])
             c == [CaughtAs("claimed") EXCEPT !.send = "tryEntry"]
             m == Current(k)
  <2>2. Try(k, <<{x}>>, "claimed", c) /\ job' = job
    BY <1>17 DEF TryEntry, Try
  <2>3. round' \in [Call -> Nat]
    BY <1>17 DEF TryEntry, StudioInv, TypeOK
  <2>4. job[k].cmd = "claimLeftovers" \/ job[k].dry
    BY <1>5, <2>1 DEF PaidOK
  <2>5. ClaimKind(k, x) /\ c \in [Failures -> Busy]
    <3>1. ClaimKind(k, LeftoverTx(k, m, round[k]))
      BY ClaimTxs
    <3>2. c \in [Failures -> Busy]
      BY Catches
    <3> QED BY <3>1, <3>2
  <2>6. /\ at[k] \in ClaimPlaces /\ Knows(k) /\ PricesKept(k) /\ Mints(k)' = Mints(k) /\ Named(k)' = {m}
        /\ m \in Left(k)' /\ \A i : Verdicts(k, i)' = Verdicts(k, i)
    BY <1>5, <1>9, <2>1, <2>2
  <2> HIDE DEF x, m, c
  <2> QED BY <2>1, <2>2, <2>3, <2>4, <2>5, <2>6, SendsClaim
<1>18. ASSUME FinishClaims(k) PROVE Goes(k)
  <2>1. at[k] = "claimNext" /\ at[k] \in ClaimPlaces /\ todo[k] = <<>> /\ Left(k) = {} /\ Nothing
    BY <1>18 DEF FinishClaims, At, ClaimPlaces
  <2>2. PICK p \in {"stopped", "returned"} : Goto(k, p) /\ (p = "returned" => ~ExitsWithError(k))
    BY <1>18 DEF FinishClaims
  <2>3. Try(k, <<>>, p, Uncaught) /\ UNCHANGED <<facts, job, fate>> /\ round' \in [Call -> Nat]
    BY <2>2 DEF Goto, Send, Try, StudioInv, TypeOK
  <2>4. Knows(k) /\ PricesKept(k) /\ seen'[k] = seen[k]
    BY <2>1, Learns
  <2>5. /\ Mints(k)' = Mints(k) /\ Left(k)' = Left(k) /\ Named(k)' = Named(k)
        /\ ExitsWithError(k)' <=> ExitsWithError(k)
        /\ \A m : Verdicts(k, m)' = Verdicts(k, m)
    BY <2>3, <2>4, SameSeen
  <2>6. /\ LoopOK(k) /\ PaidOK(k) /\ IsOf(todo) /\ at \in [Call -> Place] /\ rescue \in [Call -> [Failures -> Place]]
        /\ \A z \in fate : z[1].by # k
    BY <2>1, AtClaims DEF StudioInv, Shape, TypeOK
  <2>7. at'[k] = p /\ todo'[k] = <<>> /\ rescue'[k] = Uncaught
    BY <2>3, <2>6 DEF Try, IsOf
  <2>8. /\ Uncaught \in [Failures -> Busy \cup {"stopped"}] /\ Uncaught \in [Failures -> Place]
        /\ \A f \in Failures : Uncaught[f] = "stopped"
    BY DEF Uncaught, CaughtAs, Place
  <2>9. \A n \in Mints(k)' : \A v, w \in Verdicts(k, n)' : v = w
    BY <2>5, <2>6 DEF LoopOK
  <2>10. p \notin Busy \cup {"idle", "claims", "claimNext", "claimed", "tryEntry"}
    BY DEF Busy
  <2>11. LoopOK(k)'
    BY <2>1, <2>2, <2>5, <2>7, <2>8, <2>9, <2>10 DEF LoopOK
  <2>12. PaidOK(k)'
    BY <2>3, <2>5, <2>6, <2>7, <2>8, <2>10 DEF PaidOK
  <2> QED BY <2>1, <2>3, <2>4, <2>8, <2>11, <2>12, ClaimTries
<1> QED BY <1>1, <1>2, <1>3, <1>4, <1>7, <1>8, <1>11, <1>12, <1>13, <1>14, <1>15, <1>16, <1>17, <1>18 DEF ClaimStep

\* A command enters its code.
LEMMA Enters ==
    ASSUME StudioInv, NEW k \in Call, at[k] = "idle", Nothing,
           NEW p \in Place, Try(k, <<>>, p, Uncaught), UNCHANGED <<facts, round, job>>,
           p \notin PositionPlaces \cup {"idle", "quoted"},
           p = "position" => job[k].cmd \in PositionCommands,
           Claims(k) => p = "claims", ~Claims(k) => p \notin ClaimPlaces
    PROVE  Goes(k)
<1>1. /\ todo[k] = <<>> /\ stage[k] = "ready"
      /\ IsOf(todo) /\ at \in [Call -> Place] /\ rescue \in [Call -> [Failures -> Place]]
      /\ round \in [Call -> Nat] /\ \A z \in fate : z[1].by # k
  BY DEF StudioInv, TypeOK, Shape, PlaceOK, FateOK, Awaited, Waiting
<1>2. Knows(k) /\ PricesKept(k) /\ seen'[k] = seen[k]
  BY Learns
<1>3. /\ Uncaught \in [Failures -> Busy \cup {"stopped"}] /\ Uncaught \in [Failures -> Place]
      /\ \A f \in Failures : Uncaught[f] = "stopped"
  BY DEF Uncaught, CaughtAs, Place
<1>4. /\ at' \in [Call -> Place] /\ at'[k] = p /\ \A j \in Call \ {k} : at'[j] = at[j]
      /\ rescue' \in [Call -> [Failures -> Place]] /\ rescue'[k] = Uncaught
      /\ \A j \in Call \ {k} : rescue'[j] = rescue[j]
  BY <1>1, <1>3 DEF Try
<1>5. IsOf(todo') /\ todo'[k] = <<>> /\ \A j \in Call \ {k} : todo'[j] = todo[j]
  BY <1>1 DEF Try, IsOf
<1>6. \A j \in Call \ {k} : Rests(j)
  BY <1>2, <1>4, <1>5 DEF Rests, Try, Knows
<1>7. QueueOK(k)'
  BY <1>5, QueueEmpty DEF QueueOK
<1>8. Claims(k)' <=> Claims(k)
  BY DEF Claims
<1>9. PlaceOK(k)'
  BY <1>1, <1>4, <1>5, <1>8 DEF PlaceOK, Try
<1>10. ClaimOK(k)'
  <2> SUFFICES ASSUME Claims(k)
               PROVE  LoopOK(k)' /\ PaidOK(k)'
    BY <1>8 DEF ClaimOK
  <2>1. LoopOK(k) /\ PaidOK(k) /\ p = "claims"
    BY DEF StudioInv, ClaimOK
  <2>2. /\ Mints(k)' = Mints(k) /\ Named(k)' = Named(k)
        /\ \A m : Verdicts(k, m)' = Verdicts(k, m)
    BY <1>2, SameSeen
  <2>3. \A m \in Mints(k)' : \A v, w \in Verdicts(k, m)' : v = w
    BY <2>1, <2>2 DEF LoopOK
  <2>4. LoopOK(k)'
    BY <1>2, <1>3, <1>4, <1>5, <2>1, <2>3 DEF LoopOK, Busy, ClaimPlaces
  <2>5. PaidOK(k)'
    BY <1>1, <1>3, <1>4, <1>5, <2>1, <2>2 DEF PaidOK, Busy, Try
  <2> QED BY <2>4, <2>5
<1>11. SameWorld /\ FilesNumbered /\ round' \in [Call -> Nat]
  BY <1>1 DEF SameWorld, FilesNumbered
<1>12. at'[k] # "idle" /\ at[k] \notin {"returned", "stopped"}
  BY <1>4
<1> QED BY <1>1, <1>2, <1>4, <1>5, <1>6, <1>7, <1>9, <1>10, <1>11, <1>12 DEF Goes, Try

LEMMA StartGoes ==
    ASSUME StudioInv, NEW k \in Call, Start(k)
    PROVE  Goes(k)
<1> DEFINE p == Entry(job[k].cmd)
<1>1. at[k] = "idle" /\ Nothing /\ Try(k, <<>>, p, Uncaught) /\ UNCHANGED <<facts, round, job>>
  BY DEF Start, Goto, Send, Try
<1>2. /\ todo[k] = <<>> /\ stage[k] = "ready" /\ job[k].cmd \in Commands
      /\ IsOf(todo) /\ at \in [Call -> Place] /\ rescue \in [Call -> [Failures -> Place]]
      /\ round \in [Call -> Nat] /\ \A z \in fate : z[1].by # k
  BY <1>1 DEF StudioInv, TypeOK, Shape, PlaceOK, FateOK, Awaited, Waiting
<1>3. CASE job[k].cmd \in PositionCommands
  <2>1. p = "position"
    BY <1>3 DEF Entry, PositionCommands, ClaimCommands
  <2>2. ~Claims(k)
    BY <1>3 DEF Claims, PositionCommands, ClaimCommands
  <2>3. p \in Place /\ p \notin ClaimPlaces \cup PositionPlaces \cup {"idle", "quoted"}
    BY <2>1 DEF Place, ClaimPlaces, PositionPlaces
  <2> HIDE DEF p
  <2> QED BY <1>1, <1>3, <2>2, <2>3, Enters
<1>4. CASE job[k].cmd \in ClaimCommands
  <2>1. p = "claims" /\ Claims(k)
    BY <1>4 DEF Entry, PositionCommands, ClaimCommands, Claims
  <2>2. p \in Place /\ p \notin PositionPlaces \cup {"idle", "position", "quoted"}
    BY <2>1 DEF Place, ClaimPlaces, PositionPlaces
  <2> HIDE DEF p
  <2> QED BY <1>1, <2>1, <2>2, Enters
<1>5. CASE job[k].cmd \in PoolCommands \cup {"vault"}
  <2>1. p = job[k].cmd
    BY <1>5 DEF Entry, PositionCommands, ClaimCommands, PoolCommands
  <2>2. ~Claims(k)
    BY <1>5 DEF Claims, PoolCommands, ClaimCommands
  <2>3. p \in Place /\ p \notin ClaimPlaces \cup PositionPlaces \cup {"idle", "position", "quoted"}
    BY <1>5, <2>1 DEF Place, PoolPlaces, VaultPlaces, PoolCommands, ClaimPlaces, PositionPlaces
  <2> HIDE DEF p
  <2> QED BY <1>1, <2>2, <2>3, Enters
<1> QED BY <1>2, <1>3, <1>4, <1>5 DEF Commands

(***************************************************************************)
(* A call sends, waits, fails or ends.                                     *)
(***************************************************************************)

\* What it sends is its own; what the node answered it is heard once.
Heard(k) ==
    /\ \A x \in pending' : x \in pending \/ Sound(k, x)
    /\ \A z \in fate' : z \in fate /\ z[1].by # k
Moves(k) ==
    /\ UNCHANGED <<facts, seen, job>> /\ Heard(k)
    /\ at'[k] \notin {"idle", "position"}
    /\ \A j \in Call \ {k} : Rests(j)
    /\ at' \in [Call -> Place] /\ rescue' \in [Call -> [Failures -> Place]]
    /\ stage' \in [Call -> {"ready", "sent"}] /\ round' = round /\ IsOf(todo')
    /\ PlaceOK(k)' /\ QueueOK(k)' /\ OrderOK(k)' /\ ClaimOK(k)'

LEMMA MovesOn ==
    ASSUME StudioInv, NEW k \in Call, Moves(k)
    PROVE  StudioInv'
<1>1. ASSUME NEW x, NEW j, Sound(j, x)
      PROVE  Sound(j, x)'
  BY <1>1, SoundKept DEF Moves, PricesKept
<1>2. ASSUME NEW j \in Call
      PROVE  PlaceOK(j)' /\ QueueOK(j)' /\ OrderOK(j)' /\ ClaimOK(j)'
  <2>1. CASE j = k
    BY <2>1 DEF Moves
  <2>2. CASE j # k
    <3>1. Rests(j)
      BY <2>2 DEF Moves
    <3>2. PlaceOK(j) /\ QueueOK(j) /\ OrderOK(j) /\ ClaimOK(j)
      BY DEF StudioInv
    <3>3. ClaimOK(j)'
      <4>1. (\A f \in facts : f \in facts') /\ \A z \in fate' : z \in fate
        BY DEF Moves, Heard
      <4> QED BY <3>1, <3>2, <4>1, RestsClaim
    <3>4. OrderOK(j)'
      <4>1. \A y \in pending' : y.by = j => y \in pending
        BY <2>2 DEF Moves, Heard, Sound
      <4> QED BY <3>1, <3>2, <4>1 DEF OrderOK, Waiting, Batch, Rests, Claims
    <3> QED BY <3>1, <3>2, <3>3, <3>4, RestsPlace
  <2> QED BY <2>1, <2>2
<1>3. ASSUME NEW x \in pending'
      PROVE  x.by \in Call /\ at'[x.by] \notin {"idle", "position"} /\ Sound(x.by, x)'
  <2>1. CASE x \in pending
    <3>1. x.by \in Call /\ at[x.by] \notin {"idle", "position"} /\ Sound(x.by, x)
      BY <2>1 DEF StudioInv, PendingOK
    <3> QED BY <1>1, <3>1 DEF Moves, Rests
  <2>2. CASE Sound(k, x)
    <3>1. x.by = k
      BY <2>2 DEF Sound
    <3> QED BY <1>1, <2>2, <3>1 DEF Moves
  <2> QED BY <2>1, <2>2 DEF Moves, Heard
<1>4. TypeOK'
  <2>1. ASSUME NEW j \in Call, NEW i \in DOMAIN todo'[j], NEW x \in todo'[j][i]
        PROVE  x.by = j
    BY <1>2 DEF QueueOK, Sound
  <2> QED BY <1>3, <2>1 DEF StudioInv, TypeOK, Moves, Heard
<1>5. Shape' /\ FilesOK' /\ PriceOK'
  BY DEF StudioInv, Shape, FilesOK, PriceOK, Moves
<1>6. PendingOK'
  BY <1>3 DEF PendingOK
<1>7. TradedOK'
  <2>1. \A j \in Call : at[j] \notin {"idle", "position"} => at'[j] \notin {"idle", "position"}
    BY DEF Moves, Rests
  <2> QED BY <2>1 DEF StudioInv, TradedOK, Moves
<1>8. FateOK'
  <2>1. ASSUME NEW z \in fate'
        PROVE  /\ z[2] \in Outcome /\ z[1].by \in Call
               /\ Awaited(z[1])' /\ z[1] \notin pending'
               /\ z[2] = "ok" => \A f \in z[1].makes : f[1] \in Lasting => f \in facts'
    <3>1. /\ z \in fate /\ z[1].by # k
      BY DEF Moves, Heard
    <3>2. /\ z[2] \in Outcome /\ z[1].by \in Call
          /\ Awaited(z[1]) /\ z[1] \notin pending
          /\ z[2] = "ok" => \A f \in z[1].makes : f[1] \in Lasting => f \in facts
      BY <3>1 DEF StudioInv, FateOK
    <3>3. Rests(z[1].by)
      BY <3>1, <3>2 DEF Moves
    <3>4. Awaited(z[1])'
      BY <3>2, <3>3 DEF Awaited, Waiting, Batch, Rests
    <3>5. z[1] \notin pending'
      BY <3>1, <3>2 DEF Moves, Heard, Sound
    <3> QED BY <3>2, <3>4, <3>5 DEF Moves
  <2> QED BY <2>1 DEF FateOK
<1> QED BY <1>2, <1>4, <1>5, <1>6, <1>7, <1>8 DEF StudioInv

\* Where a call can be that is about to send or waits.
LEMMA HasBatch ==
    ASSUME StudioInv, NEW k \in Call, todo[k] # <<>>
    PROVE  /\ at[k] \notin {"idle", "position"} /\ IsQueue(todo[k])
           /\ \A x \in Batch(k) : Sound(k, x) /\ x.by = k
           /\ ~Waiting(k) => /\ \A z \in fate : z[1].by # k
                             /\ ~Claims(k) => \A y \in pending : y.by # k
           /\ Claims(k) => LoopOK(k) /\ PaidOK(k) /\ at[k] = "claimed"
<1>1. at[k] \notin {"idle", "position"} /\ IsQueue(todo[k])
  BY DEF StudioInv, PlaceOK, QueueOK
<1>2. 1 \in DOMAIN todo[k]
  BY <1>1, QueueTail
<1>3. \A x \in Batch(k) : Sound(k, x) /\ x.by = k
  BY SMTT(40), <1>2 DEF StudioInv, QueueOK, Sound, Batch
<1>4. ~Waiting(k) => \A z \in fate : z[1].by # k
  BY DEF StudioInv, FateOK, Awaited
<1>5. ~Waiting(k) /\ ~Claims(k) => \A y \in pending : y.by # k
  BY DEF StudioInv, OrderOK
<1>6. Claims(k) => LoopOK(k) /\ PaidOK(k) /\ at[k] = "claimed"
  BY DEF StudioInv, ClaimOK, LoopOK
<1> QED BY <1>1, <1>3, <1>4, <1>5, <1>6

\* It goes on with what is left to send.
LEMMA SendsNext ==
    ASSUME StudioInv, NEW k \in Call, todo[k] # <<>>, Next1(k), UNCHANGED <<facts, pending>>, Heard(k),
           ~Claims(k) => \A y \in pending : y.by # k,
           ~job[k].dry => \A x \in Batch(k) : \A f \in x.makes : f[1] \in Lasting => f \in facts
    PROVE  StudioInv'
<1>1. /\ IsOf(todo) /\ stage \in [Call -> {"ready", "sent"}] /\ at \in [Call -> Place]
      /\ rescue \in [Call -> [Failures -> Place]] /\ PlaceOK(k) /\ QueueOK(k)
  BY DEF StudioInv, TypeOK, Shape
<1>2. /\ IsOf(todo') /\ todo'[k] = Tail(todo[k]) /\ \A j \in Call \ {k} : todo'[j] = todo[j]
      /\ stage' \in [Call -> {"ready", "sent"}] /\ stage'[k] = "ready" /\ \A j \in Call \ {k} : stage'[j] = stage[j]
  BY <1>1 DEF Next1, IsOf
<1>3. \A j \in Call \ {k} : Rests(j)
  BY <1>2 DEF Rests, Next1
<1>4. at[k] \notin {"idle", "position"}
  BY HasBatch
<1>5. Claims(k)' <=> Claims(k)
  BY DEF Claims, Next1
<1>6. PlaceOK(k)'
  BY <1>1, <1>2, <1>4, <1>5 DEF PlaceOK, Next1, PriceSeen
<1>7. QueueOK(k)'
  <2>1. IsQueue(Tail(todo[k])) /\ \A i \in DOMAIN Tail(todo[k]) : i + 1 \in DOMAIN todo[k] /\ Tail(todo[k])[i] = todo[k][i + 1]
    BY <1>1, QueueTail DEF QueueOK
  <2>2. ASSUME NEW x, Sound(k, x)
        PROVE  Sound(k, x)'
    BY <2>2, SoundKept DEF Next1, PricesKept
  <2> QED BY <1>1, <1>2, <2>1, <2>2 DEF QueueOK
<1>8. OrderOK(k)'
  BY <1>5 DEF OrderOK
<1>9. ClaimOK(k)'
  <2> SUFFICES ASSUME Claims(k)
               PROVE  LoopOK(k)' /\ PaidOK(k)'
    BY <1>5 DEF ClaimOK
  <2>1. LoopOK(k) /\ PaidOK(k) /\ at[k] = "claimed"
    BY HasBatch
  <2>2. /\ seen'[k] = seen[k] /\ job' = job /\ at'[k] = "claimed" /\ rescue' = rescue
    BY <2>1 DEF Next1
  <2>3. /\ Mints(k)' = Mints(k) /\ Left(k)' = Left(k) /\ Named(k)' = Named(k)
        /\ \A m : Verdicts(k, m)' = Verdicts(k, m)
    BY <2>2, SameSeen
  <2>4. \A m \in Mints(k)' : \A v, w \in Verdicts(k, m)' : v = w
    BY <2>1, <2>3 DEF LoopOK
  <2>5. LoopOK(k)'
    BY <2>1, <2>2, <2>3, <2>4 DEF LoopOK
  <2>6. PaidOK(k)'
    <3> SUFFICES ASSUME job[k].cmd # "claimLeftovers", ~job[k].dry
                 PROVE  PaidOK(k)'
      BY <2>2 DEF PaidOK
    <3>1. PICK x \in Batch(k) : todo[k] = <<{x}>> /\ Claim(k, x)
      BY <2>1 DEF PaidOK
    <3>2. todo'[k] = <<>>
      <4>1. Len(todo[k]) = 1
        BY <3>1, QueueOne
      <4> QED BY <1>1, <1>2, <4>1, QueueTail DEF QueueOK
    <3>3. \A m \in Named(k) : <<"paid", m, k>> \in facts
      <4>1. \A m : <<"paid", m, k>>[1] \in Lasting
        BY DEF Lasting
      <4> QED BY <3>1, <4>1 DEF Claim
    <3>4. \A z \in fate' : z[1].by # k
      BY DEF Heard
    <3> QED BY <2>1, <2>2, <2>3, <3>2, <3>3, <3>4 DEF PaidOK, Busy
  <2> QED BY <2>5, <2>6
<1> QED BY <1>1, <1>2, <1>3, <1>4, <1>6, <1>7, <1>8, <1>9, MovesOn DEF Moves, Next1

\* It gives up what it was sending, and ends or goes on at its rescue.
Leaves(k, p) ==
    /\ at' = [at EXCEPT ![k] = p]
    /\ todo' = [todo EXCEPT ![k] = <<>>]
    /\ stage' = [stage EXCEPT ![k] = "ready"]
    /\ rescue' = [rescue EXCEPT ![k] = Uncaught]
    /\ UNCHANGED <<round, seen, job>>

LEMMA GivesUp ==
    ASSUME StudioInv, NEW k \in Call, NEW p, Leaves(k, p), UNCHANGED facts, Heard(k),
           \/ p = "stopped"
           \/ /\ p \in Busy /\ at[k] \in Busy /\ Claims(k)
              /\ job[k].cmd # "claimLeftovers" /\ ~job[k].dry => p \notin {"claimed", "tryEntry"}
    PROVE  StudioInv'
<1>1. /\ IsOf(todo) /\ stage \in [Call -> {"ready", "sent"}] /\ at \in [Call -> Place]
      /\ rescue \in [Call -> [Failures -> Place]]
  BY DEF StudioInv, TypeOK, Shape
<1>2. /\ p \in Place /\ p \notin PositionPlaces \cup {"idle", "position", "quoted", "claims", "claimNext", "returned"}
      /\ p \in ClaimPlaces \cup {"stopped"}
  BY DEF Busy, Place, ClaimPlaces, PositionPlaces
<1>3. /\ Uncaught \in [Failures -> Busy \cup {"stopped"}] /\ Uncaught \in [Failures -> Place]
      /\ \A f \in Failures : Uncaught[f] = "stopped"
  BY DEF Uncaught, CaughtAs, Place
<1>4. /\ IsOf(todo') /\ todo'[k] = <<>> /\ \A j \in Call \ {k} : todo'[j] = todo[j]
      /\ stage' \in [Call -> {"ready", "sent"}] /\ stage'[k] = "ready" /\ \A j \in Call \ {k} : stage'[j] = stage[j]
  BY <1>1 DEF Leaves, IsOf
<1>5. /\ at' \in [Call -> Place] /\ at'[k] = p /\ \A j \in Call \ {k} : at'[j] = at[j]
      /\ rescue' \in [Call -> [Failures -> Place]] /\ rescue'[k] = Uncaught
      /\ \A j \in Call \ {k} : rescue'[j] = rescue[j]
  BY <1>1, <1>2, <1>3 DEF Leaves
<1>6. \A j \in Call \ {k} : Rests(j)
  BY <1>4, <1>5 DEF Rests, Leaves
<1>7. Claims(k)' <=> Claims(k)
  BY DEF Claims, Leaves
<1>8. PlaceOK(k)'
  <2>1. ~Claims(k) => p \notin ClaimPlaces
    BY DEF ClaimPlaces
  <2> QED BY <1>2, <1>4, <1>5, <1>7, <2>1 DEF PlaceOK
<1>9. QueueOK(k)'
  BY <1>4, QueueEmpty DEF QueueOK
<1>10. OrderOK(k)'
  BY <1>4, <1>5, <1>7 DEF OrderOK
<1>11. ClaimOK(k)'
  <2> SUFFICES ASSUME Claims(k)
               PROVE  LoopOK(k)' /\ PaidOK(k)'
    BY <1>7 DEF ClaimOK
  <2>1. LoopOK(k) /\ PaidOK(k)
    BY DEF StudioInv, ClaimOK
  <2>2. seen'[k] = seen[k] /\ job' = job
    BY DEF Leaves
  <2>3. /\ Mints(k)' = Mints(k) /\ Left(k)' = Left(k) /\ Named(k)' = Named(k)
        /\ \A m : Verdicts(k, m)' = Verdicts(k, m)
    BY <2>2, SameSeen
  <2>4. \A m \in Mints(k)' : \A v, w \in Verdicts(k, m)' : v = w
    BY <2>1, <2>3 DEF LoopOK
  <2>5. p \in Busy => at[k] \in Busy
    BY DEF Busy
  <2>6. LoopOK(k)'
    BY <1>2, <1>3, <1>4, <1>5, <2>1, <2>3, <2>4, <2>5 DEF LoopOK
  <2>7. PaidOK(k)'
    <3> SUFFICES ASSUME job[k].cmd # "claimLeftovers", ~job[k].dry
                 PROVE  PaidOK(k)'
      BY <2>2 DEF PaidOK
    <3>1. p \notin {"claimed", "tryEntry"}
      OBVIOUS
    <3>2. \A z \in fate' : z[1].by # k
      BY DEF Heard
    <3> QED BY <1>3, <1>4, <1>5, <2>1, <2>2, <2>3, <2>5, <3>1, <3>2 DEF PaidOK
  <2> QED BY <2>6, <2>7
<1> QED BY <1>2, <1>4, <1>5, <1>6, <1>8, <1>9, <1>10, <1>11, MovesOn DEF Moves, Leaves

\* A failure is caught where the call said, or ends it.
LEMMA Throws ==
    ASSUME StudioInv, NEW k \in Call, todo[k] # <<>>, NEW f \in Failures, Throw(k, f),
           UNCHANGED facts, Heard(k),
           f = "failed" => \E z \in fate : z[1].by = k /\ z[2] = "failed"
    PROVE  StudioInv'
<1> DEFINE p == rescue[k][f]
<1>1. Leaves(k, p)
  BY DEF Throw, Leaves
<1>2. CASE ~Claims(k)
  <2>1. rescue[k] = Uncaught
    BY <1>2 DEF StudioInv, PlaceOK
  <2>2. p = "stopped"
    BY <2>1 DEF Uncaught, CaughtAs
  <2> QED BY <1>1, <2>2, GivesUp
<1>3. CASE Claims(k)
  <2>1. LoopOK(k) /\ PaidOK(k) /\ at[k] \in Busy
    BY <1>3, HasBatch DEF Busy
  <2>2. p \in Busy \cup {"stopped"}
    BY <2>1 DEF LoopOK
  <2>3. job[k].cmd # "claimLeftovers" /\ ~job[k].dry => p \notin {"claimed", "tryEntry"}
    BY <2>1 DEF PaidOK
  <2> HIDE DEF p
  <2> QED BY <1>1, <1>3, <2>1, <2>2, <2>3, GivesUp
<1> QED BY <1>2, <1>3

LEMMA StopKeeps ==
    ASSUME StudioInv, NEW k \in Call, Stop(k)
    PROVE  StudioInv'
<1>1. Leaves(k, "stopped") /\ UNCHANGED facts /\ Heard(k)
  BY DEF Stop, Leaves, Heard, Forget
<1> QED BY <1>1, GivesUp

LEMMA FaultKeeps ==
    ASSUME StudioInv, NEW k \in Call, Fault(k)
    PROVE  StudioInv'
<1>1. todo[k] # <<>> /\ UNCHANGED facts
  BY DEF Fault
<1>2. PICK f \in {"send", "wait"} : Throw(k, f)
  BY DEF Fault
<1>3. Heard(k)
  BY <1>1, HasBatch DEF Fault, Heard, Forget
<1> QED BY <1>1, <1>2, <1>3, Throws DEF Failures

LEMMA DeliveryKeeps ==
    ASSUME StudioInv, NEW k \in Call, Delivery(k)
    PROVE  StudioInv'
<1>1. todo[k] # <<>>
  BY DEF Delivery, Simulate, Submit, Refused, Confirmed, NotConfirmed, Prepared, Waiting
\* Before a call waits, nothing of it can be heard.
<1>2. ASSUME Prepared(k), fate' = fate, \A x \in pending' : x \in pending \/ x \in Batch(k)
      PROVE  Heard(k) /\ ~Waiting(k)
  BY <1>1, <1>2, HasBatch DEF Heard, Prepared, Waiting
<1>3. ASSUME Simulate(k) PROVE StudioInv'
  <2>1. Heard(k) /\ ~Waiting(k) /\ UNCHANGED <<facts, pending>> /\ job[k].dry
    BY <1>2, <1>3 DEF Simulate, programVars, Pretends
  <2>2. CASE Next1(k)
    BY <1>1, <2>1, <2>2, HasBatch, SendsNext
  <2>3. CASE Throw(k, "send")
    BY <1>1, <2>1, <2>3, Throws DEF Failures
  <2> QED BY <1>3, <2>2, <2>3 DEF Simulate
<1>4. ASSUME Submit(k) PROVE StudioInv'
  <2>1. Heard(k) /\ ~Waiting(k)
    BY <1>2, <1>4 DEF Submit
  <2>2. /\ \A j \in Call \ {k} : stage'[j] = stage[j]
        /\ stage' \in [Call -> {"ready", "sent"}] /\ stage'[k] = "sent"
    BY <1>4 DEF Submit, StudioInv, TypeOK
  <2>3. UNCHANGED <<at, todo, round, rescue, seen, job, facts, fate>> /\ pending' = pending \cup Batch(k)
    BY <1>4 DEF Submit
  <2>4. \A j \in Call \ {k} : Rests(j)
    BY <2>2, <2>3 DEF Rests
  <2>5. at \in [Call -> Place] /\ rescue \in [Call -> [Failures -> Place]] /\ IsOf(todo)
    BY DEF StudioInv, TypeOK, Shape
  <2>6. PlaceOK(k)'
    BY <1>1, <2>3 DEF StudioInv, PlaceOK, PriceSeen, Claims
  <2>7. QueueOK(k)'
    <3>1. \A x : Sound(k, x) => Sound(k, x)'
      BY <2>3, SoundKept DEF PricesKept
    <3> QED BY <2>3, <3>1 DEF StudioInv, QueueOK
  <2>8. OrderOK(k)'
    <3> SUFFICES ASSUME ~Claims(k), NEW y \in pending', y.by = k
                 PROVE  Waiting(k)' /\ y \in Batch(k)'
      BY <2>3 DEF OrderOK, Claims
    <3>1. y \in Batch(k)
      BY <1>1, <2>1, <2>3, HasBatch
    <3> QED BY <1>1, <2>2, <2>3, <3>1 DEF Waiting, Batch
  <2>9. ClaimOK(k)'
    <3>1. LoopOK(k)' <=> LoopOK(k)
      BY <2>3 DEF LoopOK, Mints, Left, Named, Verdicts, ExitsWithError, AnyFailed, NoneClaimed
    <3>2. PaidOK(k)' <=> PaidOK(k)
      BY <2>3 DEF PaidOK, Mints, Named, Verdicts, Batch, Claim
    <3> QED BY <2>3, <3>1, <3>2 DEF StudioInv, ClaimOK, Claims
  <2>10. at[k] \notin {"idle", "position"}
    BY <1>1, HasBatch
  <2> QED BY <2>1, <2>2, <2>3, <2>4, <2>5, <2>6, <2>7, <2>8, <2>9, <2>10, MovesOn DEF Moves
<1>5. ASSUME Refused(k) PROVE StudioInv'
  <2>1. Heard(k) /\ UNCHANGED facts /\ Throw(k, "send")
    BY <1>2, <1>5 DEF Refused
  <2> QED BY <1>1, <2>1, Throws DEF Failures
<1>6. ASSUME Confirmed(k) PROVE StudioInv'
  <2>1. Waiting(k) /\ Next1(k) /\ Forget(k) /\ UNCHANGED <<facts, pending>>
    BY <1>6 DEF Confirmed
  <2>2. Heard(k)
    BY <2>1 DEF Heard, Forget
  <2>3. ASSUME NEW x \in Batch(k)
        PROVE  x \notin pending /\ \A f \in x.makes : f[1] \in Lasting => f \in facts
    <3>1. <<x, "ok">> \in fate
      BY <1>6 DEF Confirmed
    <3>2. <<x, "ok">>[1] = x /\ <<x, "ok">>[2] = "ok"
      OBVIOUS
    <3> QED BY <3>1, <3>2 DEF StudioInv, FateOK
  <2>4. ~Claims(k) => \A y \in pending : y.by # k
    BY <1>1, <2>3 DEF StudioInv, OrderOK
  <2> QED BY <1>1, <2>1, <2>2, <2>3, <2>4, SendsNext
<1>7. ASSUME NotConfirmed(k) PROVE StudioInv'
  <2>1. Forget(k) /\ UNCHANGED <<facts, pending>>
    BY <1>7 DEF NotConfirmed
  <2>2. PICK x \in Batch(k), how \in {"failed", "expired"} : <<x, how>> \in fate /\ Throw(k, how)
    BY <1>7 DEF NotConfirmed
  <2>3. Heard(k)
    BY <2>1 DEF Heard, Forget
  <2>4. \E z \in fate : z[1].by = k /\ z[2] = how
    <3>1. <<x, how>>[1].by = k /\ <<x, how>>[2] = how
      BY <1>1, <2>2, HasBatch
    <3> QED BY <2>2, <3>1
  <2> QED BY <1>1, <2>1, <2>2, <2>3, <2>4, Throws DEF Failures
<1> QED BY <1>3, <1>4, <1>5, <1>6, <1>7 DEF Delivery

(***************************************************************************)
(* The cluster executes, and the world goes on.                            *)
(***************************************************************************)

\* An outcome of a transaction whose sender awaits it; a claim that was looked
\* at when it was sent does not fail.
Told(z) ==
    /\ z[1] \in pending /\ z[1] \notin pending' /\ z[2] \in Outcome /\ Awaited(z[1])
    /\ z[2] = "ok" => \A f \in z[1].makes : f[1] \in Lasting => f \in facts'
    /\ Claims(z[1].by) /\ job[z[1].by].cmd # "claimLeftovers" /\ ~job[z[1].by].dry => z[2] # "failed"

\* Of what is outside the processes, nothing that lasts goes, and no file or
\* proof comes or goes.
Steady ==
    /\ \A f \in facts : f[1] \in Lasting \cup Local => f \in facts'
    /\ \A f \in facts' : f[1] \in Local => f \in facts

LEMMA HappensOn ==
    ASSUME StudioInv, UNCHANGED <<processVars, job>>, pending' \subseteq pending,
           \A z \in fate' : z \in fate \/ Told(z),
           Steady, PriceOK', TradedOK'
    PROVE  StudioInv'
<1>1. \A j : Rests(j)
  BY DEF Rests, processVars
<1>2. UNCHANGED <<at, todo, stage, round, rescue, seen, job>>
  BY DEF processVars
<1>3. ASSUME NEW x, NEW j, Sound(j, x)
      PROVE  Sound(j, x)'
  BY <1>2, <1>3, SoundKept DEF PricesKept
<1>4. PendingOK'
  BY <1>2, <1>3 DEF StudioInv, PendingOK
<1>5. ASSUME NEW z \in fate'
      PROVE  /\ z[2] \in Outcome /\ z[1].by \in Call
             /\ Awaited(z[1]) /\ z[1] \notin pending'
             /\ z[2] = "ok" => \A f \in z[1].makes : f[1] \in Lasting => f \in facts'
  <2>1. CASE z \in fate
    BY <2>1 DEF StudioInv, FateOK, Steady
  <2>2. CASE Told(z)
    BY <2>2 DEF Told, StudioInv, PendingOK
  <2> QED BY <2>1, <2>2
<1>6. FateOK'
  <2>1. ASSUME NEW x, Awaited(x)
        PROVE  Awaited(x)'
    BY <1>2, <2>1 DEF Awaited, Waiting, Batch
  <2> QED BY <1>5, <2>1 DEF FateOK
<1>7. ASSUME NEW j \in Call
      PROVE  PlaceOK(j)' /\ QueueOK(j)' /\ OrderOK(j)' /\ ClaimOK(j)'
  <2>1. PlaceOK(j) /\ QueueOK(j) /\ OrderOK(j) /\ ClaimOK(j)
    BY DEF StudioInv
  <2>2. OrderOK(j)'
    BY <1>2, <2>1 DEF OrderOK, Claims, Waiting, Batch
  <2>3. Claims(j) /\ job[j].cmd # "claimLeftovers" /\ ~job[j].dry =>
            \A z \in fate' : z[1].by = j => z \in fate \/ z[2] # "failed"
    BY DEF Told
  <2>4. \A f \in facts : f[1] \in {"paid", "curve"} => f \in facts'
    BY DEF Steady, Lasting
  <2> QED BY <1>1, <2>1, <2>2, <2>3, <2>4, RestsPlace, RestsClaim
<1>8. TypeOK' /\ Shape'
  BY <1>2, <1>4, <1>5 DEF StudioInv, TypeOK, Shape, PendingOK
<1>9. FilesOK'
  BY <1>2 DEF StudioInv, FilesOK, Steady, Local
<1> QED BY <1>4, <1>6, <1>7, <1>8, <1>9 DEF StudioInv

\* What an execution takes away and brings.
LEMMA Executed ==
    ASSUME StudioInv, NEW x \in pending, Executes(x)
    PROVE  /\ Steady
           /\ \A f : f[1] = "price" => (f \in facts <=> f \in facts')
           /\ \A f \in facts' : f[1] = "traded" => f \in facts \/ f \in Trace(x)
           /\ \A f \in facts' : f[1] \in {"root", "rootOf"} => f \in facts \/ f \in x.makes
           /\ Fits(x) => \A f \in x.makes : f \in facts'
           /\ ~Fits(x) => facts' = facts
<1>1. Mild(x.by, x)
  BY DEF StudioInv, PendingOK, Sound
<1>2. CASE ~Fits(x)
  BY <1>2 DEF Executes, Steady
<1>3. CASE Fits(x)
  <2>1. facts' = (facts \ Gone(x)) \cup New(x) \cup Trace(x)
    BY <1>3 DEF Executes
  <2>2. \A f \in Taken(x) : f[1] = "lp"
    <3>1. PICK s \in SUBSET Tokens(x) : Cardinality(s) = x.takes[2]
      BY <1>3 DEF Fits
    <3>2. Taken(x) \in SUBSET Tokens(x)
      BY <3>1 DEF Taken
    <3> QED BY <3>2 DEF Tokens
  <2>3. ASSUME NEW z \in Moved(x)
        PROVE  z[1][1] = "free"
    BY <2>3 DEF Moved
  <2>4. ASSUME NEW f \in Gone(x)
        PROVE  f[1] \notin {"price"} \cup Local \cup Lasting
    <3>1. CASE f \in x.drops
      BY <1>1, <3>1 DEF Mild
    <3>2. CASE f \in Taken(x)
      BY <2>2, <3>2 DEF Local, Lasting
    <3>3. CASE f \in {z[1] : z \in Moved(x)}
      BY <2>3, <3>3 DEF Local, Lasting
    <3> QED BY <2>4, <3>1, <3>2, <3>3 DEF Gone
  <2>5. ASSUME NEW f \in New(x)
        PROVE  f[1] \notin {"price", "traded"} \cup Local /\ (f[1] \in {"root", "rootOf"} => f \in x.makes)
    <3>1. CASE f \in x.makes
      BY <1>1, <3>1 DEF Mild
    <3>2. CASE f \in {<<"free", z[2][3], z[1][3]>> : z \in Moved(x)}
      <4>1. PICK z \in Moved(x) : f = <<"free", z[2][3], z[1][3]>>
        BY <3>2
      <4> QED BY <4>1 DEF Local
    <3> QED BY <2>5, <3>1, <3>2 DEF New
  <2>6. ASSUME NEW f \in Trace(x)
        PROVE  f[1] = "traded"
    <3>1. f \in {<<"traded", x.by, g[2]>> : g \in {g \in facts : g[1] = "price"}}
      BY <2>6 DEF Trace
    <3>2. PICK g : f = <<"traded", x.by, g[2]>>
      BY <3>1
    <3> QED BY <3>2
  <2>7. \A f \in x.makes : f \in New(x)
    BY DEF New
  <2>8. Steady
    BY <2>1, <2>4, <2>5, <2>6 DEF Steady, Local
  <2>9. \A f : f[1] = "price" => (f \in facts <=> f \in facts')
    BY <2>1, <2>4, <2>5, <2>6
  <2>10. \A f \in facts' : f[1] = "traded" => f \in facts \/ f \in Trace(x)
    BY <2>1, <2>5
  <2>11. \A f \in facts' : f[1] \in {"root", "rootOf"} => f \in facts \/ f \in x.makes
    BY <2>1, <2>5, <2>6
  <2> QED BY <1>3, <2>1, <2>7, <2>8, <2>9, <2>10, <2>11
<1> QED BY <1>2, <1>3

\* A trade leaves the price that its sender has seen: it needs that price, and
\* there is only one.
LEMMA TracesSeen ==
    ASSUME StudioInv, NEW x \in pending, Fits(x), NEW f \in Trace(x)
    PROVE  /\ f[2] \in Call /\ at[f[2]] \notin {"idle", "position"}
           /\ <<"price", f[3]>> \in seen[f[2]] /\ f[3] \in Price
<1>1. Sound(x.by, x) /\ x.by \in Call /\ at[x.by] \notin {"idle", "position"}
  BY DEF StudioInv, PendingOK
<1>2. x.op \in Trades /\ f \in {<<"traded", x.by, g[2]>> : g \in {g \in facts : g[1] = "price"}}
  BY DEF Trace
<1>3. PICK g \in facts : g[1] = "price" /\ f = <<"traded", x.by, g[2]>>
  BY <1>2
<1>4. PICK q \in Price : <<"price", q>> \in x.needs /\ <<"price", q>> \in seen[x.by]
  BY <1>1, <1>2 DEF Sound
<1>5. <<"price", q>> \in facts
  BY <1>4 DEF Fits
<1>6. g = <<"price", q>>
  <2>1. <<"price", q>>[1] = "price"
    OBVIOUS
  <2> QED BY <1>3, <1>5, <2>1 DEF StudioInv, PriceOK
<1>7. f[2] = x.by /\ f[3] = q
  BY <1>3, <1>6
<1> QED BY <1>1, <1>4, <1>7

\* A claim that was looked at when it was sent is accepted.
LEMMA ClaimFits ==
    ASSUME StudioInv, NEW x, Awaited(x), x.by \in Call,
           Claims(x.by), job[x.by].cmd # "claimLeftovers", ~job[x.by].dry
    PROVE  Fits(x)
<1> DEFINE k == x.by
<1>1. todo[k] # <<>> /\ x \in Batch(k)
  BY DEF Awaited, Waiting
<1>2. PaidOK(k)
  BY DEF StudioInv, ClaimOK
<1>3. PICK y \in Batch(k) : todo[k] = <<{y}>> /\ Claim(k, y)
  BY <1>1, <1>2 DEF PaidOK
<1>4. Batch(k) = {y}
  BY <1>3, QueueOne DEF Batch
<1>5. Claim(k, x)
  BY <1>1, <1>3, <1>4
<1>6. {} \in SUBSET Tokens(x) /\ Cardinality({}) = x.takes[2]
  BY <1>5, FS_EmptySet DEF Claim
<1> QED BY <1>5, <1>6 DEF Claim, Fits

LEMMA ClusterKeeps ==
    ASSUME StudioInv, Cluster
    PROVE  StudioInv'
<1>1. PICK x \in pending : Execute(x, Awaited(x)) \/ Expire(x, Awaited(x))
  BY DEF Cluster
<1>2. UNCHANGED <<processVars, job>>
  BY DEF Cluster
<1>3. CASE Execute(x, Awaited(x))
  <2>1. Executes(x) /\ Ends(x, IF Fits(x) THEN "ok" ELSE "failed", Awaited(x))
    BY <1>3 DEF Execute
  <2>2. /\ Steady
        /\ \A f : f[1] = "price" => (f \in facts <=> f \in facts')
        /\ \A f \in facts' : f[1] = "traded" => f \in facts \/ f \in Trace(x)
        /\ Fits(x) => \A f \in x.makes : f \in facts'
        /\ ~Fits(x) => facts' = facts
    BY <2>1, Executed
  <2>3. pending' \subseteq pending /\ x \notin pending'
    BY <2>1 DEF Ends
  <2>4. ASSUME NEW z \in fate'
        PROVE  z \in fate \/ Told(z)
    <3>1. z \in fate \/ (Awaited(x) /\ z = <<x, IF Fits(x) THEN "ok" ELSE "failed">>)
      BY <2>1 DEF Ends
    <3>2. CASE Awaited(x) /\ z = <<x, IF Fits(x) THEN "ok" ELSE "failed">>
      <4>1. z[1] = x /\ z[2] = IF Fits(x) THEN "ok" ELSE "failed"
        BY <3>2
      <4>2. x.by \in Call
        BY DEF StudioInv, PendingOK
      <4>3. Claims(x.by) /\ job[x.by].cmd # "claimLeftovers" /\ ~job[x.by].dry => Fits(x)
        BY <3>2, <4>2, ClaimFits
      <4> QED BY <2>2, <2>3, <3>2, <4>1, <4>3 DEF Told, Outcome
    <3> QED BY <3>1, <3>2
  <2>5. PriceOK'
    <3>1. \A q \in Price : <<"price", q>> \in facts <=> <<"price", q>> \in facts'
      BY <2>2
    <3> QED BY <1>2, <2>2, <3>1 DEF StudioInv, PriceOK
  <2>6. TradedOK'
    <3>1. ASSUME NEW f \in facts', f[1] = "traded"
          PROVE  /\ f[2] \in Call /\ at[f[2]] \notin {"idle", "position"}
                 /\ <<"price", f[3]>> \in seen[f[2]] /\ f[3] \in Price
      <4>1. CASE f \in facts
        BY <3>1, <4>1 DEF StudioInv, TradedOK
      <4>2. CASE f \notin facts
        <5>1. Fits(x) /\ f \in Trace(x)
          BY <2>2, <3>1, <4>2
        <5> QED BY <5>1, TracesSeen
      <4> QED BY <4>1, <4>2
    <3> QED BY <1>2, <3>1 DEF TradedOK, processVars
  <2> QED BY <1>2, <2>2, <2>3, <2>4, <2>5, <2>6, HappensOn
<1>4. CASE Expire(x, Awaited(x))
  <2>1. UNCHANGED facts /\ Ends(x, "expired", Awaited(x))
    BY <1>4 DEF Expire
  <2>2. pending' \subseteq pending /\ x \notin pending'
    BY <2>1 DEF Ends
  <2>3. ASSUME NEW z \in fate'
        PROVE  z \in fate \/ Told(z)
    <3>1. z \in fate \/ (Awaited(x) /\ z = <<x, "expired">>)
      BY <2>1 DEF Ends
    <3>2. CASE Awaited(x) /\ z = <<x, "expired">>
      <4>1. z[1] = x /\ z[2] = "expired"
        BY <3>2
      <4> QED BY <2>2, <3>2, <4>1 DEF Told, Outcome
    <3> QED BY <3>1, <3>2
  <2>4. PriceOK' /\ TradedOK'
    BY <1>2, <2>1 DEF StudioInv, PriceOK, TradedOK, processVars
  <2> QED BY <1>2, <2>1, <2>2, <2>3, <2>4, HappensOn DEF Steady
<1> QED BY <1>1, <1>3, <1>4

\* The rest of the world touches neither whitelists nor locks nor claims.
LEMMA WorldSteady ==
    ASSUME StudioInv, World
    PROVE  Steady /\ \A f \in facts' : f[1] \in {"root", "rootOf"} => f \in facts
<1> DEFINE Ours == Lasting \cup Local
<1>1. CASE Trade
  <2>1. PICK p \in {f \in facts : f[1] = "price"} :
           facts' = (facts \ {p}) \cup {<<"price", 3 - p[2]>>} \cup {<<"fee", f[2]>> : f \in Liquid}
    BY <1>1 DEF Trade
  <2>2. p[1] \notin Ours /\ <<"price", 3 - p[2]>>[1] \notin Ours
    BY DEF Lasting, Local
  <2>3. \A f \in {<<"fee", g[2]>> : g \in Liquid} : f[1] \notin Ours
    BY DEF Lasting, Local
  <2>4. \A f : f[1] \in Ours => (f \in facts <=> f \in facts')
    BY <2>1, <2>2, <2>3
  <2> QED BY <2>4 DEF Steady, Lasting, Local
<1>2. CASE Mature
  <2>1. facts' = facts \cup {<<"matured", 0>>}
    BY <1>2 DEF Mature
  <2>2. <<"matured", 0>>[1] \notin Ours
    BY DEF Lasting, Local
  <2>3. \A f : f[1] \in Ours => (f \in facts <=> f \in facts')
    BY <2>1, <2>2
  <2> QED BY <2>3 DEF Steady, Lasting, Local
<1> QED BY <1>1, <1>2 DEF World

LEMMA WorldKeeps ==
    ASSUME StudioInv, World
    PROVE  StudioInv'
<1>1. UNCHANGED <<processVars, job>> /\ (Trade \/ Mature)
  BY DEF World
<1>2. CASE Trade
  <2>1. PICK p \in {f \in facts : f[1] = "price"} :
           /\ facts' = (facts \ {p}) \cup {<<"price", 3 - p[2]>>} \cup {<<"fee", f[2]>> : f \in Liquid}
           /\ UNCHANGED <<pending, fate>>
    BY <1>2 DEF Trade
  <2>2. p \in facts /\ p[1] = "price" /\ p \in Prices
    BY <2>1 DEF StudioInv, PriceOK
  <2>3. PICK q \in Price : p = <<"price", q>>
    BY <2>2 DEF Prices
  <2>4. 3 - p[2] \in Price
    BY <2>3 DEF Price
  <2> DEFINE r == 3 - p[2]
  <2>5. ASSUME NEW f \in facts'
        PROVE  f \in facts \ {p} \/ f = <<"price", r>> \/ f[1] = "fee"
    <3>1. CASE f \in {<<"fee", g[2]>> : g \in Liquid}
      <4>1. PICK g : f = <<"fee", g[2]>>
        BY <3>1
      <4> QED BY <4>1
    <3> QED BY <2>1, <2>5, <3>1
  <2>6. <<"price", r>> \in facts' /\ \A f \in facts : f # p => f \in facts'
    BY <2>1
  <2>7. <<"price", r>>[1] = "price" /\ <<"price", r>> \in Prices
    BY <2>4 DEF Prices
  <2>8. r \in Price
    BY <2>4
  <2> HIDE DEF r
  <2>9. PriceOK'
    <3>1. \A f \in facts' : f[1] = "price" => f = <<"price", r>>
      BY <2>2, <2>5 DEF StudioInv, PriceOK
    <3> QED BY <2>6, <2>7, <2>8, <3>1 DEF PriceOK
  <2>10. TradedOK'
    <3>1. \A f \in facts' : f[1] = "traded" => f \in facts
      BY <2>5, <2>7
    <3> QED BY <1>1, <3>1 DEF StudioInv, TradedOK, processVars
  <2> QED BY <1>1, <2>1, <2>9, <2>10, WorldSteady, HappensOn
<1>3. CASE Mature
  <2>1. facts' = facts \cup {<<"matured", 0>>} /\ UNCHANGED <<pending, fate>>
    BY <1>3 DEF Mature
  <2>2. <<"matured", 0>>[1] = "matured"
    OBVIOUS
  <2>3. \A f \in facts' : f \in facts \/ f[1] = "matured"
    BY <2>1, <2>2
  <2>4. PriceOK'
    <3>1. \A q \in Price : <<"price", q>> \in facts => <<"price", q>> \in facts'
      BY <2>1
    <3> QED BY <1>1, <2>3, <3>1 DEF StudioInv, PriceOK
  <2>5. TradedOK'
    BY <1>1, <2>3 DEF StudioInv, TradedOK, processVars
  <2> QED BY <1>1, <2>1, <2>4, <2>5, WorldSteady, HappensOn
<1> QED BY <1>1, <1>2, <1>3

(***************************************************************************)
(* The theorems.                                                           *)
(***************************************************************************)

LEMMA InitInv == Init => StudioInv
<1> SUFFICES ASSUME Init
             PROVE  StudioInv
  OBVIOUS
<1>1. PICK input \in Inputs : job = input.job /\ facts = input.facts
  BY DEF Init
<1>2. /\ input.job = [k \in Call |-> input.job[k]]
      /\ \A k \in Call : /\ input.job[k].cmd \in Commands /\ input.job[k].pool \in Pools
                         /\ input.job[k].list \in Seq({input.job[k].list[i] : i \in DOMAIN input.job[k].list})
                         /\ input.job[k].alloc \in Seq(Nat)
      /\ \A f \in input.facts : f[1] \notin {"traded", "file"} /\ (f[1] = "price" => f \in Prices)
      /\ \A f, g \in input.facts \cap Prices : f = g
      /\ (\E k \in Call : input.job[k].cmd \in PositionCommands) => input.facts \cap Prices # {}
  BY InputsAssumption
<1>3. /\ pending = {} /\ fate = {}
      /\ at = [k \in Call |-> "idle"]
      /\ todo = [k \in Call |-> <<>>]
      /\ stage = [k \in Call |-> "ready"]
      /\ round = [k \in Call |-> 0]
      /\ rescue = [k \in Call |-> Uncaught]
      /\ seen = [k \in Call |-> {}]
  BY DEF Init
<1>4. Uncaught \in [Failures -> Place] /\ Uncaught \in [Failures -> Busy \cup {"stopped"}]
      /\ \A f \in Failures : Uncaught[f] = "stopped"
  BY DEF Uncaught, CaughtAs, Place
<1>5. ASSUME NEW k \in Call
      PROVE  at[k] = "idle" /\ todo[k] = <<>> /\ stage[k] = "ready" /\ rescue[k] = Uncaught /\ seen[k] = {}
  BY <1>3
<1>6. TypeOK
  <2>1. "idle" \in Place
    BY DEF Place
  <2> QED BY <1>3, <1>4, <2>1, QueueEmpty DEF TypeOK
<1>7. Shape
  <2>1. IsOf(seen) /\ IsOf(todo) /\ IsOf(job)
    BY <1>1, <1>2, <1>3, <1>5 DEF IsOf
  <2> QED BY SMTT(40), <1>1, <1>2, <2>1 DEF Shape, IsQueue
<1>8. FilesOK /\ TradedOK /\ PendingOK /\ FateOK
  BY <1>1, <1>2, <1>3 DEF FilesOK, TradedOK, PendingOK, FateOK
<1>9. PriceOK
  <2>1. (\E k \in Call : job[k].cmd \in PositionCommands) => \E q \in Price : <<"price", q>> \in facts
    <3> SUFFICES ASSUME NEW k \in Call, job[k].cmd \in PositionCommands
                 PROVE  \E q \in Price : <<"price", q>> \in facts
      OBVIOUS
    <3>1. PICK f : f \in facts /\ f \in Prices
      BY <1>1, <1>2
    <3> QED BY <3>1 DEF Prices
  <2> QED BY <1>1, <1>2, <2>1 DEF PriceOK
<1>10. ASSUME NEW k \in Call
       PROVE  PlaceOK(k) /\ QueueOK(k) /\ OrderOK(k) /\ ClaimOK(k)
  <2>1. PlaceOK(k)
    BY <1>5 DEF PlaceOK, PositionPlaces, ClaimPlaces
  <2>2. QueueOK(k) /\ OrderOK(k)
    BY <1>3, <1>5, QueueEmpty DEF QueueOK, OrderOK
  <2>3. \A m : Verdicts(k, m) = {}
    BY <1>5 DEF Verdicts
  <2>4. LoopOK(k)
    BY <1>4, <1>5, <2>3 DEF LoopOK, Busy
  <2>5. PaidOK(k)
    BY <1>3, <1>4, <1>5, <2>3 DEF PaidOK, Busy
  <2> QED BY <2>1, <2>2, <2>4, <2>5 DEF ClaimOK
<1> QED BY <1>6, <1>7, <1>8, <1>9, <1>10 DEF StudioInv

LEMMA NextInv == StudioInv /\ [Next]_vars => StudioInv'
<1> SUFFICES ASSUME StudioInv, [Next]_vars
             PROVE  StudioInv'
  OBVIOUS
<1>1. ASSUME NEW k \in Call, Start(k)
      PROVE  StudioInv'
  BY <1>1, StartGoes, GoesOn
<1>2. ASSUME NEW k \in Call, Command(k)
      PROVE  StudioInv'
  <2>1. Goes(k)
    BY <1>2, PositionGoes, PoolGoes, VaultGoes, ClaimGoes DEF Command
  <2> QED BY <2>1, GoesOn
<1>3. ASSUME NEW k \in Call, Delivery(k) \/ Fault(k) \/ Stop(k)
      PROVE  StudioInv'
  BY <1>3, DeliveryKeeps, FaultKeeps, StopKeeps
<1>4. CASE UNCHANGED vars
  <2>1. /\ UNCHANGED <<processVars, job>> /\ pending' = pending /\ facts' = facts /\ fate' = fate
    BY <1>4 DEF vars, programVars
  <2>2. PriceOK' /\ TradedOK'
    BY <2>1 DEF StudioInv, PriceOK, TradedOK, processVars
  <2> QED BY <2>1, <2>2, HappensOn DEF Steady
<1> QED BY <1>1, <1>2, <1>3, <1>4, ClusterKeeps, WorldKeeps DEF Next

\* The invariant holds in every state that calls, cluster and traders reach.
THEOREM StudioInvariant == Spec => []StudioInv
BY InitInv, NextInv, PTL DEF Spec

\* Liquidity is added and removed at a price its call was shown.
THEOREM TradedCorrect == Spec => []TradedAsShown
<1>1. StudioInv => TradedAsShown
  BY DEF StudioInv, TradedOK, TradedAsShown
<1> QED BY <1>1, StudioInvariant, PTL

\* A claim that is reported was paid by this very run, and a job that exits
\* with 0 has one verdict for every mint and no failure.
THEOREM ClaimsCorrect == Spec => []ClaimsAreSound
<1>1. ASSUME StudioInv
      PROVE  ClaimedIsPaid
  BY <1>1 DEF StudioInv, ClaimOK, Claims, PaidOK, ClaimedIsPaid
<1>2. ASSUME StudioInv
      PROVE  GreenMeansAllClaimed
  <2> SUFFICES ASSUME NEW k \in Call, At(k, "returned"), Claims(k)
               PROVE  /\ \A m \in Mints(k) : Cardinality(Verdicts(k, m)) = 1
                      /\ job[k].cmd # "claimLeftovers" /\ <<"fallback", 0>> \notin seen[k] => ~AnyFailed(k)
    BY DEF GreenMeansAllClaimed, Claims
  <2>1. LoopOK(k) /\ Left(k) = {} /\ ~ExitsWithError(k)
    BY <1>2 DEF StudioInv, ClaimOK, LoopOK, At
  <2>2. ASSUME NEW m \in Mints(k)
        PROVE  Cardinality(Verdicts(k, m)) = 1
    <3>1. PICK v : v \in Verdicts(k, m)
      BY <2>1 DEF Left
    <3>2. Verdicts(k, m) = {v}
      BY <2>1, <3>1 DEF LoopOK
    <3> QED BY <3>2, FS_Singleton
  <2>3. job[k].cmd # "claimLeftovers" /\ <<"fallback", 0>> \notin seen[k] => ~AnyFailed(k)
    BY <2>1 DEF ExitsWithError
  <2> QED BY <2>2, <2>3
<1>3. StudioInv => ClaimsAreSound
  BY <1>1, <1>2 DEF StudioInv, ClaimsAreSound
<1> QED BY <1>3, StudioInvariant, PTL

\* A call is never refused for what a transaction of its own is still to make:
\* when it sends, nothing of its own is on its way; only a claim job's claims
\* may be, and they make nothing that a claim needs.
THEOREM AheadCorrect == Spec => NeverAheadOfItself
<1>1. ASSUME StudioInv, NEW k \in Call, Refused(k), NEW x \in Batch(k), NEW y \in pending, y.by = k
      PROVE  y.makes \cap (x.needs \ facts) = {}
  <2>1. todo[k] # <<>> /\ ~Waiting(k)
    BY <1>1 DEF Refused, Prepared, Waiting
  <2>2. Claims(k) /\ Sound(k, x) /\ Sound(k, y)
    BY <1>1, <2>1, HasBatch DEF StudioInv, PendingOK
  <2> QED BY <2>2 DEF Sound
<1>2. StudioInv /\ [Next]_vars =>
          [\A k \in Call : Refused(k) =>
              \A x \in Batch(k), y \in pending :
                 y.by = k => y.makes \cap (x.needs \ facts) = {}]_<<facts, processVars>>
  BY <1>1
<1> QED BY <1>2, StudioInvariant, PTL DEF Spec, NeverAheadOfItself

(***************************************************************************)
(* A refusal of a position command.                                        *)
(***************************************************************************)

PositionCall(k) == job[k].cmd \in PositionCommands
NewsPlaces == PositionPlaces \cup {"idle", "position", "quoted", "returned", "stopped"}

\* Sent without preflight; or all it needs was seen (or is the position
\* itself, or the end of the vesting), and nothing it excludes was.
Foreseen(k, x) ==
    \/ x.blind
    \/ /\ x.takes = <<0, 0>> /\ x.without \cap seen[k] = {}
       /\ \A f \in x.needs : f \in seen[k] \/ f = <<"open", Chosen(k)>> \/ f = <<"matured", 0>>

\* Whatever is left of the position when its close is due was not seen.
NewsOK(k) == PositionCall(k) =>
    /\ at[k] \in NewsPlaces
    /\ at[k] = "verified" => (State(Chosen(k)) \ {<<"open", Chosen(k)>>}) \cap seen[k] = {}
    /\ todo[k] # <<>> => \E x \in Batch(k) : todo[k] = <<{x}>> /\ Foreseen(k, x)
NewsInv == StudioInv /\ \A k \in Call : NewsOK(k)

LEMMA NewsRests ==
    ASSUME NEW j, NewsOK(j), job' = job, at'[j] = at[j], todo'[j] = todo[j], seen'[j] = seen[j]
    PROVE  NewsOK(j)'
<1>1. Chosen(j)' = Chosen(j) /\ Batch(j)' = Batch(j)
  BY DEF Chosen, Batch
<1>2. \A x : Foreseen(j, x) => Foreseen(j, x)'
  BY <1>1 DEF Foreseen
<1> QED BY <1>1, <1>2 DEF NewsOK, PositionCall

\* Looking a position up again changes no choice.
LEMMA ChosenStays ==
    ASSUME NEW k, NEW p, \A f : f \notin State(p) => (f \in seen'[k] <=> f \in seen[k])
    PROVE  Chosen(k)' = Chosen(k)
<1>1. \A q \in Position : <<"chosen", q>> \in seen'[k] <=> <<"chosen", q>> \in seen[k]
  <2>1. \A q : <<"chosen", q>> \notin State(p)
    BY DEF State, Liquidity
  <2> QED BY Zenon, <2>1
<1> QED BY <1>1 DEF Chosen

\* A position command is nowhere else.
LEMMA NewsCommand ==
    ASSUME NewsInv, NEW k \in Call, PositionCall(k), Command(k)
    PROVE  PositionStep(k)
<1>1. at[k] \in NewsPlaces /\ job[k].cmd \in PositionCommands
  BY DEF NewsInv, NewsOK, PositionCall
<1>2. ~VaultStep(k)
  BY <1>1 DEF NewsPlaces, PositionPlaces, VaultStep, At, EnterVault, LookForVault, NoVault, OpenForEscrows,
     OpenForProofs, WriteProofs, LookForRoot, LookForMetadata, ReadProofs, PutProofs
<1>3. ~PoolStep(k)
  BY <1>1 DEF PositionCommands, NewsPlaces, PositionPlaces, PoolStep, Starts, At, CreateTokenMint, UseMint,
     CreatePool, NoPool, SeedLiquidityLfg, SeedLiquiditySingleBin, SetPoolStatus, CreateFarm,
     LockLiquidity, LockLiquidityStake2Earn, LockRefused
<1>4. ~ClaimStep(k)
  <2>1. at[k] \notin ClaimPlaces
    BY <1>1 DEF NewsPlaces, PositionPlaces, ClaimPlaces
  <2> QED BY <2>1 DEF ClaimPlaces, ClaimStep, At, StartList, StartAuto, StartSdk, ClaimByLib, SkipMint, Claimed,
          LibFailed, SdkRetry, SdkGivesUp, NextLeftover, NothingLeft, TryEntry, NoEntryLeft, FinishClaims
<1> QED BY <1>2, <1>3, <1>4 DEF Command

\* It goes on to a place of its own and sends nothing,
LEMMA NewsGoto ==
    ASSUME StudioInv, NEW k \in Call, NEW p, Goto(k, p), p \in NewsPlaces \ {"verified"}
    PROVE  NewsOK(k)'
<1>1. at'[k] = p /\ todo'[k] = <<>>
  BY DEF Goto, Send, Try, StudioInv, TypeOK, Shape, IsOf
<1> QED BY <1>1 DEF NewsOK

\* or sends one transaction that it has looked for.
LEMMA NewsSend ==
    ASSUME StudioInv, NEW k \in Call, NEW p, NEW x, Send(k, <<{x}>>, p), p \in NewsPlaces,
           Foreseen(k, x)',
           p = "verified" => ((State(Chosen(k)) \ {<<"open", Chosen(k)>>}) \cap seen[k] = {})'
    PROVE  NewsOK(k)'
<1>1. at'[k] = p /\ todo'[k] = <<{x}>>
  BY DEF Send, Try, StudioInv, TypeOK, Shape, IsOf
<1>2. x \in Batch(k)'
  BY <1>1, QueueOne DEF Batch
<1> QED BY <1>1, <1>2 DEF NewsOK

\* What its transactions need it has seen, and what they exclude it has not.
LEMMA PositionForeseen ==
    ASSUME NewsInv, NEW k \in Call, PositionStep(k)
    PROVE  NewsOK(k)'
<1>1. StudioInv /\ NewsOK(k)
  BY DEF NewsInv
<1> DEFINE onward == NewsPlaces \ {"verified"}
<1>2. {"positions", "chosen", "findSecond", "refetch", "remains", "quoted", "returned", "stopped"} \subseteq onward
  BY DEF NewsPlaces, PositionPlaces
<1>3. ASSUME NEW p \in onward, Goto(k, p)
      PROVE  NewsOK(k)'
  BY <1>1, <1>3, NewsGoto
<1>4. ASSUME NEW p \in onward, NEW x, Send(k, <<{x}>>, p), Foreseen(k, x)'
      PROVE  NewsOK(k)'
  BY <1>1, <1>4, NewsSend
<1> HIDE DEF onward
\* What a look at one position or at the positions of an owner does.
<1>5. ASSUME NEW p, NEW s, s \subseteq State(p), Read(k, s)
      PROVE  seen'[k] = (seen[k] \ s) \cup (s \cap facts) /\ Chosen(k)' = Chosen(k)
  <2>1. seen'[k] = (seen[k] \ s) \cup (s \cap facts)
    BY <1>1, <1>5, Learns
  <2>2. \A f : f \notin State(p) => (f \in seen'[k] <=> f \in seen[k])
    BY <1>5, <2>1
  <2> QED BY <2>1, <2>2, ChosenStays
<1>6. Nothing => seen'[k] = seen[k] /\ Chosen(k)' = Chosen(k)
  <2>1. Nothing => seen'[k] = seen[k]
    BY <1>1, Learns
  <2> QED BY <2>1 DEF Chosen
<1>7. CASE FetchPool(k)
  BY <1>2, <1>3, <1>7 DEF FetchPool
<1>8. CASE NoPosition(k)
  BY <1>2, <1>3, <1>8 DEF NoPosition, Return
<1>9. CASE ChoosePosition(k)
  BY <1>2, <1>3, <1>9 DEF ChoosePosition
<1>10. CASE PositionGone(k)
  BY <1>2, <1>3, <1>10 DEF PositionGone
<1>11. CASE Refetch(k)
  BY <1>2, <1>3, <1>11 DEF Refetch
<1>12. CASE RemoveLiquidity(k)
  BY <1>2, <1>3, <1>12 DEF RemoveLiquidity, Return
<1>13. CASE SplitCreate(k)
  <2>0. PICK x : x = createPosition(k)
    OBVIOUS
  <2>1. Send(k, <<{x}>>, "findSecond")
    BY <1>13, <2>0 DEF SplitCreate
  <2>2. x.blind
    <3>1. createPosition(k).blind
      BY DEF createPosition, Creates, Bare
    <3> QED BY <2>0, <3>1
  <2>3. Foreseen(k, x)'
    BY <2>2 DEF Foreseen
  <2> QED BY <1>2, <1>4, <2>1, <2>3
<1>14. CASE SplitPosition(k)
  <2>1. Read(k, {<<"open", NewPosition[k]>>})
    BY <1>14 DEF SplitPosition
  <2>2. /\ seen'[k] = (seen[k] \ {<<"open", NewPosition[k]>>}) \cup ({<<"open", NewPosition[k]>>} \cap facts)
        /\ Chosen(k)' = Chosen(k)
    <3>1. {<<"open", NewPosition[k]>>} \subseteq State(NewPosition[k])
      BY DEF State
    <3> QED BY <1>5, <2>1, <3>1
  <2>3. CASE NewPosition[k] \in getUserPositionByPool(job[k].owner)
    <3>0. PICK x : x = SplitTx(k, Chosen(k))
      OBVIOUS
    <3>1. Send(k, <<{x}>>, "returned")
      BY <1>14, <2>3, <3>0 DEF SplitPosition
    <3>2. /\ x.takes = <<0, 0>> /\ x.without = {}
          /\ x.needs = {<<"open", Chosen(k)>>, <<"open", NewPosition[k]>>}
      BY <3>0 DEF SplitTx, OnOpen, Bare
    <3>3. <<"open", NewPosition[k]>> \in seen'[k]
      BY <2>2, <2>3 DEF getUserPositionByPool
    <3>4. Foreseen(k, x)'
      BY <2>2, <3>2, <3>3 DEF Foreseen
    <3> QED BY <1>2, <1>4, <3>1, <3>4
  <2>4. CASE ~(NewPosition[k] \in getUserPositionByPool(job[k].owner))
    BY <1>2, <1>3, <1>14, <2>4 DEF SplitPosition
  <2> QED BY <2>3, <2>4
\* A transaction that needs nothing but the position.
<1>15. ASSUME NEW x \in {ClaimTx(k, Chosen(k)), CloseTx(k, Chosen(k))}
       PROVE  /\ x.takes = <<0, 0>> /\ x.needs = {<<"open", Chosen(k)>>}
              /\ x.without \subseteq State(Chosen(k)) \ {<<"open", Chosen(k)>>}
              /\ x = ClaimTx(k, Chosen(k)) => x.without = {}
  <2>1. CASE x = ClaimTx(k, Chosen(k))
    BY <2>1 DEF ClaimTx, OnOpen, Bare
  <2>2. CASE x = CloseTx(k, Chosen(k)) /\ x # ClaimTx(k, Chosen(k))
    BY <2>2 DEF CloseTx, OnOpen, Bare
  <2> QED BY <2>1, <2>2
<1>16. ASSUME NEW x \in {ClaimTx(k, Chosen(k)), CloseTx(k, Chosen(k))}, Chosen(k)' = Chosen(k),
              x.without \cap seen'[k] = {}
       PROVE  Foreseen(k, x)'
  <2>1. x.takes = <<0, 0>> /\ x.needs = {<<"open", Chosen(k)>>}
    BY <1>15
  <2> QED BY <1>16, <2>1 DEF Foreseen
<1>17. CASE ClaimPositionFee(k)
  <2>0. PICK x : x = ClaimTx(k, Chosen(k))
    OBVIOUS
  <2>1. Send(k, <<{x}>>, "returned") /\ Chosen(k)' = Chosen(k)
    BY <1>6, <1>17, <2>0 DEF ClaimPositionFee
  <2>2. x.without = {}
    BY <1>15, <2>0
  <2>3. Foreseen(k, x)'
    BY <1>16, <2>0, <2>1, <2>2
  <2> QED BY <1>2, <1>4, <2>1, <2>3
\* The price of a quote was seen, and stays.
<1>18. ASSUME at[k] \in PositionPlaces \cup {"quoted"}
       PROVE  <<"price", Shown(k)>> \in seen[k]
  <2>1. \E q \in Price : <<"price", q>> \in seen[k]
    BY <1>1, <1>18 DEF StudioInv, PlaceOK, PriceSeen
  <2> QED BY <2>1 DEF Shown
<1>19. CASE AddLiquidity(k)
  <2>0. PICK x : x = AddTx(k, Chosen(k))
    OBVIOUS
  <2>1. Send(k, <<{x}>>, "refetch") /\ seen'[k] = seen[k] /\ Chosen(k)' = Chosen(k) /\ at[k] = "chosen"
    BY <1>6, <1>19, <2>0 DEF AddLiquidity, Doing, At
  <2>2. <<"price", Shown(k)>> \in seen'[k]
    BY <1>18, <2>1 DEF PositionPlaces
  <2>3. x.takes = <<0, 0>> /\ x.without = {} /\ x.needs = {<<"open", Chosen(k)>>, <<"price", Shown(k)>>}
    BY <2>0 DEF AddTx, AtQuote, OnOpen, Bare
  <2>4. Foreseen(k, x)'
    BY <2>1, <2>2, <2>3 DEF Foreseen
  <2> QED BY <1>2, <1>4, <2>1, <2>4
<1>20. CASE RemoveQuoted(k)
  <2> DEFINE p == Chosen(k)
             amount == Free(p, seen[k]) \cup Vested(p, seen[k])
  <2>0. PICK x : x = RemoveTx(k, p)
    OBVIOUS
  <2>1. Send(k, <<{x}>>, "remains") /\ seen'[k] = seen[k] /\ Chosen(k)' = Chosen(k) /\ at[k] = "quoted"
    BY <1>6, <1>20, <2>0 DEF RemoveQuoted, Doing, At
  <2>2. <<"price", Shown(k)>> \in seen'[k]
    BY <1>18, <2>1
  <2>3. x.takes = <<0, 0>> /\ x.without = {}
    BY <2>0 DEF RemoveTx, AtQuote, OnOpen, Bare
  <2>4. x.needs \subseteq {<<"open", p>>, <<"price", Shown(k)>>, <<"matured", 0>>} \cup amount
    BY <2>0 DEF RemoveTx, AtQuote, OnOpen, Bare
  <2>5. amount \subseteq seen[k]
    BY DEF Free, Vested
  <2> HIDE DEF amount
  <2>6. Foreseen(k, x)'
    BY <2>1, <2>2, <2>3, <2>4, <2>5 DEF Foreseen
  <2> QED BY <1>2, <1>4, <2>1, <2>6
\* What stays of a position without liquidity is a fee, which is not kept.
<1>21. CASE RemoveRemains(k)
  <2>0. PICK p, x : p = Chosen(k) /\ x = ClaimTx(k, p)
    OBVIOUS
  <2>1. ReadButFee(k, p)
    BY <1>21, <2>0 DEF RemoveRemains
  <2>2. /\ seen'[k] = (seen[k] \ State(p)) \cup ((State(p) \ {<<"fee", p>>}) \cap facts)
        /\ Chosen(k)' = p
    <3>1. seen'[k] = (seen[k] \ State(p)) \cup ((State(p) \ {<<"fee", p>>}) \cap facts)
      BY <1>1, <2>1, LearnsButFee
    <3>2. \A f : f \notin State(p) => (f \in seen'[k] <=> f \in seen[k])
      BY <3>1
    <3> QED BY <2>0, <3>1, <3>2, ChosenStays
  <2>3. CASE HasLiquidity(p, facts)
    BY <1>2, <1>3, <1>21, <2>0, <2>3 DEF RemoveRemains, Return
  <2>4. CASE ~HasLiquidity(p, facts)
    <3>1. Send(k, <<{x}>>, "verified") \/ Goto(k, "verified")
      BY <1>21, <2>0, <2>4 DEF RemoveRemains, Goto
    <3>2. ((State(Chosen(k)) \ {<<"open", Chosen(k)>>}) \cap seen[k] = {})'
      <4>1. Liquidity(p) \cap facts = {}
        BY <2>4 DEF HasLiquidity
      <4>2. State(p) = Liquidity(p) \cup {<<"open", p>>, <<"fee", p>>}
        BY DEF State
      <4>4. (State(p) \ {<<"open", p>>}) \cap seen'[k] = {}
        BY <2>2, <4>1, <4>2
      <4> QED BY <2>2, <4>4
    <3>3. "verified" \in NewsPlaces
      BY DEF NewsPlaces, PositionPlaces
    <3>4. CASE Send(k, <<{x}>>, "verified")
      <4>1. x.without = {}
        BY <1>15, <2>0
      <4>2. Foreseen(k, x)'
        BY <1>16, <2>0, <2>2, <4>1
      <4> QED BY <1>1, <3>2, <3>3, <3>4, <4>2, NewsSend
    <3>5. CASE Goto(k, "verified")
      <4>1. at'[k] = "verified" /\ todo'[k] = <<>>
        BY <1>1, <3>5 DEF Goto, Send, Try, StudioInv, TypeOK, Shape, IsOf
      <4> QED BY <3>2, <3>3, <4>1 DEF NewsOK
    <3> QED BY <3>1, <3>4, <3>5
  <2> QED BY <2>3, <2>4
<1>22. CASE RemoveClose(k)
  <2>0. PICK x : x = CloseTx(k, Chosen(k))
    OBVIOUS
  <2>1. /\ Send(k, <<{x}>>, "returned") /\ seen'[k] = seen[k] /\ Chosen(k)' = Chosen(k)
        /\ at[k] = "verified" /\ job[k].cmd = "remove"
    BY <1>6, <1>22, <2>0 DEF RemoveClose, Doing, At
  <2>2. x.without \cap seen[k] = {}
    <3>1. (State(Chosen(k)) \ {<<"open", Chosen(k)>>}) \cap seen[k] = {}
      BY <1>1, <2>1 DEF NewsOK, PositionCall, PositionCommands
    <3> QED BY <1>15, <2>0, <3>1
  <2>3. Foreseen(k, x)'
    BY <1>16, <2>0, <2>1, <2>2
  <2> QED BY <1>2, <1>4, <2>1, <2>3
<1>23. CASE ClosePosition(k)
  <2>0. PICK p, x : p = Chosen(k) /\ x = CloseTx(k, p)
    OBVIOUS
  <2>1. Read(k, State(p))
    BY <1>23, <2>0 DEF ClosePosition
  <2>2. seen'[k] = (seen[k] \ State(p)) \cup (State(p) \cap facts) /\ Chosen(k)' = Chosen(k)
    BY <1>5, <2>1
  <2>3. CASE HasLiquidity(p, facts) \/ <<"fee", p>> \in facts
    BY <1>2, <1>3, <1>23, <2>0, <2>3 DEF ClosePosition, Return
  <2>4. CASE ~(HasLiquidity(p, facts) \/ <<"fee", p>> \in facts)
    <3>1. Send(k, <<{x}>>, "returned")
      BY <1>23, <2>0, <2>4 DEF ClosePosition
    <3>2. (State(p) \ {<<"open", p>>}) \cap facts = {}
      BY <2>4 DEF State, HasLiquidity
    <3>3. x.without \subseteq State(p) \ {<<"open", p>>}
      BY <1>15, <2>0
    <3>4. x.without \cap seen'[k] = {}
      BY <2>2, <3>2, <3>3
    <3>5. Foreseen(k, x)'
      BY <1>16, <2>0, <2>2, <3>4
    <3> QED BY <1>2, <1>4, <3>1, <3>5
  <2> QED BY <2>3, <2>4
<1> QED BY <1>7, <1>8, <1>9, <1>10, <1>11, <1>12, <1>13, <1>14, <1>17, <1>19, <1>20, <1>21, <1>22, <1>23
        DEF PositionStep

\* A command that goes on.
LEMMA NewsGoes ==
    ASSUME NewsInv, NEW k \in Call, Start(k) \/ Command(k), NEW j \in Call
    PROVE  NewsOK(j)'
<1>1. Goes(k)
  BY StartGoes, PositionGoes, PoolGoes, VaultGoes, ClaimGoes DEF NewsInv, Command
<1>2. NewsOK(j) /\ job' = job
  BY <1>1 DEF NewsInv, Goes
<1>3. CASE j # k
  <2>1. Rests(j)
    BY <1>1, <1>3 DEF Goes
  <2> QED BY <1>2, <2>1, NewsRests DEF Rests
<1>4. CASE ~PositionCall(k)
  <2>1. j = k => NewsOK(j)'
    BY <1>2, <1>4 DEF NewsOK, PositionCall
  <2> QED BY <1>3, <2>1
<1>5. CASE Start(k) /\ PositionCall(k)
  <2>1. Entry(job[k].cmd) = "position"
    BY <1>5 DEF Entry, PositionCall, PositionCommands, ClaimCommands
  <2>2. Goto(k, "position")
    BY <1>5, <2>1 DEF Start
  <2>3. "position" \in NewsPlaces \ {"verified"}
    BY DEF NewsPlaces
  <2>4. NewsOK(k)'
    BY <2>2, <2>3, NewsGoto DEF NewsInv
  <2> QED BY <1>3, <2>4
<1>6. CASE Command(k) /\ PositionCall(k)
  <2>1. NewsOK(k)'
    BY <1>6, NewsCommand, PositionForeseen
  <2> QED BY <1>3, <2>1
<1> QED BY <1>4, <1>5, <1>6

\* Of the variables of other calls, what k sends and hears changes none.
OnlyOf(k) ==
    /\ job' = job /\ seen' = seen
    /\ \A j \in Call \ {k} : at'[j] = at[j] /\ todo'[j] = todo[j]

\* A position command sends one transaction at a time: it is through with all
\* of them, or has failed and ends.
LEMMA NewsNext ==
    ASSUME NewsInv, NEW k \in Call, todo[k] # <<>>, Next1(k)
    PROVE  OnlyOf(k) /\ NewsOK(k)'
<1>1. StudioInv /\ NewsOK(k) /\ IsOf(todo)
  BY DEF NewsInv, StudioInv, Shape
<1>2. /\ todo'[k] = Tail(todo[k]) /\ \A j \in Call \ {k} : todo'[j] = todo[j]
      /\ at' = at /\ seen' = seen /\ job' = job
  BY <1>1 DEF Next1, IsOf
<1>3. ASSUME PositionCall(k)
      PROVE  todo'[k] = <<>>
  <2>1. PICK x : todo[k] = <<{x}>>
    BY <1>1, <1>3 DEF NewsOK
  <2>2. IsQueue(todo[k]) /\ Len(todo[k]) = 1
    BY <1>1, <2>1, QueueOne
  <2> QED BY <1>2, <2>2, QueueTail
<1>4. Chosen(k)' = Chosen(k) /\ (PositionCall(k)' <=> PositionCall(k))
  BY <1>2 DEF Chosen, PositionCall
<1>5. ASSUME PositionCall(k)
      PROVE  NewsOK(k)'
  <2>1. /\ at[k] \in NewsPlaces /\ todo'[k] = <<>>
        /\ at[k] = "verified" => (State(Chosen(k)) \ {<<"open", Chosen(k)>>}) \cap seen[k] = {}
    BY <1>1, <1>3, <1>5 DEF NewsOK
  <2>2. (at[k] = "verified" => (State(Chosen(k)) \ {<<"open", Chosen(k)>>}) \cap seen[k] = {})'
    BY <1>2, <1>4, <2>1
  <2> QED BY <1>2, <2>1, <2>2 DEF NewsOK
<1> QED BY <1>2, <1>4, <1>5 DEF NewsOK, OnlyOf

LEMMA NewsLeaves ==
    ASSUME NewsInv, NEW k \in Call, NEW p, Leaves(k, p), PositionCall(k) => p = "stopped"
    PROVE  OnlyOf(k) /\ NewsOK(k)'
<1>1. /\ at'[k] = p /\ todo'[k] = <<>> /\ seen' = seen /\ job' = job
      /\ \A j \in Call \ {k} : at'[j] = at[j] /\ todo'[j] = todo[j]
  BY DEF Leaves, NewsInv, StudioInv, TypeOK, Shape, IsOf
<1>2. "stopped" \in NewsPlaces
  BY DEF NewsPlaces
<1>3. PositionCall(k)' <=> PositionCall(k)
  BY <1>1 DEF PositionCall
<1> QED BY <1>1, <1>2, <1>3 DEF NewsOK, OnlyOf

LEMMA NewsThrow ==
    ASSUME NewsInv, NEW k \in Call, NEW f \in Failures, Throw(k, f)
    PROVE  OnlyOf(k) /\ NewsOK(k)'
<1>1. Leaves(k, rescue[k][f])
  BY DEF Throw, Leaves
<1>2. PositionCall(k) => rescue[k][f] = "stopped"
  BY DEF NewsInv, StudioInv, PlaceOK, PositionCall, Claims, PositionCommands, ClaimCommands, Uncaught, CaughtAs
<1> QED BY <1>1, <1>2, NewsLeaves

LEMMA NewsMoves ==
    ASSUME NewsInv, NEW k \in Call, Delivery(k) \/ Fault(k) \/ Stop(k)
    PROVE  OnlyOf(k) /\ NewsOK(k)'
<1>1. CASE Simulate(k)
  BY <1>1, NewsNext, NewsThrow DEF Simulate, Prepared, Failures
<1>2. CASE Submit(k)
  <2>1. UNCHANGED <<at, todo, seen, job>>
    BY <1>2 DEF Submit
  <2> QED BY <2>1, NewsRests DEF OnlyOf, NewsInv
<1>3. CASE Refused(k)
  BY <1>3, NewsThrow DEF Refused, Failures
<1>4. CASE Confirmed(k)
  BY <1>4, NewsNext DEF Confirmed, Waiting
<1>5. CASE NotConfirmed(k)
  BY <1>5, NewsThrow DEF NotConfirmed, Failures
<1>6. CASE Fault(k)
  BY <1>6, NewsThrow DEF Fault, Failures
<1>7. CASE Stop(k)
  <2>1. Leaves(k, "stopped")
    BY <1>7 DEF Stop, Leaves
  <2> QED BY <2>1, NewsLeaves
<1> QED BY <1>1, <1>2, <1>3, <1>4, <1>5, <1>6, <1>7 DEF Delivery

LEMMA NewsNextInv == NewsInv /\ [Next]_vars => NewsInv'
<1> SUFFICES ASSUME NewsInv, [Next]_vars
             PROVE  NewsInv'
  OBVIOUS
<1>1. StudioInv'
  BY NextInv DEF NewsInv
<1>2. ASSUME NEW j \in Call
      PROVE  NewsOK(j)'
  <2>1. NewsOK(j)
    BY DEF NewsInv
  <2>2. ASSUME NEW k \in Call, Start(k) \/ Command(k)
        PROVE  NewsOK(j)'
    BY <2>2, NewsGoes
  <2>3. ASSUME NEW k \in Call, Delivery(k) \/ Fault(k) \/ Stop(k)
        PROVE  NewsOK(j)'
    <3>1. OnlyOf(k) /\ NewsOK(k)'
      BY <2>3, NewsMoves
    <3>2. j # k => NewsOK(j)'
      BY <2>1, <3>1, NewsRests DEF OnlyOf
    <3> QED BY <3>1, <3>2
  <2>4. ASSUME UNCHANGED <<processVars, job>>
        PROVE  NewsOK(j)'
    BY <2>1, <2>4, NewsRests DEF processVars
  <2>5. UNCHANGED vars \/ Cluster \/ World => UNCHANGED <<processVars, job>>
    BY DEF vars, Cluster, World
  <2> QED BY <2>2, <2>3, <2>4, <2>5 DEF Next
<1> QED BY <1>1, <1>2 DEF NewsInv

LEMMA NewsInitInv == Init => NewsInv
<1> SUFFICES ASSUME Init
             PROVE  \A k \in Call : NewsOK(k)
  BY InitInv DEF NewsInv
<1>1. ASSUME NEW k \in Call
      PROVE  at[k] = "idle" /\ todo[k] = <<>>
  BY DEF Init
<1> QED BY <1>1 DEF NewsOK, NewsPlaces

\* A position command is refused only for what changed after it had looked, or
\* for vested liquidity that is not due yet, never for an order of its own.
THEOREM RefusedCorrect == Spec => PositionRefusedForNews
<1>1. ASSUME NewsInv, NEW k \in Call, Refused(k), PositionCall(k)
      PROVE  \E x \in Batch(k) : ~Fits(x) /\ (Surprised(k, x) \/ <<"matured", 0>> \in x.needs \ facts)
  <2>1. PICK x \in Batch(k) : ~Passes(x)
    BY <1>1 DEF Refused
  <2>2. ~Fits(x) /\ ~x.blind
    BY <2>1 DEF Passes
  <2>3. Foreseen(k, x)
    <3>1. PICK y \in Batch(k) : todo[k] = <<{y}>> /\ Foreseen(k, y)
      BY <1>1 DEF NewsInv, NewsOK, Refused, Prepared
    <3>2. Batch(k) = {y}
      BY <3>1, QueueOne DEF Batch
    <3> QED BY <3>1, <3>2
  <2>4. \E s \in SUBSET Tokens(x) : Cardinality(s) = x.takes[2]
    <3>1. x.takes[2] = 0
      BY <2>2, <2>3 DEF Foreseen
    <3>2. {} \in SUBSET Tokens(x) /\ Cardinality({}) = 0
      BY FS_EmptySet
    <3> QED BY <3>1, <3>2
  <2>5. CASE \E f \in x.needs : f \notin facts
    <3>1. PICK f \in x.needs : f \notin facts
      BY <2>5
    <3>2. f \in seen[k] \/ f = <<"open", Chosen(k)>> \/ f = <<"matured", 0>>
      BY <2>2, <2>3 DEF Foreseen
    <3> QED BY <2>2, <3>1, <3>2 DEF Surprised
  <2>6. CASE x.without \cap facts # {}
    BY <2>2, <2>3, <2>6 DEF Foreseen, Surprised
  <2> QED BY <2>2, <2>4, <2>5, <2>6 DEF Fits
<1>2. NewsInv /\ [Next]_vars =>
          [\A k \in Call : Refused(k) /\ job[k].cmd \in {"split", "claimFee", "add", "remove", "close"} =>
              \E x \in Batch(k) :
                 ~Fits(x) /\ (Surprised(k, x) \/ <<"matured", 0>> \in x.needs \ facts)]_<<facts, processVars>>
  BY <1>1 DEF PositionCall, PositionCommands
<1>3. Spec => []NewsInv
  BY NewsInitInv, NewsNextInv, PTL DEF Spec
<1> QED BY <1>2, <1>3, PTL DEF Spec, PositionRefusedForNews

(***************************************************************************)
(* The whitelist tree.                                                     *)
(***************************************************************************)

\* A list of n elements, whatever they are.
IsLine(s, n) == n \in Nat /\ s = [i \in 1..n |-> s[i]]

LEMMA LineLen ==
    ASSUME NEW s, NEW n, IsLine(s, n)
    PROVE  n \in Nat /\ Len(s) = n /\ DOMAIN s = 1..n /\ s \in Seq({s[i] : i \in 1..n})
<1>1. s \in [1..n -> {s[i] : i \in 1..n}] /\ n \in Nat
  BY DEF IsLine
<1> QED BY <1>1

Longer(s, x) == s \o <<x>>

LEMMA LineEnd ==
    ASSUME NEW s, NEW n, IsLine(s, n), NEW x
    PROVE  /\ IsLine(Longer(s, x), n + 1) /\ Longer(s, x)[n + 1] = x
           /\ \A i \in 1..n : Longer(s, x)[i] = s[i]
<1> DEFINE T == {s[i] : i \in 1..n} \cup {x}
<1>1. n \in Nat /\ Len(s) = n /\ s \in Seq({s[i] : i \in 1..n})
  BY LineLen
<1>2. s \in Seq(T) /\ <<x>> \in Seq(T) /\ Len(<<x>>) = 1 /\ <<x>>[1] = x
  BY <1>1
<1> HIDE DEF T
<1>3. /\ (s \o <<x>>) \in Seq(T) /\ Len(s \o <<x>>) = n + 1
      /\ \A i \in 1..(n + 1) : (s \o <<x>>)[i] = IF i <= n THEN s[i] ELSE <<x>>[i - n]
  BY <1>1, <1>2
<1>4. (n + 1) - n = 1 /\ n + 1 \in 1..(n + 1) /\ ~(n + 1 <= n) /\ n + 1 \in Nat
  BY <1>1
<1>5. (s \o <<x>>)[n + 1] = x
  BY <1>2, <1>3, <1>4
<1>6. \A i \in 1..n : (s \o <<x>>)[i] = s[i]
  BY <1>1, <1>3
<1>7. IsLine(s \o <<x>>, n + 1)
  <2> DEFINE u == s \o <<x>>
  <2>1. u \in Seq(T) /\ Len(u) = n + 1
    BY <1>3
  <2> HIDE DEF u
  <2>2. u = [i \in 1..(n + 1) |-> u[i]]
    BY <2>1
  <2> QED BY <1>4, <2>2 DEF IsLine, u
<1> QED BY <1>5, <1>6, <1>7 DEF Longer

LEMMA HashFacts ==
    /\ \A a, b : combinedHash(a, b) = combinedHash(b, a)
    /\ \A a, b, x : combinedHash(a, x) = combinedHash(b, x) => a = b
    /\ \A d, e : toNode(d) = toNode(e) => d = e
<1>1. \A a, b : combinedHash(a, b) = combinedHash(b, a)
  <2>1. \A a, b : {a, b} = {b, a}
    OBVIOUS
  <2> QED BY <2>1 DEF combinedHash
<1>2. ASSUME NEW a, NEW b, NEW x, combinedHash(a, x) = combinedHash(b, x)
      PROVE  a = b
  <2>1. combinedHash(a, x).pair = {a, x} /\ combinedHash(b, x).pair = {b, x}
    BY DEF combinedHash
  <2>2. {a, x} = {b, x}
    BY <1>2, <2>1
  <2> QED BY <2>2
<1>3. ASSUME NEW d, NEW e, toNode(d) = toNode(e)
      PROVE  d = e
  <2>1. toNode(d).leaf = d /\ toNode(e).leaf = e
    BY DEF toNode
  <2> QED BY <1>3, <2>1
<1> QED BY <1>1, <1>2, <1>3

\* What is hashed along a proof, step by step.
LEMMA HashedSteps ==
    ASSUME NEW leaf, NEW proof, NEW n, IsLine(proof, n)
    PROVE  /\ Hashed(leaf, proof)[0] = leaf
           /\ \A i \in 1..n : Hashed(leaf, proof)[i] = combinedHash(Hashed(leaf, proof)[i - 1], proof[i])
<1> DEFINE Loop(f, m) == f = [i \in 0..m |-> IF i = 0 THEN leaf ELSE combinedHash(f[i - 1], proof[i])]
           Done == {m \in 0..n : \E f : Loop(f, m)}
<1>1. n \in Nat /\ Len(proof) = n
  BY LineLen
<1>2. 0 \in Done
  <2> DEFINE g == [i \in 0..0 |-> leaf]
  <2>1. Loop(g, 0)
    OBVIOUS
  <2>2. 0 \in 0..n
    BY <1>1
  <2> HIDE DEF Loop, g
  <2> QED BY <2>1, <2>2
<1>3. ASSUME NEW m \in 0..(n - 1), m \in Done
      PROVE  m + 1 \in Done
  <2>1. PICK f : Loop(f, m)
    BY <1>3
  <2> DEFINE g == [i \in 0..(m + 1) |-> IF i = m + 1 THEN combinedHash(f[m], proof[m + 1]) ELSE f[i]]
  <2>2. \A i \in 0..(m + 1) : g[i] = IF i = 0 THEN leaf ELSE combinedHash(g[i - 1], proof[i])
    <3> SUFFICES ASSUME NEW i \in 0..(m + 1)
                 PROVE  g[i] = IF i = 0 THEN leaf ELSE combinedHash(g[i - 1], proof[i])
      OBVIOUS
    <3>1. CASE i = m + 1
      <4>1. i # 0 /\ i - 1 = m /\ m \in 0..(m + 1) /\ m # m + 1
        BY <1>1, <3>1
      <4>2. g[i] = combinedHash(f[m], proof[i]) /\ g[m] = f[m]
        BY <3>1, <4>1
      <4> QED BY <4>1, <4>2
    <3>2. CASE i # m + 1
      <4>1. i \in 0..m /\ g[i] = f[i]
        BY <1>1, <3>2
      <4>2. f[i] = IF i = 0 THEN leaf ELSE combinedHash(f[i - 1], proof[i])
        BY <2>1, <4>1
      <4>3. i # 0 => i - 1 \in 0..(m + 1) /\ i - 1 # m + 1
        BY <1>1, <4>1
      <4>4. i # 0 => g[i - 1] = f[i - 1]
        BY <4>3
      <4> QED BY <4>1, <4>2, <4>4
    <3> QED BY <3>1, <3>2
  <2>3. g = [i \in 0..(m + 1) |-> g[i]]
    OBVIOUS
  <2> HIDE DEF g
  <2>4. Loop(g, m + 1)
    BY <2>2, <2>3
  <2> QED BY <1>1, <2>4
<1>4. n \in Done
  <2> HIDE DEF Done
  <2>1. 0..n \subseteq Done
    BY <1>1, <1>2, <1>3, UpTo
  <2> QED BY <1>1, <2>1
<1> DEFINE h == Hashed(leaf, proof)
<1>5. Loop(h, n)
  <2>1. h = CHOOSE f : Loop(f, n)
    BY <1>1 DEF Hashed
  <2> QED BY <1>4, <2>1
<1> HIDE DEF h
<1>6. \A i \in 0..n : h[i] = IF i = 0 THEN leaf ELSE combinedHash(h[i - 1], proof[i])
  BY <1>5
<1> QED BY <1>1, <1>6 DEF h

\* One more element of a proof is one more hash.
LEMMA HashedAppend ==
    ASSUME NEW leaf, NEW proof, NEW n, IsLine(proof, n), NEW x
    PROVE  Hashed(leaf, Longer(proof, x))[n + 1] = combinedHash(Hashed(leaf, proof)[n], x)
<1>1. n \in Nat
  BY LineLen
<1> DEFINE more == Longer(proof, x)
<1>2. IsLine(more, n + 1) /\ more[n + 1] = x /\ \A i \in 1..n : more[i] = proof[i]
  BY LineEnd
<1> HIDE DEF more
<1> DEFINE h == Hashed(leaf, proof)
           g == Hashed(leaf, more)
           Same == {i \in 0..n : g[i] = h[i]}
<1>3. h[0] = leaf /\ \A i \in 1..n : h[i] = combinedHash(h[i - 1], proof[i])
  BY HashedSteps
<1>4. g[0] = leaf /\ \A i \in 1..(n + 1) : g[i] = combinedHash(g[i - 1], more[i])
  BY <1>2, HashedSteps
<1> HIDE DEF g, h
<1>5. 0 \in Same
  BY <1>1, <1>3, <1>4
<1>6. \A i \in 0..(n - 1) : i \in Same => i + 1 \in Same
  <2> TAKE i \in 0..(n - 1)
  <2> HAVE i \in Same
  <2>1. i + 1 \in 1..n /\ i + 1 \in 1..(n + 1) /\ (i + 1) - 1 = i /\ i + 1 \in 0..n
    BY <1>1
  <2>2. g[i] = h[i] /\ more[i + 1] = proof[i + 1]
    BY <1>2, <2>1
  <2> QED BY <1>3, <1>4, <2>1, <2>2
<1>7. n \in Same
  <2> HIDE DEF Same
  <2>1. 0..n \subseteq Same
    BY <1>1, <1>5, <1>6, UpTo
  <2> QED BY <1>1, <2>1
<1>8. n + 1 \in 1..(n + 1) /\ (n + 1) - 1 = n
  BY <1>1
<1> QED BY <1>2, <1>4, <1>7, <1>8 DEF g, h, more

\* Different leaves stay different along the same proof.
LEMMA HashedApart ==
    ASSUME NEW a, NEW b, a # b, NEW proof, NEW n, IsLine(proof, n)
    PROVE  Hashed(a, proof)[n] # Hashed(b, proof)[n]
<1> DEFINE g == Hashed(a, proof)
           h == Hashed(b, proof)
           Apart == {i \in 0..n : g[i] # h[i]}
<1>1. n \in Nat
  BY LineLen
<1>2. /\ g[0] = a /\ \A i \in 1..n : g[i] = combinedHash(g[i - 1], proof[i])
      /\ h[0] = b /\ \A i \in 1..n : h[i] = combinedHash(h[i - 1], proof[i])
  BY HashedSteps
<1> HIDE DEF g, h
<1>3. 0 \in Apart
  BY <1>1, <1>2
<1>4. \A i \in 0..(n - 1) : i \in Apart => i + 1 \in Apart
  <2> TAKE i \in 0..(n - 1)
  <2> HAVE i \in Apart
  <2>1. i + 1 \in 1..n /\ (i + 1) - 1 = i /\ i + 1 \in 0..n
    BY <1>1
  <2>2. g[i + 1] = combinedHash(g[i], proof[i + 1]) /\ h[i + 1] = combinedHash(h[i], proof[i + 1])
    BY <1>2, <2>1
  <2>3. g[i + 1] # h[i + 1]
    BY <2>2, HashFacts
  <2> QED BY <2>1, <2>3
<1>5. 0..n \subseteq Apart
  <2> HIDE DEF Apart
  <2> QED BY <1>1, <1>3, <1>4, UpTo
<1> QED BY <1>1, <1>5 DEF g, h

\* The layers of a tree, one from the other.
LEMMA LayersSteps ==
    ASSUME NEW elements, NEW n, IsLine(elements, n), n >= 1
    PROVE  /\ DOMAIN Layers(elements) = 1..n
           /\ Layers(elements)[1] = elements
           /\ \A d \in 2..n : Layers(elements)[d] = getNextLayer(Layers(elements)[d - 1])
<1> DEFINE Loop(f, m) == f = [d \in 1..m |-> IF d = 1 THEN elements ELSE getNextLayer(f[d - 1])]
           Done == {m \in 0..n : \E f : Loop(f, m)}
<1>1. n \in Nat /\ Len(elements) = n
  BY LineLen
<1>2. 0 \in Done
  <2> DEFINE g == [d \in 1..0 |-> elements]
  <2>1. Loop(g, 0)
    OBVIOUS
  <2>2. 0 \in 0..n
    BY <1>1
  <2> HIDE DEF Loop, g
  <2> QED BY <2>1, <2>2
<1>3. ASSUME NEW m \in 0..(n - 1), m \in Done
      PROVE  m + 1 \in Done
  <2>1. PICK f : Loop(f, m)
    BY <1>3
  <2> DEFINE top == IF m = 0 THEN elements ELSE getNextLayer(f[m])
             g == [d \in 1..(m + 1) |-> IF d = m + 1 THEN top ELSE f[d]]
  <2>2. \A d \in 1..(m + 1) : g[d] = IF d = 1 THEN elements ELSE getNextLayer(g[d - 1])
    <3> SUFFICES ASSUME NEW d \in 1..(m + 1)
                 PROVE  g[d] = IF d = 1 THEN elements ELSE getNextLayer(g[d - 1])
      OBVIOUS
    <3>1. CASE d = m + 1
      <4>1. g[d] = top /\ (m = 0 <=> d = 1)
        BY <1>1, <3>1
      <4>2. m # 0 => d - 1 = m /\ m \in 1..(m + 1) /\ m # m + 1
        BY <1>1, <3>1
      <4>3. m # 0 => g[d - 1] = f[m]
        BY <4>2
      <4> QED BY <4>1, <4>3
    <3>2. CASE d # m + 1
      <4>1. d \in 1..m /\ g[d] = f[d]
        BY <1>1, <3>2
      <4>2. f[d] = IF d = 1 THEN elements ELSE getNextLayer(f[d - 1])
        BY <2>1, <4>1
      <4>3. d # 1 => d - 1 \in 1..(m + 1) /\ d - 1 # m + 1
        BY <1>1, <4>1
      <4>4. d # 1 => g[d - 1] = f[d - 1]
        BY <4>3
      <4> QED BY <4>1, <4>2, <4>4
    <3> QED BY <3>1, <3>2
  <2>3. g = [d \in 1..(m + 1) |-> g[d]]
    OBVIOUS
  <2> HIDE DEF g
  <2>4. Loop(g, m + 1)
    BY <2>2, <2>3
  <2> QED BY <1>1, <2>4
<1>4. n \in Done
  <2> HIDE DEF Done
  <2>1. 0..n \subseteq Done
    BY <1>1, <1>2, <1>3, UpTo
  <2> QED BY <1>1, <2>1
<1> DEFINE h == Layers(elements)
<1>5. Loop(h, n)
  <2>1. h = CHOOSE f : Loop(f, n)
    BY <1>1 DEF Layers
  <2> QED BY <1>4, <2>1
<1> HIDE DEF h
<1>6. DOMAIN h = 1..n /\ \A d \in 1..n : h[d] = IF d = 1 THEN elements ELSE getNextLayer(h[d - 1])
  BY <1>5
<1> QED BY <1>1, <1>6 DEF h

\* A layer is half as long as the one below, rounded up.
LEMMA NextLayer ==
    ASSUME NEW layer, NEW m, IsLine(layer, m), m >= 1
    PROVE  LET up == getNextLayer(layer)  h == (m + 1) \div 2 IN
             /\ IsLine(up, h) /\ h >= 1 /\ (h = 1 \/ h <= m - 1)
             /\ m = 1 => h = 1
             /\ \A i \in 1..h : up[i] = IF 2 * i <= m THEN combinedHash(layer[2 * i - 1], layer[2 * i])
                                       ELSE layer[2 * i - 1]
<1> DEFINE up == getNextLayer(layer)
           h == (m + 1) \div 2
<1>1. m \in Nat /\ Len(layer) = m
  BY LineLen
<1>2. h \in Nat /\ h >= 1 /\ (h = 1 \/ h <= m - 1) /\ (m = 1 => h = 1)
  BY <1>1
<1>3. up = [i \in 1..h |-> IF 2 * i <= m THEN combinedHash(layer[2 * i - 1], layer[2 * i])
                           ELSE layer[2 * i - 1]]
  BY <1>1 DEF getNextLayer
<1> HIDE DEF up, h
<1>4. up = [i \in 1..h |-> up[i]]
  BY <1>3
<1> QED BY <1>2, <1>3, <1>4 DEF IsLine, up, h


\* A list of something ends in a layer with one element.
IsTree(tree, top, elements) ==
    /\ IsLine(tree, top) /\ top >= 1
    /\ tree[1] = elements
    /\ \A d \in 2..top : tree[d] = getNextLayer(tree[d - 1])
    /\ \A d \in 1..top : \E m \in Nat \ {0} : IsLine(tree[d], m)
    /\ IsLine(tree[top], 1)

LEMMA TreeShape ==
    ASSUME NEW elements, NEW n, IsLine(elements, n), n >= 1
    PROVE  \E top \in 1..n : IsTree(getLayers(elements), top, elements)
<1> DEFINE h == Layers(elements)
           Small(d) == \E m \in 1..n : IsLine(h[d], m) /\ (m = 1 \/ m <= n - d + 1)
           Done == {i \in 0..(n - 1) : Small(i + 1)}
           Single == {d \in 1..n : Len(h[d]) = 1}
<1>1. n \in Nat /\ Len(elements) = n
  BY LineLen
<1>2. /\ h[1] = elements
      /\ \A d \in 2..n : h[d] = getNextLayer(h[d - 1])
  BY LayersSteps
<1>3. getLayers(elements) =
        LET last == CHOOSE d \in 1..n : Len(h[d]) = 1 /\ \A e \in 1..(d - 1) : Len(h[e]) > 1
        IN  [d \in 1..last |-> h[d]]
  BY <1>1 DEF getLayers
<1> HIDE DEF h
<1>4. 0 \in Done
  <2>1. n \in 1..n /\ n <= n - (0 + 1) + 1 /\ 0 \in 0..(n - 1) /\ 0 + 1 = 1
    BY <1>1
  <2>2. IsLine(h[0 + 1], n)
    BY <1>2, <2>1
  <2>3. Small(0 + 1)
    BY <2>1, <2>2
  <2> QED BY <2>1, <2>3
<1>5. \A i \in 0..((n - 1) - 1) : i \in Done => i + 1 \in Done
  <2> TAKE i \in 0..((n - 1) - 1)
  <2> HAVE i \in Done
  <2>1. i \in Nat /\ i + 1 \in 0..(n - 1) /\ (i + 1) + 1 \in 2..n /\ ((i + 1) + 1) - 1 = i + 1
    BY <1>1
  <2>2. PICK m \in 1..n : IsLine(h[i + 1], m) /\ (m = 1 \/ m <= n - (i + 1) + 1)
    OBVIOUS
  <2> DEFINE u == (m + 1) \div 2
  <2>3. m \in Nat /\ m >= 1 /\ m <= n
    BY <1>1
  <2>4. h[(i + 1) + 1] = getNextLayer(h[i + 1])
    BY <1>2, <2>1
  <2>5. IsLine(getNextLayer(h[i + 1]), u) /\ u >= 1 /\ (u = 1 \/ u <= m - 1) /\ (m = 1 => u = 1)
    <3> HIDE DEF u
    <3>1. LET up == getNextLayer(h[i + 1]) IN IsLine(up, (m + 1) \div 2) /\ (m + 1) \div 2 >= 1
             /\ ((m + 1) \div 2 = 1 \/ (m + 1) \div 2 <= m - 1) /\ (m = 1 => (m + 1) \div 2 = 1)
      BY <2>2, <2>3, NextLayer
    <3> QED BY <3>1 DEF u
  <2>6. u \in Nat
    BY <2>5 DEF IsLine
  <2> HIDE DEF u
  <2>7. u \in 1..n /\ (u = 1 \/ u <= n - ((i + 1) + 1) + 1)
    BY <1>1, <2>1, <2>2, <2>3, <2>5, <2>6
  <2>8. Small((i + 1) + 1)
    BY <2>4, <2>5, <2>7
  <2> QED BY <2>1, <2>8
<1>6. 0..(n - 1) \subseteq Done
  <2> HIDE DEF Done
  <2> QED BY <1>1, <1>4, <1>5, UpTo
<1>7. \A d \in 1..n : Small(d)
  <2> TAKE d \in 1..n
  <2>1. d - 1 \in 0..(n - 1) /\ (d - 1) + 1 = d
    BY <1>1
  <2>2. d - 1 \in Done
    BY <1>6, <2>1
  <2> HIDE DEF Small
  <2> QED BY <2>1, <2>2
<1>8. \A d \in 1..n : \E m \in 1..n : IsLine(h[d], m) /\ Len(h[d]) = m
  <2> TAKE d \in 1..n
  <2>1. PICK m \in 1..n : IsLine(h[d], m)
    BY <1>7
  <2> QED BY <2>1, LineLen
<1>9. n \in Single
  <2>1. PICK m \in 1..n : IsLine(h[n], m) /\ (m = 1 \/ m <= n - n + 1)
    BY <1>1, <1>7
  <2>2. m = 1 /\ n \in 1..n
    BY <1>1, <2>1
  <2>3. Len(h[n]) = 1
    BY <2>1, <2>2, LineLen
  <2> QED BY <2>2, <2>3
<1> HIDE DEF Small, Done
<1> DEFINE IsLast(d) == Len(h[d]) = 1 /\ \A e \in 1..(d - 1) : Len(h[e]) > 1
<1>10. \E d \in 1..n : IsLast(d)
  <2>1. Single \in SUBSET (1..n) /\ Single # {}
    BY <1>9
  <2>2. PICK d \in Single : \A e \in Single : d =< e
    <3> HIDE DEF Single
    <3> QED BY <1>1, <2>1, FirstExists
  <2>3. d \in 1..n /\ Len(h[d]) = 1
    OBVIOUS
  <2>4. ASSUME NEW e \in 1..(d - 1)
        PROVE  Len(h[e]) > 1
    <3>1. e \in 1..n /\ ~(d =< e)
      BY <1>1, <2>3
    <3>2. e \notin Single
      BY <2>2, <3>1
    <3>3. Len(h[e]) # 1
      BY <3>1, <3>2
    <3>4. Len(h[e]) \in 1..n
      BY <1>8, <3>1
    <3>5. \A m \in 1..n : m # 1 => m > 1
      BY <1>1
    <3> QED BY <3>3, <3>4, <3>5, Zenon
  <2> QED BY <2>3, <2>4
<1> DEFINE top == CHOOSE d \in 1..n : IsLast(d)
           tree == getLayers(elements)
<1>11. tree = [d \in 1..top |-> h[d]]
  BY <1>3
<1>12. top \in 1..n /\ Len(h[top]) = 1
  BY <1>10
<1> HIDE DEF top, tree
<1>13. top \in Nat /\ top >= 1 /\ 1..top \subseteq 1..n
  BY <1>1, <1>12
<1>14. \A d \in 1..top : tree[d] = h[d]
  BY <1>11
<1>15. IsLine(tree, top)
  <2>1. tree = [d \in 1..top |-> tree[d]]
    BY <1>11
  <2> QED BY <1>13, <2>1 DEF IsLine
<1>16. tree[1] = elements
  BY <1>2, <1>13, <1>14
<1>17. \A d \in 2..top : tree[d] = getNextLayer(tree[d - 1])
  <2> TAKE d \in 2..top
  <2>1. d \in 1..top /\ d - 1 \in 1..top /\ d \in 2..n
    BY <1>1, <1>12
  <2> QED BY <1>2, <1>14, <2>1
<1>18. \A d \in 1..top : \E m \in Nat \ {0} : IsLine(tree[d], m)
  <2> TAKE d \in 1..top
  <2>1. PICK m \in 1..n : IsLine(h[d], m)
    BY <1>8, <1>13
  <2>2. m \in Nat \ {0}
    BY <1>1
  <2> QED BY <1>14, <2>1, <2>2
<1>19. IsLine(tree[top], 1)
  <2>1. PICK m \in 1..n : IsLine(h[top], m) /\ Len(h[top]) = m
    BY <1>8, <1>12
  <2>2. m = 1
    BY <1>12, <2>1
  <2>3. top \in 1..top
    BY <1>13
  <2>4. tree[top] = h[top]
    BY <1>14, <2>3
  <2> QED BY <2>1, <2>2, <2>4
<1>20. IsTree(tree, top, elements)
  BY <1>13, <1>15, <1>16, <1>17, <1>18, <1>19 DEF IsTree
<1> QED BY <1>12, <1>20 DEF tree

\* The way up through a tree, layer by layer.
LEMMA WalkSteps ==
    ASSUME NEW tree, NEW top, IsLine(tree, top), NEW start
    PROVE  LET walk == Walk(tree, start) IN
             /\ walk[0] = [idx |-> start, proof |-> <<>>]
             /\ \A d \in 1..top : walk[d] = Climbed(walk[d - 1], tree[d])
<1> DEFINE first == [idx |-> start, proof |-> <<>>]
           Loop(f, m) == f = [d \in 0..m |-> IF d = 0 THEN first ELSE Climbed(f[d - 1], tree[d])]
           Done == {m \in 0..top : \E f : Loop(f, m)}
           h == Walk(tree, start)
<1>1. top \in Nat /\ Len(tree) = top
  BY LineLen
<1>2. h = CHOOSE f : Loop(f, top)
  BY <1>1 DEF Walk
<1> HIDE DEF h, first
<1>3. 0 \in Done
  <2> DEFINE g == [d \in 0..0 |-> first]
  <2>1. Loop(g, 0)
    OBVIOUS
  <2>2. 0 \in 0..top
    BY <1>1
  <2> HIDE DEF Loop, g
  <2> QED BY <2>1, <2>2
<1>4. ASSUME NEW m \in 0..(top - 1), m \in Done
      PROVE  m + 1 \in Done
  <2>1. PICK f : Loop(f, m)
    BY <1>4
  <2> DEFINE g == [d \in 0..(m + 1) |-> IF d = m + 1 THEN Climbed(f[m], tree[m + 1]) ELSE f[d]]
  <2>2. \A d \in 0..(m + 1) : g[d] = IF d = 0 THEN first ELSE Climbed(g[d - 1], tree[d])
    <3> SUFFICES ASSUME NEW d \in 0..(m + 1)
                 PROVE  g[d] = IF d = 0 THEN first ELSE Climbed(g[d - 1], tree[d])
      OBVIOUS
    <3>1. CASE d = m + 1
      <4>1. d # 0 /\ d - 1 = m /\ m \in 0..(m + 1) /\ m # m + 1
        BY <1>1, <3>1
      <4>2. g[d] = Climbed(f[m], tree[d]) /\ g[m] = f[m]
        BY <3>1, <4>1
      <4> QED BY <4>1, <4>2
    <3>2. CASE d # m + 1
      <4>1. d \in 0..m /\ g[d] = f[d]
        BY <1>1, <3>2
      <4>2. f[d] = IF d = 0 THEN first ELSE Climbed(f[d - 1], tree[d])
        BY <2>1, <4>1
      <4>3. d # 0 => d - 1 \in 0..(m + 1) /\ d - 1 # m + 1
        BY <1>1, <4>1
      <4>4. d # 0 => g[d - 1] = f[d - 1]
        BY <4>3
      <4> QED BY <4>1, <4>2, <4>4
    <3> QED BY <3>1, <3>2
  <2>3. g = [d \in 0..(m + 1) |-> g[d]]
    OBVIOUS
  <2> HIDE DEF g
  <2>4. Loop(g, m + 1)
    BY <2>2, <2>3
  <2> QED BY <1>1, <2>4
<1>5. top \in Done
  <2> HIDE DEF Done
  <2>1. 0..top \subseteq Done
    BY <1>1, <1>3, <1>4, UpTo
  <2> QED BY <1>1, <2>1
<1>6. Loop(h, top)
  BY <1>2, <1>5
<1>7. \A d \in 0..top : h[d] = IF d = 0 THEN first ELSE Climbed(h[d - 1], tree[d])
  BY <1>6
<1>8. h[0] = first /\ \A d \in 1..top : h[d] = Climbed(h[d - 1], tree[d])
  BY <1>1, <1>7
<1> QED BY <1>8 DEF h, first


LEMMA ClimbedFacts ==
    ASSUME NEW w, NEW layer, NEW c, IsLine(w.proof, c)
    PROVE  LET pair == IF w.idx % 2 = 0 THEN w.idx + 1 ELSE w.idx - 1 IN
             /\ Climbed(w, layer).idx = w.idx \div 2
             /\ Climbed(w, layer).proof =
                  IF pair < Len(layer) THEN Longer(w.proof, layer[pair + 1]) ELSE w.proof
<1> DEFINE pair == IF w.idx % 2 = 0 THEN w.idx + 1 ELSE w.idx - 1
           proof == w.proof
<1>1. Climbed(w, layer).idx = w.idx \div 2
  BY DEF Climbed
<1>2. Climbed(w, layer).proof = proof \o (IF pair < Len(layer) THEN <<layer[pair + 1]>> ELSE <<>>)
  BY DEF Climbed, getPairElement
<1>3. proof \in Seq({proof[i] : i \in 1..c})
  BY LineLen
<1> HIDE DEF proof, pair
<1>4. proof \o <<>> = proof
  BY <1>3
<1>5. CASE pair < Len(layer)
  <2>1. Climbed(w, layer).proof = proof \o <<layer[pair + 1]>>
    BY <1>2, <1>5
  <2> QED BY <1>1, <1>5, <2>1 DEF proof, pair, Longer
<1>6. CASE ~(pair < Len(layer))
  <2>1. Climbed(w, layer).proof = proof
    BY <1>2, <1>4, <1>6
  <2> QED BY <1>1, <1>6, <2>1 DEF proof, pair
<1> QED BY <1>5, <1>6

\* Hashed with what the way up has collected, the leaf gives the element of
\* each layer that the way leads to, and at last the root.
LEMMA ProofClimbs ==
    ASSUME NEW tree, NEW top, NEW elements, NEW n, IsLine(elements, n), n >= 1,
           IsTree(tree, top, elements), NEW place \in 1..n
    PROVE  LET proof == Walk(tree, place - 1)[top].proof IN
             \E c \in Nat : IsLine(proof, c) /\ Hashed(elements[place], proof)[c] = tree[top][1]
<1> DEFINE walk == Walk(tree, place - 1)
           leaf == elements[place]
           Leads(idx, proof, layer) ==
               /\ \E m \in Nat \ {0} : IsLine(layer, m) /\ idx \in 0..(m - 1)
               /\ \E c \in Nat : IsLine(proof, c) /\ Hashed(leaf, proof)[c] = layer[idx + 1]
           Good(d) == Leads(walk[d].idx, walk[d].proof, tree[d + 1])
           Done == {d \in 0..(top - 1) : Good(d)}
<1>1. n \in Nat /\ top \in Nat /\ top >= 1
  BY LineLen DEF IsTree
<1>2. /\ walk[0] = [idx |-> place - 1, proof |-> <<>>]
      /\ \A d \in 1..top : walk[d] = Climbed(walk[d - 1], tree[d])
  BY WalkSteps DEF IsTree
<1> HIDE DEF walk
<1>3. \A proof : proof = <<>> => IsLine(proof, 0)
  BY DEF IsLine
<1>4. 0 \in Done
  <2>1. walk[0].idx = place - 1 /\ walk[0].proof = <<>> /\ tree[0 + 1] = elements
    BY <1>2 DEF IsTree
  <2>2. place - 1 \in 0..(n - 1) /\ (place - 1) + 1 = place /\ n \in Nat \ {0} /\ 0 \in 0..(top - 1) /\ 0 \in Nat
    BY <1>1
  <2>3. IsLine(walk[0].proof, 0)
    BY <1>3, <2>1
  <2>4. Hashed(leaf, walk[0].proof)[0] = leaf
    <3> HIDE DEF leaf
    <3> QED BY <2>3, HashedSteps
  <2>5. Good(0)
    BY <2>1, <2>2, <2>3, <2>4
  <2> HIDE DEF Good
  <2> QED BY <2>2, <2>5
<1> HIDE DEF leaf
\* One layer up.
<1>5. ASSUME NEW w, NEW layer, Leads(w.idx, w.proof, layer)
      PROVE  Leads(Climbed(w, layer).idx, Climbed(w, layer).proof, getNextLayer(layer))
  <2> DEFINE idx == w.idx
             proof == w.proof
             more == Climbed(w, layer).proof
  <2>1. PICK m \in Nat \ {0} : IsLine(layer, m) /\ idx \in 0..(m - 1)
    BY <1>5
  <2>2. PICK c \in Nat : IsLine(proof, c) /\ Hashed(leaf, proof)[c] = layer[idx + 1]
    BY <1>5
  <2> DEFINE q == idx \div 2
             u == (m + 1) \div 2
             up == getNextLayer(layer)
             pair == IF idx % 2 = 0 THEN idx + 1 ELSE idx - 1
  <2>3. m \in Nat /\ m >= 1 /\ Len(layer) = m
    <3>1. Len(layer) = m
      BY <2>1, LineLen
    <3> QED BY <2>1, <3>1
  <2>4. /\ IsLine(up, u) /\ u >= 1
        /\ \A i \in 1..u : up[i] = IF 2 * i <= m THEN combinedHash(layer[2 * i - 1], layer[2 * i])
                                   ELSE layer[2 * i - 1]
    BY <2>1, <2>3, NextLayer
  <2>5. u \in Nat
    BY <2>4 DEF IsLine
  <2>6. /\ q \in 0..(u - 1) /\ q + 1 \in 1..u
        /\ idx % 2 = 0 => 2 * (q + 1) - 1 = idx + 1 /\ 2 * (q + 1) = idx + 2
        /\ idx % 2 # 0 => 2 * (q + 1) - 1 = idx /\ 2 * (q + 1) = idx + 1
    BY <2>1, <2>3
  <2>7. /\ Climbed(w, layer).idx = q
        /\ more = IF pair < m THEN Longer(proof, layer[pair + 1]) ELSE proof
    BY <2>2, <2>3, ClimbedFacts
  <2> HIDE DEF q, u, up, Leads, more, idx, proof
  <2>8. up[q + 1] = IF 2 * (q + 1) <= m THEN combinedHash(layer[2 * (q + 1) - 1], layer[2 * (q + 1)])
                    ELSE layer[2 * (q + 1) - 1]
    BY <2>4, <2>6
  <2>9. \E h \in Nat : IsLine(more, h) /\ Hashed(leaf, more)[h] = up[q + 1]
    <3>1. CASE pair < m
      <4> DEFINE x == layer[pair + 1]
      <4>1. more = Longer(proof, x)
        BY <2>7, <3>1
      <4>2. /\ IsLine(Longer(proof, x), c + 1)
            /\ Hashed(leaf, Longer(proof, x))[c + 1] = combinedHash(Hashed(leaf, proof)[c], x)
        BY <2>2, LineEnd, HashedAppend
      <4>3. up[q + 1] = combinedHash(layer[idx + 1], x)
        <5>1. CASE idx % 2 = 0
          <6>1. pair + 1 = idx + 2 /\ 2 * (q + 1) <= m
            BY <2>1, <2>3, <2>6, <3>1, <5>1
          <6> QED BY <2>6, <2>8, <5>1, <6>1
        <5>2. CASE idx % 2 # 0
          <6>1. pair + 1 = idx /\ 2 * (q + 1) <= m
            BY <2>1, <2>3, <2>6, <5>2
          <6>2. up[q + 1] = combinedHash(layer[idx], layer[idx + 1])
            BY <2>6, <2>8, <5>2, <6>1
          <6>3. up[q + 1] = combinedHash(layer[idx + 1], layer[idx])
            BY <6>2, HashFacts
          <6> QED BY <6>1, <6>3
        <5> QED BY <5>1, <5>2
      <4>4. Hashed(leaf, more)[c + 1] = up[q + 1]
        BY <2>2, <4>1, <4>2, <4>3
      <4>5. c + 1 \in Nat /\ IsLine(more, c + 1)
        BY <4>1, <4>2
      <4> QED BY <4>4, <4>5
    <3>2. CASE ~(pair < m)
      <4>1. idx % 2 = 0 /\ ~(2 * (q + 1) <= m)
        BY <2>1, <2>3, <2>6, <3>2
      <4>2. up[q + 1] = layer[idx + 1]
        BY <2>6, <2>8, <4>1
      <4>3. more = proof
        BY <2>7, <3>2
      <4> QED BY <2>2, <4>2, <4>3
    <3> QED BY <3>1, <3>2
  <2>10. u \in Nat \ {0}
    BY <2>4, <2>5
  <2>11. Leads(q, more, up)
    BY <2>4, <2>6, <2>9, <2>10 DEF Leads
  <2> QED BY <2>7, <2>11 DEF up, more
<1>6. \A d \in 0..((top - 1) - 1) : d \in Done => d + 1 \in Done
  <2> TAKE d \in 0..((top - 1) - 1)
  <2> HAVE d \in Done
  <2>1. /\ d + 1 \in 0..(top - 1) /\ d + 1 \in 1..top /\ (d + 1) - 1 = d
        /\ (d + 1) + 1 \in 2..top /\ ((d + 1) + 1) - 1 = d + 1
    BY <1>1
  <2>2. walk[d + 1] = Climbed(walk[d], tree[d + 1])
    BY <1>2, <2>1
  <2>3. tree[(d + 1) + 1] = getNextLayer(tree[d + 1])
    BY <2>1 DEF IsTree
  <2>4. Leads(walk[d].idx, walk[d].proof, tree[d + 1])
    OBVIOUS
  <2> HIDE DEF Leads
  <2>5. Leads(walk[d + 1].idx, walk[d + 1].proof, getNextLayer(tree[d + 1]))
    BY <1>5, <2>2, <2>4
  <2> QED BY <2>1, <2>2, <2>3, <2>5
<1>7. top - 1 \in Done
  <2> HIDE DEF Done
  <2>1. top - 1 \in Nat /\ top - 1 \in 0..(top - 1)
    BY <1>1
  <2>2. 0..(top - 1) \subseteq Done
    BY <1>4, <1>6, <2>1, UpTo
  <2> QED BY <2>1, <2>2
\* The last layer is the root alone: nothing is added there.
<1>8. (top - 1) + 1 = top /\ top \in 1..top
  BY <1>1
<1>9. Leads(walk[top - 1].idx, walk[top - 1].proof, tree[top])
  BY <1>7, <1>8
<1>10. IsLine(tree[top], 1) /\ Len(tree[top]) = 1
  BY LineLen DEF IsTree
<1>11. walk[top - 1].idx = 0
  <2>1. PICK m \in Nat \ {0} : IsLine(tree[top], m) /\ walk[top - 1].idx \in 0..(m - 1)
    BY <1>9
  <2>2. m = 1
    <3>1. Len(tree[top]) = m
      BY <2>1, LineLen
    <3> QED BY <1>10, <3>1
  <2> QED BY <2>1, <2>2
<1>12. PICK c \in Nat : IsLine(walk[top - 1].proof, c) /\ Hashed(leaf, walk[top - 1].proof)[c] = tree[top][0 + 1]
  BY <1>9, <1>11
<1>13. walk[top].proof = walk[top - 1].proof
  <2>1. walk[top] = Climbed(walk[top - 1], tree[top])
    BY <1>2, <1>8
  <2>2. 0 % 2 = 0 /\ ~(0 + 1 < 1)
    OBVIOUS
  <2> DEFINE w == walk[top - 1]
             pair == IF w.idx % 2 = 0 THEN w.idx + 1 ELSE w.idx - 1
  <2>3. Climbed(w, tree[top]).proof =
          IF pair < Len(tree[top]) THEN Longer(w.proof, tree[top][pair + 1]) ELSE w.proof
    BY <1>12, ClimbedFacts
  <2>4. pair = 1
    BY <1>11, <2>2
  <2> HIDE DEF w, pair
  <2>5. ~(pair < Len(tree[top]))
    BY <1>10, <2>4
  <2>6. Climbed(w, tree[top]).proof = w.proof
    BY <2>3, <2>5
  <2> QED BY <2>1, <2>6 DEF w
<1> QED BY <1>12, <1>13 DEF walk, leaf


\* The leaves of a finite whitelist: a line, one for each entry.
LEMMA SortedLeaves ==
    ASSUME NEW S \in SUBSET Nat, IsFiniteSet(S), NEW e \in S
    PROVE  \E n \in Nat : /\ n >= 1 /\ IsLine(Sorted(S), n)
                          /\ \E i \in 1..n : Sorted(S)[i] = toNode(e)
<1> DEFINE c == Cardinality(S)
           line == Ascending(S)
<1>1. /\ c \in Nat /\ line \in [1..c -> S]
      /\ \A i \in S : \E m \in 1..c : line[m] = i
  <2>1. S \in SUBSET Int
    OBVIOUS
  <2> QED BY <2>1, AscendingLine
<1> HIDE DEF line, c
<1>2. PICK i \in 1..c : line[i] = e
  BY <1>1
<1>3. c >= 1
  BY <1>1, <1>2
<1>4. Sorted(S) = [m \in 1..c |-> toNode(line[m])]
  BY <1>1 DEF Sorted, line
<1>5. Sorted(S) = [m \in 1..c |-> Sorted(S)[m]] /\ Sorted(S)[i] = toNode(e)
  BY <1>2, <1>4
<1> QED BY <1>1, <1>3, <1>5 DEF IsLine

\* The proof written for an entry of a finite whitelist verifies against the
\* root of the list, for that entry alone.
LEMMA ProofVerifies ==
    ASSUME NEW S \in SUBSET Nat, IsFiniteSet(S), NEW e \in S
    PROVE  /\ verifyProof(e, getProof(S, e), getRoot(S))
           /\ \A d : d # e => ~verifyProof(d, getProof(S, e), getRoot(S))
<1> DEFINE elements == Sorted(S)
           tree == getLayers(elements)
           place == CHOOSE i \in DOMAIN elements : elements[i] = toNode(e)
           proof == getProof(S, e)
<1>1. PICK n \in Nat : /\ n >= 1 /\ IsLine(elements, n)
                       /\ \E i \in 1..n : elements[i] = toNode(e)
  BY SortedLeaves
<1> HIDE DEF elements
<1>2. place \in 1..n /\ elements[place] = toNode(e)
  <2>1. DOMAIN elements = 1..n
    BY <1>1, LineLen
  <2> QED BY <1>1, <2>1
<1>3. proof = Walk(tree, place - 1)[Len(tree)].proof /\ getRoot(S) = tree[Len(tree)][1]
  BY DEF getProof, getRoot, elements
<1> HIDE DEF tree, place, proof
<1>4. PICK top \in 1..n : IsTree(tree, top, elements)
  BY <1>1, TreeShape DEF tree
<1>5. Len(tree) = top
  <2>1. IsLine(tree, top)
    BY <1>4 DEF IsTree
  <2> QED BY <2>1, LineLen
<1>6. PICK c \in Nat : IsLine(proof, c) /\ Hashed(toNode(e), proof)[c] = tree[top][1]
  <2>1. LET p == Walk(tree, place - 1)[top].proof IN
          \E c \in Nat : IsLine(p, c) /\ Hashed(elements[place], p)[c] = tree[top][1]
    BY <1>1, <1>2, <1>4, ProofClimbs
  <2> QED BY <1>2, <1>3, <1>5, <2>1
<1>7. Len(proof) = c
  BY <1>6, LineLen
<1>8. verifyProof(e, proof, getRoot(S))
  BY <1>3, <1>5, <1>6, <1>7 DEF verifyProof
<1>9. ASSUME NEW d, d # e
      PROVE  ~verifyProof(d, proof, getRoot(S))
  <2>1. toNode(d) # toNode(e)
    BY <1>9, HashFacts
  <2>2. Hashed(toNode(d), proof)[c] # Hashed(toNode(e), proof)[c]
    BY <1>6, <2>1, HashedApart
  <2> QED BY <1>3, <1>5, <1>6, <1>7, <2>2 DEF verifyProof
<1> QED BY <1>8, <1>9 DEF proof

\* Every whitelist 1..n, odd ones included.
LEMMA WholeListsVerify == WholeListVerifies
<1>1. SUFFICES ASSUME NEW n \in 1..MaxLeaves, NEW entry \in 1..n
               PROVE  LET proof == getProof(1..n, entry)
                          root == getRoot(1..n)
                      IN verifyProof(entry, proof, root) /\ ~verifyProof(n + 1, proof, root)
  BY DEF WholeListVerifies
<1>2. n \in Nat /\ 1..n \in SUBSET Nat /\ n + 1 # entry
  BY LeavesAssumption
<1>3. IsFiniteSet(1..n)
  BY <1>2, FS_Interval
<1> QED BY <1>2, <1>3, ProofVerifies


-----------------------------------------------------------------------------
(* Shares of a balance.                                                    *)

LEMMA SumsSteps ==
    ASSUME NEW s, NEW n, IsLine(s, n)
    PROVE  Sums(s)[0] = 0 /\ \A i \in 1..n : Sums(s)[i] = Sums(s)[i - 1] + s[i]
<1> DEFINE Loop(f, m) == f = [i \in 0..m |-> IF i = 0 THEN 0 ELSE f[i - 1] + s[i]]
           Done == {m \in 0..n : \E f : Loop(f, m)}
           h == Sums(s)
<1>1. n \in Nat /\ Len(s) = n
  BY LineLen
<1>2. h = CHOOSE f : Loop(f, n)
  BY <1>1 DEF Sums
<1> HIDE DEF h
<1>3. 0 \in Done
  <2> DEFINE g == [i \in 0..0 |-> 0]
  <2>1. Loop(g, 0)
    OBVIOUS
  <2>2. 0 \in 0..n
    BY <1>1
  <2> HIDE DEF Loop, g
  <2> QED BY <2>1, <2>2
<1>4. ASSUME NEW m \in 0..(n - 1), m \in Done
      PROVE  m + 1 \in Done
  <2>1. PICK f : Loop(f, m)
    BY <1>4
  <2> DEFINE g == [i \in 0..(m + 1) |-> IF i = m + 1 THEN f[m] + s[m + 1] ELSE f[i]]
  <2>2. \A i \in 0..(m + 1) : g[i] = IF i = 0 THEN 0 ELSE g[i - 1] + s[i]
    <3> SUFFICES ASSUME NEW i \in 0..(m + 1)
                 PROVE  g[i] = IF i = 0 THEN 0 ELSE g[i - 1] + s[i]
      OBVIOUS
    <3>1. CASE i = m + 1
      <4>1. i # 0 /\ i - 1 = m /\ m \in 0..(m + 1) /\ m # m + 1
        BY <1>1, <3>1
      <4>2. g[i] = f[m] + s[i] /\ g[m] = f[m]
        BY <3>1, <4>1
      <4> QED BY <4>1, <4>2
    <3>2. CASE i # m + 1
      <4>1. i \in 0..m /\ g[i] = f[i]
        BY <1>1, <3>2
      <4>2. f[i] = IF i = 0 THEN 0 ELSE f[i - 1] + s[i]
        BY <2>1, <4>1
      <4>3. i # 0 => i - 1 \in 0..(m + 1) /\ i - 1 # m + 1
        BY <1>1, <4>1
      <4>4. i # 0 => g[i - 1] = f[i - 1]
        BY <4>3
      <4> QED BY <4>1, <4>2, <4>4
    <3> QED BY <3>1, <3>2
  <2>3. g = [i \in 0..(m + 1) |-> g[i]]
    OBVIOUS
  <2> HIDE DEF g
  <2>4. Loop(g, m + 1)
    BY <2>2, <2>3
  <2> QED BY <1>1, <2>4
<1>5. n \in Done
  <2> HIDE DEF Done
  <2>1. 0..n \subseteq Done
    BY <1>1, <1>3, <1>4, UpTo
  <2> QED BY <1>1, <2>1
<1>6. Loop(h, n)
  BY <1>2, <1>5
<1>7. \A i \in 0..n : h[i] = IF i = 0 THEN 0 ELSE h[i - 1] + s[i]
  BY <1>6
<1> QED BY <1>1, <1>7 DEF h

\* Rounded down.
LEMMA Floor ==
    ASSUME NEW a \in Nat, NEW d \in Nat, d >= 1
    PROVE  a \div d \in Nat /\ (a \div d) * d <= a /\ a < (a \div d + 1) * d
<1> DEFINE q == a \div d
           r == a % d
<1>1. q \in Int /\ r \in 0..(d - 1) /\ a = d * q + r
  OBVIOUS
<1> HIDE DEF q, r
<1>2. d * q <= a /\ a < d * q + d
  BY <1>1
<1>3. q * d = d * q /\ (q + 1) * d = d * q + d
  BY <1>1
<1>4. q >= 0
  <2>1. SUFFICES ASSUME q + 1 <= 0
                 PROVE  FALSE
    BY <1>1
  <2>2. (q + 1) * d <= 0
    BY <1>1, <2>1
  <2> QED BY <1>1, <1>2, <1>3, <2>2
<1> QED BY <1>1, <1>2, <1>3, <1>4 DEF q

LEMMA TimesOrder ==
    ASSUME NEW a \in Nat, NEW b \in Nat, NEW d \in Nat
    PROVE  /\ a <= b => a * d <= b * d
           /\ d >= 1 /\ a * d <= b * d => a <= b
<1>1. a <= b => a * d <= b * d
  <2> HAVE a <= b
  <2>1. b = a + (b - a) /\ b - a \in Nat
    OBVIOUS
  <2>2. b * d = a * d + (b - a) * d /\ (b - a) * d >= 0
    BY <2>1
  <2> QED BY <2>2
<1>2. d >= 1 /\ a * d <= b * d => a <= b
  <2> SUFFICES ASSUME d >= 1, a * d <= b * d, b + 1 <= a
               PROVE  FALSE
    OBVIOUS
  <2>1. a = (b + 1) + (a - (b + 1)) /\ a - (b + 1) \in Nat
    OBVIOUS
  <2>2. a * d = (b + 1) * d + (a - (b + 1)) * d /\ (a - (b + 1)) * d >= 0 /\ (b + 1) * d = b * d + d
    BY <2>1
  <2> QED BY <2>2
<1> QED BY <1>1, <1>2


\* Cut into shares rounded down, the rest to the last, a balance is given
\* away completely, and no share is below its percentage rounded down.
LEMMA AmountsAddUp ==
    ASSUME NEW b \in Nat, NEW percents \in Seq(Nat), SumOf(percents) >= 1
    PROVE  LET amount == fromAllocationsToAmount(b, percents) IN
             /\ amount \in [DOMAIN percents -> 0..b]
             /\ SumOf(amount) = b
             /\ \A j \in DOMAIN amount : (amount[j] + 1) * SumOf(percents) > b * percents[j]
<1> DEFINE n == Len(percents)
           S == SumOf(percents)
           P == Sums(percents)
           share == [j \in 1..n |-> (b * percents[j]) \div S]
           Q == Sums(share)
           rest == b - Q[n - 1]
           amount == fromAllocationsToAmount(b, percents)
           R == Sums(amount)
<1>1. n \in Nat /\ DOMAIN percents = 1..n /\ IsLine(percents, n) /\ \A j \in 1..n : percents[j] \in Nat
  BY DEF IsLine
<1>2. P[0] = 0 /\ (\A i \in 1..n : P[i] = P[i - 1] + percents[i]) /\ S = P[n]
  BY <1>1, SumsSteps DEF SumOf
<1>3. IsLine(share, n) /\ Len(share) = n
  <2>1. IsLine(share, n)
    BY <1>1 DEF IsLine
  <2> QED BY <2>1, LineLen
<1>4. Q[0] = 0 /\ \A i \in 1..n : Q[i] = Q[i - 1] + share[i]
  <2> HIDE DEF share
  <2> QED BY <1>3, SumsSteps
<1>5. amount = [share EXCEPT ![n] = rest]
  <2>1. share = [j \in DOMAIN percents |-> (b * percents[j]) \div SumOf(percents)]
    BY <1>1
  <2> HIDE DEF share
  <2> QED BY <1>3, <2>1 DEF fromAllocationsToAmount
<1>6. \A j \in 1..n : share[j] = (b * percents[j]) \div S
  OBVIOUS
<1>7. IsLine(amount, n) /\ DOMAIN amount = 1..n /\ \A j \in 1..n : amount[j] = IF j = n THEN rest ELSE share[j]
  <2>1. DOMAIN share = 1..n
    OBVIOUS
  <2> HIDE DEF share, rest
  <2>2. amount = [j \in 1..n |-> IF j = n THEN rest ELSE share[j]]
    BY <1>5, <2>1
  <2> HIDE DEF amount
  <2>3. DOMAIN amount = 1..n /\ \A j \in 1..n : amount[j] = IF j = n THEN rest ELSE share[j]
    BY <2>2
  <2>4. amount = [j \in 1..n |-> amount[j]]
    BY <2>2
  <2> QED BY <1>1, <2>3, <2>4 DEF IsLine
<1>8. R[0] = 0 /\ (\A i \in 1..n : R[i] = R[i - 1] + amount[i]) /\ SumOf(amount) = R[n]
  <2> HIDE DEF amount
  <2>1. Len(amount) = n
    BY <1>7, LineLen
  <2> QED BY <1>7, <2>1, SumsSteps DEF SumOf
<1> HIDE DEF n, P, Q, R, share, amount, S, rest
<1> DEFINE Grown == {m \in 0..n : P[m] \in Nat /\ \A j \in 1..m : percents[j] <= P[m]}
<1>9. n \in Grown
  <2>1. 0 \in Grown
    BY <1>1, <1>2
  <2>2. \A i \in 0..(n - 1) : i \in Grown => i + 1 \in Grown
    <3> TAKE i \in 0..(n - 1)
    <3> HAVE i \in Grown
    <3>1. i + 1 \in 1..n /\ (i + 1) - 1 = i /\ i + 1 \in 0..n
      BY <1>1
    <3>2. P[i] \in Nat /\ percents[i + 1] \in Nat /\ P[i + 1] = P[i] + percents[i + 1]
      BY <1>1, <1>2, <3>1
    <3>3. \A j \in 1..(i + 1) : percents[j] <= P[i + 1]
      <4> TAKE j \in 1..(i + 1)
      <4>1. CASE j = i + 1
        BY <3>2, <4>1
      <4>2. CASE j # i + 1
        <5>1. j \in 1..i /\ j \in 1..n
          BY <1>1, <4>2
        <5>2. percents[j] \in Nat /\ percents[j] <= P[i]
          BY <1>1, <5>1
        <5> QED BY <3>2, <5>2
      <4> QED BY <4>1, <4>2
    <3> QED BY <3>1, <3>2, <3>3
  <2> HIDE DEF Grown
  <2>3. 0..n \subseteq Grown
    BY <1>1, <2>1, <2>2, UpTo
  <2> QED BY <1>1, <2>3
<1>10. S \in Nat /\ S >= 1 /\ \A j \in 1..n : percents[j] <= S
  <2>1. S >= 1
    BY DEF S
  <2> QED BY <1>2, <1>9, <2>1
<1>11. n >= 1 /\ n \in 1..n /\ n - 1 \in 0..n
  <2>1. n # 0
    BY <1>2, <1>10
  <2> QED BY <1>1, <2>1
<1>12. \A j \in 1..n : /\ share[j] \in Nat /\ b * percents[j] \in Nat
                       /\ share[j] * S <= b * percents[j] /\ b * percents[j] < (share[j] + 1) * S
  <2> TAKE j \in 1..n
  <2>1. percents[j] \in Nat
    BY <1>1
  <2>2. b * percents[j] \in Nat
    BY <2>1
  <2> QED BY <1>6, <1>10, <2>2, Floor
<1> DEFINE Below == {m \in 0..n : /\ P[m] \in Nat /\ Q[m] \in Nat /\ Q[m] * S <= b * P[m]
                                  /\ \A j \in 1..m : share[j] <= Q[m]}
<1>13. 0..n \subseteq Below
  <2>1. 0 \in Below
    <3>1. 0 * S <= b * 0
      BY <1>10
    <3> QED BY <1>1, <1>2, <1>4, <3>1
  <2>2. \A i \in 0..(n - 1) : i \in Below => i + 1 \in Below
    <3> TAKE i \in 0..(n - 1)
    <3> HAVE i \in Below
    <3>1. i + 1 \in 1..n /\ (i + 1) - 1 = i /\ i + 1 \in 0..n
      BY <1>1
    <3> DEFINE p == P[i]
               q == Q[i]
               x == percents[i + 1]
               y == share[i + 1]
    <3>2. /\ p \in Nat /\ q \in Nat /\ x \in Nat /\ y \in Nat
          /\ q * S <= b * p /\ y * S <= b * x
      BY <1>1, <1>12, <3>1
    <3>3. P[i + 1] = p + x /\ Q[i + 1] = q + y
      BY <1>2, <1>4, <3>1
    <3>4. \A j \in 1..(i + 1) : share[j] <= Q[i + 1]
      <4> TAKE j \in 1..(i + 1)
      <4>1. CASE j = i + 1
        BY <3>2, <3>3, <4>1
      <4>2. CASE j # i + 1
        <5>1. j \in 1..i /\ j \in 1..n
          BY <1>1, <4>2
        <5>2. share[j] \in Nat /\ share[j] <= Q[i]
          BY <1>12, <5>1
        <5> QED BY <3>2, <3>3, <5>2
      <4> QED BY <4>1, <4>2
    <3> HIDE DEF p, q, x, y
    <3>5. (q + y) * S <= b * (p + x)
      <4>1. (q + y) * S = q * S + y * S /\ b * (p + x) = b * p + b * x
        BY <1>10, <3>2
      <4>2. q * S \in Nat /\ y * S \in Nat /\ b * p \in Nat /\ b * x \in Nat
        BY <1>10, <3>2
      <4> QED BY <3>2, <4>1, <4>2
    <3>6. p + x \in Nat /\ q + y \in Nat
      BY <3>2
    <3> QED BY <3>1, <3>3, <3>4, <3>5, <3>6
  <2> HIDE DEF Below
  <2> QED BY <1>1, <2>1, <2>2, UpTo
<1> DEFINE p == P[n - 1]
           q == Q[n - 1]
           x == percents[n]
<1>14. /\ p \in Nat /\ q \in Nat /\ q * S <= b * p /\ x \in Nat /\ S = p + x
       /\ \A j \in 1..(n - 1) : share[j] <= q
  <2>1. n - 1 \in Below
    BY <1>11, <1>13
  <2>2. P[n] = P[n - 1] + percents[n]
    BY <1>2, <1>11
  <2> QED BY <1>1, <1>2, <1>11, <2>1, <2>2
<1>15. rest = b - q
  BY DEF rest
<1> HIDE DEF p, q, x
<1>16. q <= b /\ rest \in 0..b /\ (rest + 1) * S > b * x
  <2>1. b * S = b * p + b * x /\ b * p \in Nat /\ b * x \in Nat /\ q * S \in Nat /\ b * S \in Nat
    BY <1>10, <1>14
  <2>2. q * S <= b * S
    BY <1>14, <2>1
  <2>3. q <= b
    BY <1>10, <1>14, <2>2, TimesOrder
  <2>4. rest \in 0..b
    BY <1>14, <1>15, <2>3
  <2>5. (rest + 1) * S = b * S - q * S + S
    BY <1>10, <1>14, <1>15
  <2>6. b * S - q * S >= b * x
    BY <1>14, <2>1
  <2> QED BY <1>10, <2>1, <2>3, <2>4, <2>5, <2>6
<1>17. \A j \in 1..n : amount[j] \in 0..b /\ (amount[j] + 1) * S > b * percents[j]
  <2> TAKE j \in 1..n
  <2>1. CASE j = n
    BY <1>7, <1>16, <2>1 DEF x
  <2>2. CASE j # n
    <3>1. j \in 1..(n - 1) /\ amount[j] = share[j]
      BY <1>1, <1>7, <2>2
    <3>2. share[j] \in Nat /\ share[j] <= q
      BY <1>12, <1>14, <3>1
    <3>3. amount[j] \in 0..b
      BY <1>14, <1>16, <3>1, <3>2
    <3>4. b * percents[j] < (share[j] + 1) * S /\ b * percents[j] \in Nat
      BY <1>12
    <3>5. (share[j] + 1) * S \in Nat
      BY <1>10, <3>2
    <3> QED BY <3>1, <3>3, <3>4, <3>5
  <2> QED BY <2>1, <2>2
<1>18. amount \in [DOMAIN percents -> 0..b]
  BY <1>1, <1>7, <1>17 DEF IsLine
<1>19. SumOf(amount) = b
  <2> DEFINE Same == {m \in 0..(n - 1) : R[m] = Q[m]}
  <2>1. 0 \in Same
    BY <1>4, <1>8, <1>11
  <2>2. \A i \in 0..((n - 1) - 1) : i \in Same => i + 1 \in Same
    <3> TAKE i \in 0..((n - 1) - 1)
    <3> HAVE i \in Same
    <3>1. i + 1 \in 1..n /\ (i + 1) - 1 = i /\ i + 1 \in 0..(n - 1) /\ i + 1 # n
      BY <1>1
    <3>2. amount[i + 1] = share[i + 1] /\ R[i] = Q[i]
      BY <1>7, <3>1
    <3>3. R[i + 1] = R[i] + amount[i + 1] /\ Q[i + 1] = Q[i] + share[i + 1]
      BY <1>4, <1>8, <3>1
    <3> QED BY <3>1, <3>2, <3>3
  <2>3. n - 1 \in Same
    <3> HIDE DEF Same
    <3>1. n - 1 \in Nat /\ n - 1 \in 0..(n - 1)
      BY <1>1, <1>11
    <3>2. 0..(n - 1) \subseteq Same
      BY <2>1, <2>2, <3>1, UpTo
    <3> QED BY <3>1, <3>2
  <2>4. R[n] = R[n - 1] + rest /\ R[n - 1] = q
    BY <1>7, <1>8, <1>11, <2>3 DEF q
  <2> QED BY <1>8, <1>14, <1>15, <2>4
<1> QED BY <1>7, <1>17, <1>18, <1>19 DEF amount, S


\* The parts of a list have all of it.
LEMMA PartsCover ==
    ASSUME NEW list \in Seq(Nat), NEW size \in Nat \ {0}
    PROVE  /\ Parts(list, size) \in Nat
           /\ \A i : Part(list, size, i) \in SUBSET Nat /\ IsFiniteSet(Part(list, size, i))
           /\ \A j \in DOMAIN list : \E i \in 0..(Parts(list, size) - 1) : list[j] \in Part(list, size, i)
<1> DEFINE n == Len(list)
           q == (n + size - 1) \div size
<1>1. n \in Nat /\ DOMAIN list = 1..n /\ \A j \in 1..n : list[j] \in Nat
  OBVIOUS
<1>2. size \in Nat /\ size >= 1
  OBVIOUS
<1>3. q \in Nat /\ n + size - 1 < (q + 1) * size
  <2>1. n + size - 1 \in Nat
    BY <1>1, <1>2
  <2> QED BY <1>2, <2>1, Floor
<1>4. Parts(list, size) = q
  BY DEF Parts
<1> HIDE DEF n, q
<1>5. ASSUME NEW i
      PROVE  Part(list, size, i) \in SUBSET Nat /\ IsFiniteSet(Part(list, size, i))
  <2> DEFINE some == {m \in DOMAIN list : i * size < m /\ m <= (i + 1) * size}
  <2>1. Part(list, size, i) = {list[j] : j \in some}
    BY DEF Part
  <2>2. some \in SUBSET (1..n)
    BY <1>1
  <2> HIDE DEF some
  <2>3. Part(list, size, i) \in SUBSET Nat
    BY <1>1, <2>1, <2>2
  <2>4. IsFiniteSet(1..n)
    BY <1>1, FS_Interval
  <2>5. IsFiniteSet({list[j] : j \in 1..n})
    <3> DEFINE T == {list[j] : j \in 1..n}
    <3>1. list \in [1..n -> T]
      BY <1>1
    <3>2. \A x \in T : \E j \in 1..n : list[j] = x
      OBVIOUS
    <3> HIDE DEF T
    <3>3. list \in Surjection(1..n, T)
      BY <3>1, <3>2 DEF Surjection
    <3>4. IsFiniteSet(T)
      BY <2>4, <3>3, FS_Surjection
    <3> QED BY <3>4 DEF T
  <2>6. Part(list, size, i) \in SUBSET {list[j] : j \in 1..n}
    BY <2>1, <2>2
  <2> QED BY <2>3, <2>5, <2>6, FS_Subset
<1>6. ASSUME NEW j \in DOMAIN list
      PROVE  \E i \in 0..(q - 1) : list[j] \in Part(list, size, i)
  <2> DEFINE i == (j - 1) \div size
  <2>1. j \in 1..n /\ j - 1 \in Nat
    BY <1>1
  <2>2. i \in Nat /\ i * size <= j - 1 /\ j - 1 < (i + 1) * size
    BY <1>2, <2>1, Floor
  <2> HIDE DEF i
  <2>3. i * size \in Nat /\ (i + 1) * size \in Nat /\ (i + 1) * size = i * size + size
    BY <1>2, <2>2
  <2>4. i * size < j /\ j <= (i + 1) * size
    BY <2>1, <2>2, <2>3
  <2>5. i + 1 <= q
    <3>1. (q + 1) * size \in Nat
      BY <1>2, <1>3
    <3>2. ~((q + 1) * size <= (i + 1) * size)
      BY <1>1, <1>2, <1>3, <2>1, <2>2, <2>3, <3>1
    <3>3. ~(q + 1 <= i + 1)
      BY <1>2, <1>3, <2>2, <3>2, TimesOrder
    <3> QED BY <1>3, <2>2, <3>3
  <2>6. i \in 0..(q - 1)
    BY <1>3, <2>2, <2>5
  <2>7. list[j] \in Part(list, size, i)
    BY <2>4 DEF Part
  <2> QED BY <2>6, <2>7
<1> QED BY <1>3, <1>4, <1>5, <1>6

(***************************************************************************)
(* Whitelists and locks.                                                   *)
(***************************************************************************)

Rollout(k) == job[k].cmd \in {"vault", "createPool"}
Locking(k) == job[k].cmd \in {"lock", "lockStake"}
RolloutPlaces == VaultPlaces \cup {"idle", "createPool", "newPool", "returned", "stopped"}
LockPlaces == {"idle", "lock", "lockStake", "returned", "stopped"}
ProofPlaces == {"writeProofs", "lookForRoot", "metadata", "readProofs", "putProofs"}

\* The parts of a call's list, and what is written of the i-th.
Made(k, i) == Part(job[k].list, ChunkSize, i)
Chunks(k) == Parts(job[k].list, ChunkSize)
theFile(k, i) == <<"file", PoolOf(k), i, Made(k, i)>>
rootOf(k, i) == <<"rootOf", PoolOf(k), i, Made(k, i)>>

\* A file, a root and a proof are of a part of some call's list.
FileFact(f) == \E j \in Call : \E i \in Nat : f = theFile(j, i)
RootFact(f) == \E j \in Call : \E i \in Nat : f = rootOf(j, i)
ProofFact(f) == \E j \in Call : \E i \in Nat : \E e \in Made(j, i) : f = <<"proof", PoolOf(j), e, i, Made(j, i)>>
FactsOK ==
    /\ \A f \in facts : /\ f[1] = "file" => FileFact(f)
                        /\ f[1] = "proof" => ProofFact(f)
                        /\ f[1] = "rootOf" => RootFact(f)
                        /\ f[1] = "root" => \E g \in facts : g[1] = "rootOf" /\ g[2] = f[2] /\ g[3] = f[3]
    /\ \A k \in Call : \A f \in seen[k] : f[1] = "file" => FileFact(f)

\* There, or made by what the call still sends.
Coming(k, f) == f \in facts \/ \E n \in DOMAIN todo[k] : \E x \in todo[k][n] : f \in x.makes
Proved(pool, e) == \E p \in facts : p[1] = "proof" /\ p[2] = pool /\ p[3] = e

\* How far a rollout of roots has come with its roots, files and proofs.
RootsTo(k, n) == \A i \in Nat : i < n => Coming(k, rootOf(k, i))
FilesTo(k, n) == \A i \in Nat : i < n => theFile(k, i) \in facts
ProofsTo(k, n) == \A i \in Nat : i < n => \A e \in Made(k, i) : Proved(PoolOf(k), e)
PutOK(k) ==
    /\ \A f \in seen[k] : f[1] = "file" => f[2] = PoolOf(k)
    /\ \A i \in Nat : i < Chunks(k) /\ round[k] <= i => theFile(k, i) \in seen[k]
    /\ \A i \in Nat : i < Chunks(k) /\ i < round[k] => \A e \in Made(k, i) : Proved(PoolOf(k), e)

\* What has been done of a rollout where it is, given that the list is the
\* same in every run.
Progress(k) ==
    /\ at[k] = "returned" /\ job[k].vault = "authority" =>
          \A i \in DOMAIN job[k].list : Coming(k, <<"escrow", PoolOf(k), job[k].list[i]>>)
    /\ at[k] = "writeProofs" => RootsTo(k, round[k]) /\ FilesTo(k, round[k])
    /\ at[k] = "lookForRoot" => RootsTo(k, round[k]) /\ FilesTo(k, round[k] + 1)
    /\ at[k] \in {"metadata", "readProofs"} => round[k] = 0 /\ RootsTo(k, Chunks(k)) /\ FilesTo(k, Chunks(k))
    /\ at[k] = "putProofs" => RootsTo(k, Chunks(k)) /\ PutOK(k)
    /\ at[k] = "returned" /\ job[k].vault = "merkle" /\ job[k].upload =>
          RootsTo(k, Chunks(k)) /\ ProofsTo(k, Chunks(k))
RolloutOK(k) == Rollout(k) =>
    /\ at[k] \in RolloutPlaces /\ job[k].list \in Seq(Nat)
    /\ at[k] \notin {"putProofs", "returned", "stopped"} => \A f \in seen[k] : f[1] # "file"
    /\ at[k] \in ProofPlaces => job[k].vault = "merkle"
    /\ ~job[k].dry /\ SameList(k) => Progress(k)

\* A lock sends what its balance, read once, is divided into.
LockSent(k) ==
    at[k] = "returned" => \A f \in seen[k] : f[1] = "balance" =>
        /\ SumOf(job[k].alloc) \in 1..100
        /\ \A j \in DOMAIN job[k].alloc : Coming(k, <<"lpLock", k, j, fromAllocationsToAmount(f[2], job[k].alloc)[j]>>)
LockOK(k) == Locking(k) =>
    /\ at[k] \in LockPlaces
    /\ at[k] \notin {"returned", "stopped"} => \A f \in seen[k] : f[1] # "balance"
    /\ ~job[k].dry => LockSent(k)

HonourInv == StudioInv /\ FactsOK /\ \A k \in Call : RolloutOK(k) /\ LockOK(k)

LEMMA SameJob ==
    ASSUME job' = job
    PROVE  /\ \A k : PoolOf(k)' = PoolOf(k) /\ Chunks(k)' = Chunks(k)
           /\ \A k : (SameList(k)' <=> SameList(k)) /\ (Rollout(k)' <=> Rollout(k)) /\ (Locking(k)' <=> Locking(k))
           /\ \A k, i : Made(k, i)' = Made(k, i) /\ theFile(k, i)' = theFile(k, i) /\ rootOf(k, i)' = rootOf(k, i)
           /\ \A f : (FileFact(f)' <=> FileFact(f)) /\ (RootFact(f)' <=> RootFact(f)) /\ (ProofFact(f)' <=> ProofFact(f))
<1>1. \A k : PoolOf(k)' = PoolOf(k)
  BY DEF PoolOf
<1>2. \A k, i : Made(k, i)' = Made(k, i)
  BY DEF Made
<1>3. \A k, i : theFile(k, i)' = theFile(k, i) /\ rootOf(k, i)' = rootOf(k, i)
  BY <1>1, <1>2 DEF theFile, rootOf
<1>4. \A k : Chunks(k)' = Chunks(k) /\ (SameList(k)' <=> SameList(k)) /\ (Rollout(k)' <=> Rollout(k)) /\ (Locking(k)' <=> Locking(k))
  BY DEF Chunks, SameList, Rollout, Locking
<1>5. \A f : (FileFact(f)' <=> FileFact(f)) /\ (RootFact(f)' <=> RootFact(f)) /\ (ProofFact(f)' <=> ProofFact(f))
  BY <1>1, <1>2, <1>3 DEF FileFact, RootFact, ProofFact
<1> QED BY <1>1, <1>2, <1>3, <1>4, <1>5

\* Of what the rollouts and locks rely on, nothing goes.
Stays ==
    /\ job' = job
    /\ \A f \in facts : f[1] \in Lasting => f \in facts'
    /\ \A j \in Call : SameList(j) => \A i \in Nat : theFile(j, i) \in facts => theFile(j, i) \in facts'
    /\ \A pool, e : Proved(pool, e) => Proved(pool, e)'

\* As far as it has come it stays, whatever is added.
LEMMA FarKept ==
    ASSUME Stays, NEW k \in Call, \A f : f[1] \in Lasting /\ Coming(k, f) => Coming(k, f)', NEW n
    PROVE  /\ RootsTo(k, n) => RootsTo(k, n)'
           /\ SameList(k) /\ FilesTo(k, n) => FilesTo(k, n)'
           /\ ProofsTo(k, n) => ProofsTo(k, n)'
<1>0. /\ PoolOf(k)' = PoolOf(k)
      /\ \A i : Made(k, i)' = Made(k, i) /\ theFile(k, i)' = theFile(k, i) /\ rootOf(k, i)' = rootOf(k, i)
  BY SameJob DEF Stays
<1>1. \A i : rootOf(k, i)[1] \in Lasting
  BY DEF rootOf, Lasting
<1>2. RootsTo(k, n) => RootsTo(k, n)'
  BY <1>0, <1>1 DEF RootsTo
<1>3. SameList(k) /\ FilesTo(k, n) => FilesTo(k, n)'
  BY <1>0 DEF FilesTo, Stays
<1>4. ProofsTo(k, n) => ProofsTo(k, n)'
  BY <1>0 DEF ProofsTo, Stays
<1> QED BY <1>2, <1>3, <1>4

\* A call that is where it was has come as far as it had.
LEMMA HonourRests ==
    ASSUME Stays, NEW k \in Call, at'[k] = at[k], seen'[k] = seen[k], round'[k] = round[k],
           ~job[k].dry => \A f : f[1] \in Lasting /\ Coming(k, f) => Coming(k, f)',
           RolloutOK(k), LockOK(k)
    PROVE  RolloutOK(k)' /\ LockOK(k)'
<1>1. /\ PoolOf(k)' = PoolOf(k) /\ Chunks(k)' = Chunks(k) /\ job' = job
      /\ (SameList(k)' <=> SameList(k)) /\ (Rollout(k)' <=> Rollout(k)) /\ (Locking(k)' <=> Locking(k))
      /\ \A i : Made(k, i)' = Made(k, i) /\ theFile(k, i)' = theFile(k, i)
  BY SameJob DEF Stays
<1>2. ASSUME ~job[k].dry, SameList(k), Progress(k)
      PROVE  Progress(k)'
  <2>1. \A f : f[1] \in Lasting /\ Coming(k, f) => Coming(k, f)'
    BY <1>2
  <2>2. ASSUME NEW n
        PROVE  /\ RootsTo(k, n) => RootsTo(k, n)'
               /\ FilesTo(k, n) => FilesTo(k, n)'
               /\ ProofsTo(k, n) => ProofsTo(k, n)'
    BY <1>2, <2>1, FarKept
  <2>3. PutOK(k) => PutOK(k)'
    BY <1>1 DEF PutOK, Stays
  <2>4. \A e : Coming(k, <<"escrow", PoolOf(k), e>>) => Coming(k, <<"escrow", PoolOf(k), e>>)'
    <3>1. \A e : <<"escrow", PoolOf(k), e>>[1] \in Lasting
      BY DEF Lasting
    <3> QED BY <1>1, <2>1, <3>1
  <2> QED BY <1>1, <1>2, <2>2, <2>3, <2>4 DEF Progress
<1>3. RolloutOK(k)'
  BY <1>1, <1>2 DEF RolloutOK
<1>4. ASSUME ~job[k].dry, LockSent(k)
      PROVE  LockSent(k)'
  <2>1. \A j, a : <<"lpLock", k, j, a>>[1] \in Lasting
    BY DEF Lasting
  <2>2. \A j, a : Coming(k, <<"lpLock", k, j, a>>) => Coming(k, <<"lpLock", k, j, a>>)'
    BY <1>4, <2>1
  <2> QED BY <1>1, <1>4, <2>2 DEF LockSent
<1>5. LockOK(k)'
  BY <1>1, <1>4 DEF LockOK
<1> QED BY <1>3, <1>5

\* A step of a command turns no loop but its own, and writes nothing but files
\* and proofs.
TurnsOwn(k) == \A j \in Call \ {k} : round'[j] = round[j]
Writes(k) == WriteProofs(k) \/ PutProofs(k)

LEMMA PositionTurns ==
    ASSUME NEW k, PositionStep(k)
    PROVE  UNCHANGED <<facts, round>>
<1>1. ASSUME NEW b, NEW p, Send(k, b, p)
      PROVE  UNCHANGED <<facts, round>>
  BY <1>1 DEF Send
<1>2. ASSUME NEW p, Goto(k, p)
      PROVE  UNCHANGED <<facts, round>>
  BY <1>1, <1>2 DEF Goto
<1>3. Return(k) => UNCHANGED <<facts, round>>
  BY <1>2 DEF Return
<1>4. FetchPool(k) \/ NoPosition(k) \/ ChoosePosition(k) \/ PositionGone(k) \/ Refetch(k) => UNCHANGED <<facts, round>>
  BY Zenon, <1>2, <1>3 DEF FetchPool, NoPosition, ChoosePosition, PositionGone, Refetch
<1>5. SplitCreate(k) \/ SplitPosition(k) \/ ClaimPositionFee(k) \/ AddLiquidity(k) => UNCHANGED <<facts, round>>
  BY Zenon, <1>1, <1>2 DEF SplitCreate, SplitPosition, ClaimPositionFee, AddLiquidity
<1>6. RemoveLiquidity(k) \/ RemoveQuoted(k) \/ RemoveRemains(k) \/ RemoveClose(k) \/ ClosePosition(k) => UNCHANGED <<facts, round>>
  BY Zenon, <1>1, <1>2, <1>3 DEF RemoveLiquidity, RemoveQuoted, RemoveRemains, RemoveClose, ClosePosition
<1> QED BY <1>4, <1>5, <1>6 DEF PositionStep

LEMMA PoolTurns ==
    ASSUME NEW k, PoolStep(k)
    PROVE  UNCHANGED <<facts, round>>
<1>1. ASSUME NEW b, NEW p, Send(k, b, p)
      PROVE  UNCHANGED <<facts, round>>
  BY <1>1 DEF Send
<1>2. ASSUME NEW p, Goto(k, p)
      PROVE  UNCHANGED <<facts, round>>
  BY <1>1, <1>2 DEF Goto
<1>3. Return(k) => UNCHANGED <<facts, round>>
  BY <1>2 DEF Return
<1>4. CreateTokenMint(k) \/ UseMint(k) \/ CreatePool(k) \/ NoPool(k) => UNCHANGED <<facts, round>>
  BY Zenon, <1>1, <1>2 DEF CreateTokenMint, UseMint, CreatePool, NoPool
<1>5. SeedLiquidityLfg(k) \/ SeedLiquiditySingleBin(k) \/ SetPoolStatus(k) => UNCHANGED <<facts, round>>
  BY Zenon, <1>1, <1>2 DEF SeedLiquidityLfg, SeedLiquiditySingleBin, SetPoolStatus
<1>6. CreateFarm(k) \/ LockLiquidity(k) \/ LockLiquidityStake2Earn(k) \/ LockRefused(k) => UNCHANGED <<facts, round>>
  BY Zenon, <1>1, <1>2, <1>3 DEF CreateFarm, LockLiquidity, LockLiquidityStake2Earn, LockRefused, LockAll
<1> QED BY <1>4, <1>5, <1>6 DEF PoolStep

LEMMA ClaimTurns ==
    ASSUME StudioInv, NEW k \in Call, ClaimStep(k)
    PROVE  UNCHANGED facts /\ TurnsOwn(k)
<1> DEFINE Q == UNCHANGED facts /\ TurnsOwn(k)
<1>0. ASSUME UNCHANGED round \/ \E n : round' = [round EXCEPT ![k] = n]
      PROVE  TurnsOwn(k)
  BY <1>0 DEF TurnsOwn, StudioInv, TypeOK
<1>1. ASSUME NEW p, Goto(k, p)
      PROVE  Q
  BY <1>0, <1>1 DEF Goto, Send
<1>2. ASSUME NEW m, NEW v, Settle(k, m, v)
      PROVE  Q
  BY <1>1, <1>2 DEF Settle
<1>3. ASSUME NEW n, UNCHANGED facts, round' = [round EXCEPT ![k] = n]
      PROVE  Q
  BY <1>0, <1>3
<1>4. ASSUME UNCHANGED <<facts, round>>
      PROVE  Q
  BY <1>0, <1>4
<1> HIDE DEF Q
<1>5. StartList(k) \/ StartAuto(k) \/ StartSdk(k) \/ FinishClaims(k) => Q
  BY Zenon, <1>1 DEF StartList, StartAuto, StartSdk, FinishClaims
<1>6. ClaimByLib(k) \/ SkipMint(k) \/ Claimed(k) \/ SdkGivesUp(k) \/ NothingLeft(k) \/ NoEntryLeft(k) => Q
  BY Zenon, <1>2, <1>4 DEF ClaimByLib, SkipMint, Claimed, SdkGivesUp, NothingLeft, NoEntryLeft
<1>7. LibFailed(k) \/ SdkRetry(k) \/ NextLeftover(k) \/ TryEntry(k) => Q
  BY Zenon, <1>2, <1>3 DEF LibFailed, SdkRetry, NextLeftover, TryEntry
<1> QED BY <1>5, <1>6, <1>7 DEF ClaimStep, Q

LEMMA VaultTurns ==
    ASSUME StudioInv, NEW k \in Call, VaultStep(k)
    PROVE  TurnsOwn(k) /\ (facts' = facts \/ Writes(k))
<1> DEFINE Q == TurnsOwn(k) /\ (facts' = facts \/ Writes(k))
<1>0. ASSUME UNCHANGED round \/ \E n : round' = [round EXCEPT ![k] = n]
      PROVE  TurnsOwn(k)
  BY <1>0 DEF TurnsOwn, StudioInv, TypeOK
<1>1. ASSUME NEW b, NEW p, Send(k, b, p)
      PROVE  Q
  BY <1>0, <1>1 DEF Send
<1>2. ASSUME NEW p, Goto(k, p)
      PROVE  Q
  BY <1>1, <1>2 DEF Goto
<1>3. ASSUME NEW n, UNCHANGED facts \/ Writes(k), round' = [round EXCEPT ![k] = n]
      PROVE  Q
  BY <1>0, <1>3
<1>4. ASSUME Writes(k), UNCHANGED round
      PROVE  Q
  BY <1>0, <1>4
<1>5. Writes(k) => Q
  BY Zenon, <1>3, <1>4 DEF WriteProofs, PutProofs, Writes
<1> HIDE DEF Q
<1>6. EnterVault(k) \/ LookForVault(k) \/ NoVault(k) \/ OpenForEscrows(k) \/ LookForMetadata(k) \/ ReadProofs(k) => Q
  BY Zenon, <1>1, <1>2 DEF EnterVault, LookForVault, NoVault, OpenForEscrows, LookForMetadata, ReadProofs
<1>7. OpenForProofs(k) \/ LookForRoot(k) => Q
  BY Zenon, <1>3 DEF OpenForProofs, LookForRoot
<1> QED BY <1>5, <1>6, <1>7 DEF VaultStep, Writes, Q

LEMMA CommandTurns ==
    ASSUME StudioInv, NEW k \in Call, Start(k) \/ Command(k)
    PROVE  TurnsOwn(k) /\ (facts' = facts \/ Writes(k))
<1>1. CASE Start(k)
  BY <1>1 DEF Start, Goto, Send, TurnsOwn
<1>2. CASE Command(k)
  BY <1>2, PositionTurns, PoolTurns, ClaimTurns, VaultTurns DEF Command, TurnsOwn
<1> QED BY <1>1, <1>2

\* The facts are as they should be when what is new among them is.
LEMMA FactsStay ==
    ASSUME FactsOK, Stays,
           \A f \in facts' : \/ f \in facts
                             \/ f[1] \notin {"file", "proof", "root", "rootOf"}
                             \/ f[1] = "file" /\ FileFact(f)
                             \/ f[1] = "proof" /\ ProofFact(f)
                             \/ f[1] = "rootOf" /\ RootFact(f)
                             \/ f[1] = "root" /\ \E g \in facts' : g[1] = "rootOf" /\ g[2] = f[2] /\ g[3] = f[3],
           \A k \in Call : \A f \in seen'[k] : f[1] = "file" => f \in seen[k] \cup facts
    PROVE  FactsOK'
<1>1. \A f : (FileFact(f)' <=> FileFact(f)) /\ (RootFact(f)' <=> RootFact(f)) /\ (ProofFact(f)' <=> ProofFact(f))
  BY SameJob DEF Stays
<1>2. ASSUME NEW f \in facts'
      PROVE  /\ f[1] = "file" => FileFact(f)
             /\ f[1] = "proof" => ProofFact(f)
             /\ f[1] = "rootOf" => RootFact(f)
  BY DEF FactsOK
<1>3. ASSUME NEW f \in facts', f[1] = "root"
      PROVE  \E g \in facts' : g[1] = "rootOf" /\ g[2] = f[2] /\ g[3] = f[3]
  <2>1. CASE f \in facts
    <3>1. PICK g \in facts : g[1] = "rootOf" /\ g[2] = f[2] /\ g[3] = f[3]
      BY <1>3, <2>1 DEF FactsOK
    <3>2. g \in facts'
      BY <3>1 DEF Stays, Lasting
    <3> QED BY <3>1, <3>2
  <2>2. CASE f \notin facts
    BY <1>3, <2>2
  <2> QED BY <2>1, <2>2
<1>4. \A k \in Call : \A f \in seen'[k] : f[1] = "file" => FileFact(f)
  BY DEF FactsOK
<1> QED BY <1>1, <1>2, <1>3, <1>4 DEF FactsOK

\* Two calls with one list and one pool write the same of each part.
LEMMA SameParts ==
    ASSUME NEW k \in Call, NEW j \in Call, SameList(k) \/ SameList(j), NEW i
    PROVE  Made(j, i) = Made(k, i)
<1>1. job[j].list = job[k].list
  BY DEF SameList
<1> QED BY <1>1 DEF Made

\* What a file is of, by its fields.
LEMMA FieldsOf ==
    ASSUME NEW f
    PROVE  /\ FileFact(f) => \E j \in Call : /\ f = theFile(j, f[3]) /\ f[1] = "file" /\ f[2] = PoolOf(j)
                                             /\ f[3] \in Nat /\ f[4] = Made(j, f[3])
           /\ RootFact(f) => \E j \in Call : /\ f = rootOf(j, f[3]) /\ f[1] = "rootOf" /\ f[2] = PoolOf(j)
                                             /\ f[3] \in Nat /\ f[4] = Made(j, f[3])
           /\ ProofFact(f) => \E j \in Call : /\ f[1] = "proof" /\ f[2] = PoolOf(j) /\ f[3] \in Made(j, f[4])
                                              /\ f[4] \in Nat /\ f[5] = Made(j, f[4])
<1>1. ASSUME FileFact(f)
      PROVE  \E j \in Call : /\ f = theFile(j, f[3]) /\ f[1] = "file" /\ f[2] = PoolOf(j)
                             /\ f[3] \in Nat /\ f[4] = Made(j, f[3])
  <2>1. PICK j \in Call, i \in Nat : f = <<"file", PoolOf(j), i, Made(j, i)>>
    BY <1>1 DEF FileFact, theFile
  <2>2. f[1] = "file" /\ f[2] = PoolOf(j) /\ f[3] = i /\ f[4] = Made(j, i)
    BY <2>1
  <2> QED BY <2>1, <2>2 DEF theFile
<1>2. ASSUME RootFact(f)
      PROVE  \E j \in Call : /\ f = rootOf(j, f[3]) /\ f[1] = "rootOf" /\ f[2] = PoolOf(j)
                             /\ f[3] \in Nat /\ f[4] = Made(j, f[3])
  <2>1. PICK j \in Call, i \in Nat : f = <<"rootOf", PoolOf(j), i, Made(j, i)>>
    BY <1>2 DEF RootFact, rootOf
  <2>2. f[1] = "rootOf" /\ f[2] = PoolOf(j) /\ f[3] = i /\ f[4] = Made(j, i)
    BY <2>1
  <2> QED BY <2>1, <2>2 DEF rootOf
<1>3. ASSUME ProofFact(f)
      PROVE  \E j \in Call : /\ f[1] = "proof" /\ f[2] = PoolOf(j) /\ f[3] \in Made(j, f[4])
                             /\ f[4] \in Nat /\ f[5] = Made(j, f[4])
  <2>3. PICK j \in Call, i \in Nat : \E e \in Made(j, i) : f = <<"proof", PoolOf(j), e, i, Made(j, i)>>
    BY <1>3 DEF ProofFact
  <2>1. PICK e \in Made(j, i) : f = <<"proof", PoolOf(j), e, i, Made(j, i)>>
    BY <2>3
  <2>2. f[1] = "proof" /\ f[2] = PoolOf(j) /\ f[3] = e /\ f[4] = i /\ f[5] = Made(j, i)
    BY <2>1
  <2> QED BY <2>1, <2>2
<1> QED BY <1>1, <1>2, <1>3

LEMMA WriteKeeps ==
    ASSUME StudioInv, FactsOK, NEW k \in Call, WriteProofs(k), Goes(k)
    PROVE  Stays /\ theFile(k, round[k]) \in facts' /\ \A f \in facts' : f \in facts \/ (f[1] = "file" /\ FileFact(f))
<1>1. round[k] \in Nat
  BY DEF StudioInv, TypeOK
<1>2. facts' = {f \in facts : <<f[1], f[2]>> # <<"file", PoolOf(k)>> \/ f[3] # round[k]} \cup {theFile(k, round[k])}
  BY DEF WriteProofs, theFile, Made
<1>3. theFile(k, round[k])[1] = "file" /\ FileFact(theFile(k, round[k]))
  BY <1>1 DEF theFile, FileFact
<1>4. job' = job /\ \A f \in facts : f[1] \in Lasting => f \in facts'
  BY DEF Goes, SameWorld, Watched
<1>5. ASSUME NEW j \in Call, SameList(j), NEW i \in Nat, theFile(j, i) \in facts
      PROVE  theFile(j, i) \in facts'
  <2>1. /\ theFile(j, i)[1] = "file" /\ theFile(j, i)[2] = PoolOf(j) /\ theFile(j, i)[3] = i
    BY DEF theFile
  <2>2. CASE PoolOf(j) = PoolOf(k) /\ i = round[k]
    <3>1. theFile(j, i) = theFile(k, round[k])
      BY <1>5, <2>2, SameParts DEF theFile
    <3> QED BY <1>2, <3>1
  <2>3. CASE ~(PoolOf(j) = PoolOf(k) /\ i = round[k])
    BY <1>2, <1>5, <2>1, <2>3
  <2> QED BY <2>2, <2>3
<1>6. ASSUME NEW pool, NEW e, Proved(pool, e)
      PROVE  Proved(pool, e)'
  <2>1. PICK p \in facts : p[1] = "proof" /\ p[2] = pool /\ p[3] = e
    BY <1>6 DEF Proved
  <2>2. p \in facts'
    BY <1>2, <2>1
  <2> QED BY <2>1, <2>2 DEF Proved
<1> QED BY <1>2, <1>3, <1>4, <1>5, <1>6 DEF Stays

\* The proofs of one file are put: the first of those not put yet.
LEMMA PutOne ==
    ASSUME StudioInv, FactsOK, NEW k \in Call, PutProofs(k), Goes(k)
    PROVE  \E f \in seen[k] :
              /\ FileFact(f) /\ f[1] = "file" /\ f[3] >= round[k] /\ round'[k] = f[3] + 1
              /\ \A g \in seen[k] : g[1] = "file" /\ g[3] >= round[k] => f[3] <= g[3]
              /\ \A e \in f[4] : Proved(f[2], e)'
              /\ \/ at'[k] = "putProofs"
                 \/ at'[k] = "returned" /\ \A g \in seen[k] : g[1] = "file" /\ g[3] >= round[k] => g = f
              /\ Stays
              /\ \A g \in facts' : g \in facts \/ (g[1] = "proof" /\ ProofFact(g))
<1> DEFINE left == {f \in seen[k] : f[1] = "file" /\ f[3] >= round[k]}
<1>1. PICK f \in left :
         /\ \A g \in left : f[3] <= g[3]
         /\ facts' = {x \in facts : <<x[1], x[2]>> # <<"proof", f[2]>> \/ x[3] \notin f[4]}
                     \cup {<<"proof", f[2], e, f[3], f[4]>> : e \in f[4]}
         /\ round' = [round EXCEPT ![k] = f[3] + 1]
         /\ Try(k, <<>>, IF left = {f} THEN "returned" ELSE "putProofs", Uncaught)
  BY DEF PutProofs
<1>2. f \in seen[k] /\ f[1] = "file" /\ f[3] >= round[k] /\ FileFact(f)
  BY <1>1 DEF FactsOK
<1>3. round'[k] = f[3] + 1 /\ at'[k] = IF left = {f} THEN "returned" ELSE "putProofs"
  BY <1>1 DEF StudioInv, TypeOK, Try
<1>4. \A g \in left : g \in seen[k] /\ g[1] = "file" /\ g[3] >= round[k]
  OBVIOUS
<1>5. \A g \in seen[k] : g[1] = "file" /\ g[3] >= round[k] => g \in left
  OBVIOUS
<1> DEFINE new(e) == <<"proof", f[2], e, f[3], f[4]>>
<1>6. \A e : new(e)[1] = "proof" /\ new(e)[2] = f[2] /\ new(e)[3] = e
  OBVIOUS
<1>7. facts' = {x \in facts : <<x[1], x[2]>> # <<"proof", f[2]>> \/ x[3] \notin f[4]} \cup {new(e) : e \in f[4]}
  BY <1>1
<1>8. \A e \in f[4] : ProofFact(new(e))
  <2>1. PICK j \in Call : f[2] = PoolOf(j) /\ f[3] \in Nat /\ f[4] = Made(j, f[3])
    BY <1>2, FieldsOf
  <2> QED BY <2>1 DEF ProofFact
<1> HIDE DEF left, new
<1>9. ASSUME NEW e \in f[4]
      PROVE  Proved(f[2], e)'
  BY <1>6, <1>7 DEF Proved
<1>10. \A g \in facts' : g \in facts \/ (g[1] = "proof" /\ ProofFact(g))
  BY <1>6, <1>7, <1>8
<1>11. ASSUME NEW pool, NEW e, Proved(pool, e)
       PROVE  Proved(pool, e)'
  <2>1. PICK p \in facts : p[1] = "proof" /\ p[2] = pool /\ p[3] = e
    BY <1>11 DEF Proved
  <2>2. CASE pool = f[2] /\ e \in f[4]
    BY <1>9, <2>2
  <2>3. CASE ~(pool = f[2] /\ e \in f[4])
    <3>1. p \in facts'
      BY <1>7, <2>1, <2>3
    <3> QED BY <2>1, <3>1 DEF Proved
  <2> QED BY <2>2, <2>3
<1>12. Stays
  <2>1. job' = job /\ \A g \in facts : g[1] \in Lasting => g \in facts'
    BY DEF Goes, SameWorld, Watched
  <2>2. ASSUME NEW g \in facts, g[1] = "file"
        PROVE  g \in facts'
    BY <1>7, <2>2
  <2>3. \A j, i : theFile(j, i)[1] = "file"
    BY DEF theFile
  <2> QED BY <1>11, <2>1, <2>2, <2>3 DEF Stays
<1> QED BY <1>1, <1>2, <1>3, <1>4, <1>5, <1>9, <1>10, <1>12

\* Whatever command goes on, the facts stay as they should be and nothing the
\* others rely on goes.
LEMMA CommandKept ==
    ASSUME StudioInv, FactsOK, NEW k \in Call, Start(k) \/ Command(k)
    PROVE  Goes(k) /\ Stays /\ FactsOK'
<1>1. Goes(k)
  BY StartGoes, PositionGoes, PoolGoes, VaultGoes, ClaimGoes DEF Command
<1>2. /\ Stays
      /\ \A f \in facts' : f \in facts \/ (f[1] = "file" /\ FileFact(f)) \/ (f[1] = "proof" /\ ProofFact(f))
  <2>1. CASE facts' = facts
    <3>1. job' = job
      BY <1>1 DEF Goes
    <3>2. \A j, i : theFile(j, i)' = theFile(j, i)
      BY <3>1, SameJob
    <3>3. \A pool, e : Proved(pool, e) => Proved(pool, e)'
      BY <2>1 DEF Proved
    <3> QED BY <2>1, <3>1, <3>3 DEF Stays
  <2>2. CASE WriteProofs(k)
    BY <1>1, <2>2, WriteKeeps
  <2>3. CASE PutProofs(k)
    BY <1>1, <2>3, PutOne
  <2> QED BY <2>1, <2>2, <2>3, CommandTurns DEF Writes
<1>3. \A j \in Call : \A f \in seen'[j] : f[1] = "file" => f \in seen[j] \cup facts
  BY <1>1 DEF Goes, Knows
<1> QED BY <1>1, <1>2, <1>3, FactsStay

(***************************************************************************)
(* A rollout goes on.                                                      *)
(***************************************************************************)

\* A command goes on when it has nothing left to send.
LEMMA FarOn ==
    ASSUME StudioInv, NEW k \in Call, Goes(k), Stays
    PROVE  /\ \A f : f[1] \in Lasting /\ Coming(k, f) => f \in facts /\ f \in facts' /\ Coming(k, f)'
           /\ \A n : /\ RootsTo(k, n) => RootsTo(k, n)'
                     /\ SameList(k) /\ FilesTo(k, n) => FilesTo(k, n)'
                     /\ ProofsTo(k, n) => ProofsTo(k, n)'
<1>1. todo[k] = <<>>
  BY DEF Goes
<1>2. \A f : Coming(k, f) => f \in facts
  BY <1>1 DEF Coming
<1>3. \A f : f[1] \in Lasting /\ Coming(k, f) => f \in facts /\ f \in facts' /\ Coming(k, f)'
  BY <1>2 DEF Stays, Coming
<1> QED BY <1>3, FarKept

LEMMA RolloutOn ==
    ASSUME NEW k \in Call, RolloutOK(k), Stays, NEW p \in RolloutPlaces, at'[k] = p,
           p \notin {"putProofs", "returned", "stopped"} => \A f \in seen'[k] : f[1] # "file",
           p \in ProofPlaces => job[k].vault = "merkle",
           ~job[k].dry /\ SameList(k) => Progress(k)'
    PROVE  RolloutOK(k)'
<1>1. (SameList(k)' <=> SameList(k)) /\ (Rollout(k)' <=> Rollout(k)) /\ job' = job
  BY SameJob DEF Stays
<1> QED BY <1>1 DEF RolloutOK

\* It sends and writes nothing that its progress is measured by.
LEMMA RolloutAside ==
    ASSUME NEW k \in Call, RolloutOK(k), Stays, NEW p \in RolloutPlaces \ ProofPlaces, at'[k] = p,
           p \notin {"returned", "stopped"} => \A f \in seen'[k] : f[1] # "file",
           p = "returned" => job[k].vault \notin {"authority", "merkle"}
    PROVE  RolloutOK(k)'
<1>1. job' = job
  BY DEF Stays
<1>2. Progress(k)'
  BY <1>1 DEF Progress, ProofPlaces
<1> QED BY <1>2, RolloutOn

\* From one place to the next, sending b.
LEMMA TriesTo ==
    ASSUME StudioInv, NEW k \in Call, NEW b, NEW p, NEW c, Try(k, b, p, c)
    PROVE  at'[k] = p /\ todo'[k] = b
BY DEF Try, StudioInv, TypeOK, Shape, IsOf

LEMMA SendsTo ==
    ASSUME StudioInv, NEW k \in Call, NEW p
    PROVE  /\ \A b : Send(k, b, p) => at'[k] = p /\ todo'[k] = b
           /\ Goto(k, p) => at'[k] = p /\ todo'[k] = <<>>
BY TriesTo DEF Goto, Send

\* What a rollout does next.
LEMMA RolloutNext ==
    ASSUME NEW k \in Call, Rollout(k), RolloutOK(k), Start(k) \/ Command(k)
    PROVE  \/ Start(k) \/ CreateTokenMint(k) \/ UseMint(k) \/ CreatePool(k)
           \/ VaultStep(k)
<1>1. at[k] \in RolloutPlaces /\ job[k].cmd \in {"vault", "createPool"}
  BY DEF RolloutOK, Rollout
<1>2. ~PositionStep(k)
  BY <1>1 DEF PositionCommands, RolloutPlaces, VaultPlaces, PositionStep, At, Doing, FetchPool, NoPosition, ChoosePosition,
     PositionGone, SplitCreate, SplitPosition, ClaimPositionFee, AddLiquidity, Refetch,
     RemoveLiquidity, RemoveQuoted, RemoveRemains, RemoveClose, ClosePosition
<1>3. ~ClaimStep(k)
  BY <1>1 DEF RolloutPlaces, VaultPlaces, ClaimPlaces, ClaimStep, At, StartList, StartAuto, StartSdk, ClaimByLib, SkipMint, Claimed,
          LibFailed, SdkRetry, SdkGivesUp, NextLeftover, NothingLeft, TryEntry, NoEntryLeft, FinishClaims
<1>4. PoolStep(k) => CreateTokenMint(k) \/ UseMint(k) \/ CreatePool(k)
  BY <1>1 DEF PoolStep, Starts, NoPool, SeedLiquidityLfg, SeedLiquiditySingleBin, SetPoolStatus, CreateFarm,
     LockLiquidity, LockLiquidityStake2Earn, LockRefused
<1> QED BY <1>2, <1>3, <1>4 DEF Command

\* Before any proof is written.
LEMMA RolloutBegins ==
    ASSUME StudioInv, NEW k \in Call, Rollout(k), RolloutOK(k), Goes(k), Stays,
           \/ Start(k) \/ CreateTokenMint(k) \/ UseMint(k) \/ CreatePool(k)
           \/ EnterVault(k) \/ LookForVault(k) \/ NoVault(k)
    PROVE  RolloutOK(k)'
<1> DEFINE clean == \A f \in seen[k] : f[1] # "file"
<1>1. ASSUME NEW p \in {"createPool", "newPool", "vault", "lookForVault", "stopped"}, clean, seen'[k] = seen[k],
             at'[k] = p
      PROVE  RolloutOK(k)'
  <2>1. p \in RolloutPlaces \ ProofPlaces
    BY DEF RolloutPlaces, ProofPlaces, VaultPlaces
  <2> QED BY <1>1, <2>1, RolloutAside
<1>2. at[k] \notin {"putProofs", "returned", "stopped"} => clean
  BY DEF RolloutOK
<1>3. Nothing => seen'[k] = seen[k]
  BY DEF Nothing
<1>4. "returned" \in RolloutPlaces \ ProofPlaces
  BY DEF RolloutPlaces, ProofPlaces
<1> HIDE DEF clean
<1>5. CASE Start(k)
  <2>1. at[k] = "idle" /\ Nothing /\ Goto(k, Entry(job[k].cmd))
    BY <1>5 DEF Start
  <2>2. Entry(job[k].cmd) \in {"vault", "createPool"}
    BY DEF Rollout, Entry, PositionCommands, ClaimCommands
  <2> QED BY <1>1, <1>2, <1>3, <2>1, <2>2, SendsTo
<1>6. CASE CreateTokenMint(k)
  <2>1. at[k] = "createPool" /\ Nothing
    BY <1>6 DEF CreateTokenMint, Starts, At
  <2>2. at'[k] \in {"stopped", "newPool"}
    BY <1>6, SendsTo DEF CreateTokenMint
  <2> QED BY <1>1, <1>2, <1>3, <2>1, <2>2
<1>7. CASE UseMint(k)
  <2>1. at[k] = "createPool" /\ Nothing /\ at'[k] = "newPool"
    BY <1>7, SendsTo DEF UseMint, Starts, At
  <2> QED BY <1>1, <1>2, <1>3, <2>1
<1>8. CASE CreatePool(k)
  <2>1. at[k] = "newPool" /\ Nothing
    BY <1>8 DEF CreatePool, At
  <2>2. at'[k] = IF job[k].vault = "none" THEN "returned" ELSE "vault"
    BY <1>8, SendsTo DEF CreatePool
  <2>3. CASE job[k].vault = "none"
    BY <1>4, <2>2, <2>3, RolloutAside
  <2>4. CASE job[k].vault # "none"
    BY <1>1, <1>2, <1>3, <2>1, <2>2, <2>4
  <2> QED BY <2>3, <2>4
<1>9. CASE EnterVault(k)
  <2>1. at[k] = "vault" /\ Nothing
    BY <1>9 DEF EnterVault, At
  <2>2. at'[k] = IF job[k].vault = "permissionless" THEN "returned" ELSE "lookForVault"
    BY <1>9, SendsTo DEF EnterVault
  <2>3. CASE job[k].vault = "permissionless"
    BY <1>4, <2>2, <2>3, RolloutAside
  <2>4. CASE job[k].vault # "permissionless"
    BY <1>1, <1>2, <1>3, <2>1, <2>2, <2>4
  <2> QED BY <2>3, <2>4
<1>10. CASE LookForVault(k)
  <2>1. at[k] = "lookForVault" /\ Read(k, {theVault(k)})
    BY <1>10 DEF LookForVault, At
  <2>2. at'[k] = "openVault"
    BY <1>10, SendsTo DEF LookForVault
  <2>3. seen'[k] \subseteq seen[k] \cup {theVault(k)}
    BY <2>1, Learns
  <2>4. \A f \in seen'[k] : f[1] # "file"
    BY <1>2, <2>1, <2>3 DEF clean, theVault
  <2>5. "openVault" \in RolloutPlaces \ ProofPlaces
    BY DEF RolloutPlaces, ProofPlaces, VaultPlaces
  <2> QED BY <2>2, <2>4, <2>5, RolloutAside
<1>11. CASE NoVault(k)
  <2>1. at[k] = "openVault" /\ Nothing /\ at'[k] = "stopped"
    BY <1>11, SendsTo DEF NoVault, At
  <2> QED BY <1>1, <1>2, <1>3, <2>1
<1> QED BY <1>5, <1>6, <1>7, <1>8, <1>9, <1>10, <1>11

\* An escrow for everyone on the list.
LEMMA EscrowsComing ==
    ASSUME StudioInv, NEW k \in Call, Rollout(k), RolloutOK(k), Goes(k), Stays, OpenForEscrows(k)
    PROVE  RolloutOK(k)'
<1>1. job[k].vault = "authority" /\ job[k].list \in Seq(Nat) /\ job' = job
  BY DEF OpenForEscrows, RolloutOK, Stays
<1>2. at'[k] = "returned" /\ todo'[k] = handleSendTxs(k, job[k].list, EscrowsPerTx)
  BY SendsTo DEF OpenForEscrows
<1>3. "returned" \in RolloutPlaces /\ "returned" \notin ProofPlaces
  BY DEF RolloutPlaces, ProofPlaces
<1> DEFINE part(i) == Part(job[k].list, EscrowsPerTx, i)
           batch(n) == {Creates(k, "escrow", {theVault(k)}, {<<"escrow", PoolOf(k), e>> : e \in part(n - 1)})}
           n == Parts(job[k].list, EscrowsPerTx)
<1>4. todo'[k] = [m \in 1..n |-> batch(m)]
  BY <1>2 DEF handleSendTxs
<1>5. n \in Nat /\ \A i \in DOMAIN job[k].list : \E m \in 0..(n - 1) : job[k].list[i] \in part(m)
  BY <1>1, ChunkAssumption, PartsCover
<1>6. \A m, x : x \in batch(m) => x.makes = {<<"escrow", PoolOf(k), e>> : e \in part(m - 1)}
  BY DEF Creates, Bare
<1> HIDE DEF batch, n, part
<1>7. ASSUME NEW i \in DOMAIN job[k].list
      PROVE  Coming(k, <<"escrow", PoolOf(k), job[k].list[i]>>)'
  <2>1. PICK m \in 0..(n - 1) : job[k].list[i] \in part(m)
    BY <1>5
  <2>2. m + 1 \in 1..n /\ (m + 1) - 1 = m
    BY <1>5, <2>1
  <2>3. PICK x : x \in batch(m + 1)
    BY DEF batch
  <2>4. <<"escrow", PoolOf(k), job[k].list[i]>> \in x.makes
    BY <1>6, <2>1, <2>2, <2>3
  <2>5. m + 1 \in DOMAIN todo'[k] /\ x \in todo'[k][m + 1]
    BY <1>4, <2>2, <2>3
  <2>6. PoolOf(k)' = PoolOf(k)
    BY SameJob DEF Stays
  <2> QED BY <1>1, <2>4, <2>5, <2>6 DEF Coming
<1>8. PoolOf(k)' = PoolOf(k)
  BY SameJob DEF Stays
<1>9. Progress(k)'
  BY <1>1, <1>2, <1>7, <1>8 DEF Progress
<1> QED BY <1>2, <1>3, <1>9, RolloutOn

\* A root there is says what it was made from, and that is the same.
LEMMA RootThere ==
    ASSUME FactsOK, NEW k \in Call, SameList(k), NEW i, theRoot(k, i) \in facts
    PROVE  rootOf(k, i) \in facts
<1>1. theRoot(k, i)[1] = "root" /\ theRoot(k, i)[2] = PoolOf(k) /\ theRoot(k, i)[3] = i
  BY DEF theRoot
<1>2. PICK g \in facts : g[1] = "rootOf" /\ g[2] = PoolOf(k) /\ g[3] = i
  BY <1>1 DEF FactsOK
<1>3. RootFact(g)
  BY <1>2 DEF FactsOK
<1>4. PICK j \in Call : g = rootOf(j, i) /\ g[2] = PoolOf(j)
  BY <1>2, <1>3, FieldsOf
<1>5. rootOf(j, i) = rootOf(k, i)
  BY <1>2, <1>4, SameParts DEF rootOf
<1> QED BY <1>4, <1>5

\* The loop over the parts: the file of a part, then its root.
LEMMA RootsComing ==
    ASSUME StudioInv, FactsOK, NEW k \in Call, Rollout(k), RolloutOK(k), Goes(k), Stays,
           OpenForProofs(k) \/ WriteProofs(k) \/ LookForRoot(k)
    PROVE  RolloutOK(k)'
<1>1. /\ job' = job /\ Chunks(k)' = Chunks(k) /\ Nothing /\ seen'[k] = seen[k]
      /\ \A i : theFile(k, i)' = theFile(k, i) /\ rootOf(k, i)' = rootOf(k, i)
  BY SameJob DEF Stays, OpenForProofs, WriteProofs, LookForRoot, Nothing
<1>2. at[k] \in {"openVault", "writeProofs", "lookForRoot"} /\ job[k].vault = "merkle" /\ \A f \in seen[k] : f[1] # "file"
  BY DEF OpenForProofs, WriteProofs, LookForRoot, RolloutOK, ProofPlaces, At
<1>3. {"writeProofs", "lookForRoot", "metadata", "returned"} \subseteq RolloutPlaces
  BY DEF RolloutPlaces, VaultPlaces
<1>4. ASSUME NEW p \in {"writeProofs", "lookForRoot", "metadata", "returned"}, at'[k] = p,
             ~job[k].dry /\ SameList(k) => Progress(k)'
      PROVE  RolloutOK(k)'
  BY <1>1, <1>2, <1>3, <1>4, RolloutOn
<1>5. PICK i \in Nat : i = round[k]
  BY DEF StudioInv, TypeOK
<1>6. CASE OpenForProofs(k)
  <2>1. at'[k] = "writeProofs" /\ round'[k] = 0
    BY <1>6, TriesTo DEF OpenForProofs, StudioInv, TypeOK
  <2>2. RootsTo(k, 0)' /\ FilesTo(k, 0)'
    BY DEF RootsTo, FilesTo
  <2>3. Progress(k)'
    BY <2>1, <2>2 DEF Progress
  <2> QED BY <1>4, <2>1, <2>3
<1>7. CASE WriteProofs(k)
  <2>1. at[k] = "writeProofs" /\ at'[k] = "lookForRoot" /\ round'[k] = i
    BY <1>5, <1>7, TriesTo DEF WriteProofs, At
  <2>2. ASSUME ~job[k].dry, SameList(k)
        PROVE  Progress(k)'
    <3>1. RootsTo(k, i) /\ FilesTo(k, i)
      BY <1>2, <1>5, <2>1, <2>2 DEF RolloutOK, Progress
    <3>2. RootsTo(k, i)' /\ FilesTo(k, i)'
      BY <2>2, <3>1, FarOn
    <3>3. theFile(k, i) \in facts'
      BY <1>5, <1>7, WriteKeeps
    <3>4. FilesTo(k, i + 1)'
      BY <1>1, <3>2, <3>3 DEF FilesTo
    <3> QED BY <2>1, <3>2, <3>4 DEF Progress
  <2> QED BY <1>4, <2>1, <2>2
<1>8. CASE LookForRoot(k)
  <2> DEFINE more == i + 1 < Chunks(k)
             tx == RootTx(k, i, Made(k, i))
             b == IF theRoot(k, i) \in facts THEN <<>> ELSE <<{tx}>>
             p == IF more THEN "writeProofs" ELSE IF job[k].upload THEN "metadata" ELSE "returned"
  <2>1. /\ at[k] = "lookForRoot" /\ Try(k, b, p, Uncaught)
        /\ round' = [round EXCEPT ![k] = IF more THEN i + 1 ELSE 0]
    BY <1>5, <1>8 DEF LookForRoot, At, Chunks, Made
  <2>2. at'[k] = p /\ todo'[k] = b /\ round'[k] = IF more THEN i + 1 ELSE 0
    BY <2>1, TriesTo DEF StudioInv, TypeOK
  <2>3. rootOf(k, i) \in tx.makes
    BY DEF RootTx, Creates, Bare, rootOf
  <2>4. ASSUME ~job[k].dry, SameList(k)
        PROVE  Progress(k)'
    <3>1. RootsTo(k, i) /\ FilesTo(k, i + 1)
      BY <1>2, <1>5, <2>1, <2>4 DEF RolloutOK, Progress
    <3>2. RootsTo(k, i)' /\ FilesTo(k, i + 1)'
      BY <2>4, <3>1, FarOn
    <3>3. Coming(k, rootOf(k, i))'
      <4>1. CASE theRoot(k, i) \in facts
        <5>1. rootOf(k, i) \in facts /\ rootOf(k, i)[1] \in Lasting
          BY <2>4, <4>1, RootThere DEF rootOf, Lasting
        <5> QED BY <1>1, <5>1 DEF Stays, Coming
      <4>2. CASE theRoot(k, i) \notin facts
        <5> HIDE DEF tx
        <5>1. DOMAIN todo'[k] = {1} /\ todo'[k][1] = {tx}
          BY <2>2, <4>2, QueueOne
        <5> QED BY <1>1, <2>3, <5>1 DEF Coming
      <4> QED BY <4>1, <4>2
    <3>4. RootsTo(k, i + 1)'
      BY <1>1, <3>2, <3>3 DEF RootsTo
    <3> HIDE DEF b
    <3>5. CASE more
      <4>1. at'[k] = "writeProofs" /\ round'[k] = i + 1
        BY <2>2, <3>5
      <4> QED BY <3>2, <3>4, <4>1 DEF Progress
    <3>6. CASE ~more
      <4>0. Chunks(k) \in Nat
        BY PartsCover, ChunkAssumption DEF Chunks, RolloutOK
      <4>1. RootsTo(k, Chunks(k))' /\ FilesTo(k, Chunks(k))'
        BY <1>1, <3>2, <3>4, <3>6, <4>0 DEF RootsTo, FilesTo
      <4>2. round'[k] = 0 /\ at'[k] = IF job[k].upload THEN "metadata" ELSE "returned"
        BY <2>2, <3>6
      <4> QED BY <1>1, <1>2, <4>1, <4>2 DEF Progress
    <3> QED BY <3>5, <3>6
  <2> HIDE DEF b
  <2> QED BY <1>4, <2>2, <2>4
<1> QED BY <1>6, <1>7, <1>8

\* The metadata and the files are looked up.
LEMMA ProofsRead ==
    ASSUME StudioInv, FactsOK, NEW k \in Call, Rollout(k), RolloutOK(k), Goes(k), Stays,
           LookForMetadata(k) \/ ReadProofs(k)
    PROVE  RolloutOK(k)'
<1>1. job' = job /\ Chunks(k)' = Chunks(k) /\ PoolOf(k)' = PoolOf(k) /\ \A i : theFile(k, i)' = theFile(k, i)
  BY SameJob DEF Stays
<1>2. /\ at[k] \in {"metadata", "readProofs"} /\ job[k].vault = "merkle" /\ \A f \in seen[k] : f[1] # "file"
      /\ ~job[k].dry /\ SameList(k) => Progress(k)
  BY DEF LookForMetadata, ReadProofs, RolloutOK, ProofPlaces, At
<1>3. {"readProofs", "putProofs"} \subseteq RolloutPlaces
  BY DEF RolloutPlaces, VaultPlaces
<1>4. round'[k] = round[k]
  BY DEF LookForMetadata, ReadProofs, Goto, Send
<1>5. ASSUME ~job[k].dry, SameList(k)
      PROVE  round'[k] = 0 /\ RootsTo(k, Chunks(k))' /\ FilesTo(k, Chunks(k)) /\ FilesTo(k, Chunks(k))'
  <2>1. PICK n : n = Chunks(k)
    OBVIOUS
  <2>2. round[k] = 0 /\ RootsTo(k, n) /\ FilesTo(k, n)
    BY <1>2, <1>5, <2>1 DEF Progress
  <2>3. RootsTo(k, n)' /\ FilesTo(k, n)'
    BY <1>5, <2>2, FarOn
  <2> QED BY <1>1, <1>4, <2>1, <2>2, <2>3
<1>6. CASE LookForMetadata(k)
  <2>1. at'[k] = "readProofs" /\ seen'[k] = seen[k]
    BY <1>6, SendsTo DEF LookForMetadata, Nothing
  <2>2. ~job[k].dry /\ SameList(k) => Progress(k)'
    BY <1>5, <2>1 DEF Progress
  <2> QED BY <1>2, <1>3, <2>1, <2>2, RolloutOn
<1>7. CASE ReadProofs(k)
  <2> DEFINE folder == {f \in facts : f[1] = "file" /\ f[2] = PoolOf(k)}
  <2>1. at'[k] = "putProofs" /\ seen'[k] = seen[k] \cup folder
    <3>1. Keep(k, folder) /\ Goto(k, "putProofs")
      BY <1>7 DEF ReadProofs
    <3> HIDE DEF folder
    <3> QED BY <3>1, SendsTo DEF Keep, StudioInv, Shape, IsOf
  <2>2. ASSUME ~job[k].dry, SameList(k)
        PROVE  Progress(k)'
    <3>1. \A i : theFile(k, i)[1] = "file" /\ theFile(k, i)[2] = PoolOf(k)
      BY DEF theFile
    <3>2. \A i \in Nat : i < Chunks(k) => theFile(k, i) \in seen'[k]
      BY <1>5, <2>1, <2>2, <3>1 DEF FilesTo
    <3>3. \A f \in seen'[k] : f[1] = "file" => f[2] = PoolOf(k)
      BY <1>2, <2>1
    <3>4. PutOK(k)'
      BY <1>1, <1>5, <2>2, <3>2, <3>3 DEF PutOK
    <3> QED BY <1>5, <2>1, <2>2, <3>4 DEF Progress
  <2> QED BY <1>2, <1>3, <2>1, <2>2, RolloutOn
<1> QED BY <1>6, <1>7

\* Put from the first file on, none is left out.
LEMMA ProofsPut ==
    ASSUME StudioInv, FactsOK, NEW k \in Call, Rollout(k), RolloutOK(k), Goes(k), Stays, PutProofs(k)
    PROVE  RolloutOK(k)'
<1>1. job' = job /\ Chunks(k)' = Chunks(k) /\ PoolOf(k)' = PoolOf(k)
      /\ \A i : theFile(k, i)' = theFile(k, i) /\ Made(k, i)' = Made(k, i)
  BY SameJob DEF Stays
<1>2. /\ at[k] = "putProofs" /\ job[k].vault = "merkle" /\ seen'[k] = seen[k]
      /\ ~job[k].dry /\ SameList(k) => Progress(k)
  BY DEF PutProofs, RolloutOK, ProofPlaces, At, Nothing
<1>3. {"returned", "putProofs"} \subseteq RolloutPlaces
  BY DEF RolloutPlaces, VaultPlaces
<1>4. PICK f \in seen[k] :
              /\ FileFact(f) /\ f[1] = "file" /\ f[3] >= round[k] /\ round'[k] = f[3] + 1
              /\ \A g \in seen[k] : g[1] = "file" /\ g[3] >= round[k] => f[3] <= g[3]
              /\ \A e \in f[4] : Proved(f[2], e)'
              /\ \/ at'[k] = "putProofs"
                 \/ at'[k] = "returned" /\ \A g \in seen[k] : g[1] = "file" /\ g[3] >= round[k] => g = f
  BY PutOne
<1>5. round[k] \in Nat
  BY DEF StudioInv, TypeOK
<1>6. ASSUME ~job[k].dry, SameList(k)
      PROVE  Progress(k)'
  <2>1. RootsTo(k, Chunks(k))' /\ PutOK(k)
    <3>1. PICK n : n = Chunks(k)
      OBVIOUS
    <3>2. RootsTo(k, n) /\ PutOK(k)
      BY <1>2, <1>6, <3>1 DEF Progress
    <3> QED BY <1>1, <3>1, <3>2, FarOn
  <2>2. PICK j \in Call : f = theFile(j, f[3]) /\ f[2] = PoolOf(j) /\ f[3] \in Nat /\ f[4] = Made(j, f[3])
    BY <1>4, FieldsOf
  <2>3. f[2] = PoolOf(k) /\ f[4] = Made(k, f[3])
    BY <1>4, <1>6, <2>1, <2>2, SameParts DEF PutOK
  <2>4. \A i : theFile(k, i)[1] = "file" /\ theFile(k, i)[3] = i
    BY DEF theFile
  <2>5. \A i \in Nat : i < Chunks(k) /\ round[k] <= i => theFile(k, i) \in seen[k]
    BY <2>1 DEF PutOK
  <2>6. ASSUME NEW i \in Nat, i < Chunks(k), i <= f[3], NEW e \in Made(k, i)
        PROVE  Proved(PoolOf(k), e)'
    <3>1. CASE i < round[k]
      BY <1>1, <2>1, <2>6, <3>1 DEF PutOK, Stays
    <3>2. CASE ~(i < round[k])
      <4>1. theFile(k, i) \in seen[k] /\ i >= round[k]
        BY <1>5, <2>5, <2>6, <3>2
      <4>2. f[3] <= i
        BY <1>4, <2>4, <4>1
      <4>3. f[3] = i
        BY <2>2, <2>6, <4>2
      <4> QED BY <1>1, <1>4, <2>3, <2>6, <4>3
    <3> QED BY <3>1, <3>2
  <2>7. CASE at'[k] = "putProofs"
    <3>1. \A g \in seen'[k] : g[1] = "file" => g[2] = PoolOf(k)
      BY <1>2, <2>1 DEF PutOK
    <3>2. \A i \in Nat : i < Chunks(k) /\ round'[k] <= i => theFile(k, i) \in seen'[k]
      BY <1>2, <1>4, <1>5, <2>2, <2>5
    <3>3. \A i \in Nat : i < Chunks(k) /\ i < round'[k] => \A e \in Made(k, i) : Proved(PoolOf(k), e)'
      BY <1>4, <2>2, <2>6
    <3>4. PutOK(k)'
      BY <1>1, <3>1, <3>2, <3>3 DEF PutOK
    <3> QED BY <2>1, <2>7, <3>4 DEF Progress
  <2>8. CASE at'[k] = "returned" /\ \A g \in seen[k] : g[1] = "file" /\ g[3] >= round[k] => g = f
    <3>1. ASSUME NEW i \in Nat, i < Chunks(k)
          PROVE  i <= f[3]
      <4>1. CASE i < round[k]
        BY <1>4, <1>5, <2>2, <4>1
      <4>2. CASE ~(i < round[k])
        <5>1. theFile(k, i) \in seen[k] /\ i >= round[k]
          BY <1>5, <2>5, <3>1, <4>2
        <5>2. theFile(k, i) = f
          BY <2>4, <2>8, <5>1
        <5>3. f[3] = i
          BY <2>4, <5>2
        <5> QED BY <5>3
      <4> QED BY <4>1, <4>2
    <3>2. ProofsTo(k, Chunks(k))'
      BY <1>1, <2>6, <3>1 DEF ProofsTo
    <3> QED BY <1>1, <1>2, <2>1, <2>8, <3>2 DEF Progress
  <2> QED BY <1>4, <2>7, <2>8
<1> QED BY <1>2, <1>3, <1>4, <1>6, RolloutOn

LEMMA RolloutGoes ==
    ASSUME StudioInv, FactsOK, NEW k \in Call, Rollout(k), RolloutOK(k), Goes(k), Stays, Start(k) \/ Command(k)
    PROVE  RolloutOK(k)'
BY RolloutNext, RolloutBegins, EscrowsComing, RootsComing, ProofsRead, ProofsPut DEF VaultStep

(***************************************************************************)
(* A lock goes on; a call sends, waits, fails or ends.                     *)
(***************************************************************************)

LEMMA LockNext ==
    ASSUME NEW k \in Call, Locking(k), LockOK(k), Start(k) \/ Command(k)
    PROVE  Start(k) \/ LockLiquidity(k) \/ LockLiquidityStake2Earn(k) \/ LockRefused(k)
<1>1. at[k] \in LockPlaces /\ job[k].cmd \in {"lock", "lockStake"}
  BY DEF LockOK, Locking
<1>2. ~PositionStep(k)
  BY <1>1 DEF PositionCommands, LockPlaces, PositionStep, At, Doing, FetchPool, NoPosition, ChoosePosition,
     PositionGone, SplitCreate, SplitPosition, ClaimPositionFee, AddLiquidity, Refetch,
     RemoveLiquidity, RemoveQuoted, RemoveRemains, RemoveClose, ClosePosition
<1>3. ~ClaimStep(k)
  BY <1>1 DEF LockPlaces, ClaimPlaces, ClaimStep, At, StartList, StartAuto, StartSdk, ClaimByLib, SkipMint, Claimed,
          LibFailed, SdkRetry, SdkGivesUp, NextLeftover, NothingLeft, TryEntry, NoEntryLeft, FinishClaims
<1>4. ~VaultStep(k)
  BY <1>1 DEF LockPlaces, VaultStep, At, EnterVault, LookForVault, NoVault, OpenForEscrows,
     OpenForProofs, WriteProofs, LookForRoot, LookForMetadata, ReadProofs, PutProofs
<1>5. PoolStep(k) => LockLiquidity(k) \/ LockLiquidityStake2Earn(k) \/ LockRefused(k)
  BY <1>1 DEF LockPlaces, PoolStep, Starts, At, CreateTokenMint, UseMint, CreatePool, NoPool, SeedLiquidityLfg,
     SeedLiquiditySingleBin, SetPoolStatus, CreateFarm
<1> QED BY <1>2, <1>3, <1>4, <1>5 DEF Command

LEMMA LockAllSends ==
    ASSUME StudioInv, NEW k \in Call, LockOK(k), Stays, Locking(k), LockAll(k), at[k] \in {"lock", "lockStake"}
    PROVE  LockOK(k)'
<1>0. PICK n, alloc, amount : n = Balance(k) /\ alloc = job[k].alloc /\ amount = fromAllocationsToAmount(n, alloc)
  OBVIOUS
<1> DEFINE lockOf(j) == <<"lpLock", k, j, amount[j]>>
           b == [j \in DOMAIN amount |-> {LockTx(k, j, amount[j])}]
<1>1. job' = job /\ (Locking(k)' <=> Locking(k))
  BY SameJob DEF Stays
<1>2. SumOf(alloc) \in 1..100 /\ Keep(k, {<<"balance", n>>}) /\ Send(k, b, "returned")
  BY <1>0 DEF LockAll
<1>3. DOMAIN amount = DOMAIN alloc
  BY <1>0 DEF fromAllocationsToAmount
<1>4. \A j : \A x \in {LockTx(k, j, amount[j])} : x.makes = {lockOf(j)}
  BY DEF LockTx, Bare
<1>5. <<"balance", n>>[1] = "balance" /\ <<"balance", n>>[2] = n
  OBVIOUS
<1> HIDE DEF lockOf
<1>6. ASSUME NEW j \in DOMAIN alloc
      PROVE  \E m \in DOMAIN b : \E x \in b[m] : lockOf(j) \in x.makes
  <2>1. j \in DOMAIN b /\ b[j] = {LockTx(k, j, amount[j])}
    BY <1>3
  <2> QED BY <1>4, <2>1
<1> HIDE DEF b
<1>7. at'[k] = "returned" /\ todo'[k] = b
  BY <1>2, SendsTo
<1>8. seen'[k] = seen[k] \cup {<<"balance", n>>}
  BY <1>2 DEF Keep, StudioInv, Shape, IsOf
<1>9. \A f \in seen[k] : f[1] # "balance"
  BY DEF LockOK
<1>10. \A j \in DOMAIN alloc : Coming(k, lockOf(j))'
  BY <1>6, <1>7 DEF Coming, lockOf
<1>11. \A f \in seen'[k] : f[1] = "balance" => f[2] = n
  BY <1>5, <1>8, <1>9
<1>12. LockSent(k)'
  BY <1>0, <1>1, <1>2, <1>10, <1>11 DEF LockSent, lockOf
<1> QED BY <1>1, <1>7, <1>12 DEF LockOK, LockPlaces

LEMMA LockCommand ==
    ASSUME StudioInv, NEW k \in Call, Locking(k), LockOK(k), Stays, Start(k) \/ Command(k)
    PROVE  LockOK(k)'
<1>1. job' = job /\ (Locking(k)' <=> Locking(k))
  BY SameJob DEF Stays
<1>2. ASSUME NEW p \in {"lock", "lockStake", "stopped"}, Goto(k, p), Nothing,
             at[k] \in {"idle", "lock", "lockStake"}
      PROVE  LockOK(k)'
  <2>1. at'[k] = p /\ seen'[k] = seen[k]
    BY <1>2, SendsTo DEF Nothing
  <2>2. LockSent(k)'
    BY <2>1 DEF LockSent
  <2> QED BY <1>1, <1>2, <2>1, <2>2 DEF LockOK, LockPlaces
<1>3. CASE Start(k)
  <2>1. at[k] = "idle" /\ Nothing /\ Goto(k, Entry(job[k].cmd))
    BY <1>3 DEF Start
  <2>2. Entry(job[k].cmd) \in {"lock", "lockStake"}
    BY DEF Locking, Entry, PositionCommands, ClaimCommands
  <2> QED BY <1>2, <2>1, <2>2
<1>4. CASE LockLiquidity(k) \/ LockLiquidityStake2Earn(k)
  BY <1>4, LockAllSends DEF LockLiquidity, LockLiquidityStake2Earn, Starts, At
<1>5. CASE LockRefused(k)
  BY <1>2, <1>5 DEF LockRefused, Starts, At
<1> QED BY <1>3, <1>4, <1>5, LockNext

LEMMA QueueBack ==
    ASSUME NEW s, IsQueue(s), NEW n \in DOMAIN s, n # 1
    PROVE  n - 1 \in DOMAIN Tail(s) /\ Tail(s)[n - 1] = s[n]
<1> DEFINE S == {s[i] : i \in DOMAIN s}
<1>1. s \in Seq(S)
  BY DEF IsQueue
<1> HIDE DEF S
<1>2. n \in 1..Len(s) /\ Len(s) \in Nat /\ n - 1 \in 1..(Len(s) - 1) /\ (n - 1) + 1 = n
  BY <1>1
<1>3. DOMAIN Tail(s) = 1..(Len(s) - 1) /\ \A i \in 1..(Len(s) - 1) : Tail(s)[i] = s[i + 1]
  BY <1>1, <1>2
<1> QED BY <1>2, <1>3

\* What is through is there.
LEMMA ComingNext ==
    ASSUME StudioInv, NEW k \in Call, todo[k] # <<>>, Next1(k), facts' = facts,
           \A x \in Batch(k) : \A f \in x.makes : f[1] \in Lasting => f \in facts,
           NEW f, f[1] \in Lasting, Coming(k, f)
    PROVE  Coming(k, f)'
<1>1. IsQueue(todo[k])
  BY DEF StudioInv, QueueOK
<1>2. todo'[k] = Tail(todo[k])
  BY DEF Next1, StudioInv, Shape, IsOf
<1>3. CASE f \in facts
  BY <1>3 DEF Coming
<1>4. CASE f \notin facts
  <2>1. PICK n \in DOMAIN todo[k] : \E x \in todo[k][n] : f \in x.makes
    BY <1>4 DEF Coming
  <2>2. n # 1
    BY <1>4, <2>1 DEF Batch
  <2>3. n - 1 \in DOMAIN Tail(todo[k]) /\ Tail(todo[k])[n - 1] = todo[k][n]
    BY <1>1, <2>1, <2>2, QueueBack
  <2> QED BY <1>2, <2>1, <2>3 DEF Coming
<1> QED BY <1>3, <1>4

\* Whatever a call does with its transactions, what it or another has done of
\* a rollout or a lock stays done, and a call that fails has not returned.
LEMMA HonourMoves ==
    ASSUME HonourInv, NEW k \in Call, Delivery(k) \/ Fault(k) \/ Stop(k), NEW j \in Call
    PROVE  RolloutOK(j)' /\ LockOK(j)'
<1>1. StudioInv /\ RolloutOK(j) /\ LockOK(j) /\ RolloutOK(k) /\ LockOK(k) /\ IsOf(todo) /\ at \in [Call -> Place]
  BY DEF HonourInv, StudioInv, TypeOK, Shape
<1>2. UNCHANGED <<facts, seen, job, round>>
  BY DEF Delivery, Simulate, Submit, Refused, Confirmed, NotConfirmed, Fault, Stop, Next1, Throw, programVars
<1>3. Stays
  <2>1. \A i, h : theFile(h, i)' = theFile(h, i)
    BY <1>2, SameJob
  <2>2. \A pool, e : Proved(pool, e) => Proved(pool, e)'
    BY <1>2 DEF Proved
  <2> QED BY <1>2, <2>2 DEF Stays
<1>4. ASSUME at'[j] = at[j], todo'[j] = todo[j]
      PROVE  RolloutOK(j)' /\ LockOK(j)'
  <2>1. \A f : Coming(j, f) => Coming(j, f)'
    BY <1>2, <1>4 DEF Coming
  <2> QED BY <1>1, <1>2, <1>3, <1>4, <2>1, HonourRests
<1>5. ASSUME NEW p, Leaves(k, p), ~Claims(k) => p = "stopped"
      PROVE  RolloutOK(j)' /\ LockOK(j)'
  <2>1. CASE j # k
    <3>1. at'[j] = at[j] /\ todo'[j] = todo[j]
      BY <1>1, <1>5, <2>1 DEF Leaves, IsOf
    <3> QED BY <1>4, <3>1
  <2>2. CASE j = k
    <3>1. at'[k] = p
      BY <1>1, <1>5 DEF Leaves
    <3>2. (Rollout(k)' <=> Rollout(k)) /\ (Locking(k)' <=> Locking(k)) /\ (Rollout(k) \/ Locking(k) => ~Claims(k))
      BY <1>2, SameJob DEF Rollout, Locking, Claims, ClaimCommands
    <3>3. p = "stopped" => Progress(k)' /\ LockSent(k)'
      BY <3>1 DEF Progress, LockSent
    <3> QED BY <1>1, <1>2, <1>5, <2>2, <3>1, <3>2, <3>3 DEF RolloutOK, LockOK, RolloutPlaces, LockPlaces, ProofPlaces
  <2> QED BY <2>1, <2>2
<1>6. ASSUME NEW f \in Failures, Throw(k, f)
      PROVE  RolloutOK(j)' /\ LockOK(j)'
  <2>1. Leaves(k, rescue[k][f])
    BY <1>6 DEF Throw, Leaves
  <2>2. ~Claims(k) => rescue[k][f] = "stopped"
    BY <1>1 DEF StudioInv, PlaceOK, Uncaught, CaughtAs
  <2> QED BY <1>5, <2>1, <2>2
<1>7. ASSUME todo[k] # <<>>, Next1(k),
             ~job[k].dry => \A x \in Batch(k) : \A f \in x.makes : f[1] \in Lasting => f \in facts
      PROVE  RolloutOK(j)' /\ LockOK(j)'
  <2>1. CASE j # k
    <3>1. at'[j] = at[j] /\ todo'[j] = todo[j]
      BY <1>1, <1>7, <2>1 DEF Next1, IsOf
    <3> QED BY <1>4, <3>1
  <2>2. CASE j = k
    <3>1. ~job[k].dry => \A f : f[1] \in Lasting /\ Coming(k, f) => Coming(k, f)'
      BY <1>1, <1>2, <1>7, ComingNext
    <3>2. at'[k] = at[k]
      BY <1>7 DEF Next1
    <3> QED BY <1>1, <1>2, <1>3, <2>2, <3>1, <3>2, HonourRests
  <2> QED BY <2>1, <2>2
<1>8. CASE Simulate(k)
  <2>1. todo[k] # <<>> /\ job[k].dry /\ (Next1(k) \/ Throw(k, "send"))
    BY <1>8 DEF Simulate, Prepared, Pretends
  <2> QED BY <1>6, <1>7, <2>1 DEF Failures
<1>9. CASE Submit(k)
  BY <1>4, <1>9 DEF Submit
<1>10. CASE Refused(k)
  BY <1>6, <1>10 DEF Refused, Failures
<1>11. CASE Confirmed(k)
  <2>1. todo[k] # <<>> /\ Next1(k) /\ \A x \in Batch(k) : <<x, "ok">> \in fate
    BY <1>11 DEF Confirmed, Waiting
  <2>2. ASSUME NEW x \in Batch(k), NEW f \in x.makes, f[1] \in Lasting
        PROVE  f \in facts
    <3>1. <<x, "ok">> \in fate /\ <<x, "ok">>[1] = x /\ <<x, "ok">>[2] = "ok"
      BY <2>1
    <3> QED BY <1>1, <2>2, <3>1 DEF StudioInv, FateOK
  <2> QED BY <1>7, <2>1, <2>2
<1>12. CASE NotConfirmed(k)
  BY <1>6, <1>12 DEF NotConfirmed, Failures
<1>13. CASE Fault(k)
  BY <1>6, <1>13 DEF Fault, Failures
<1>14. CASE Stop(k)
  <2>1. Leaves(k, "stopped")
    BY <1>14 DEF Stop, Leaves
  <2> QED BY <1>5, <2>1
<1> QED BY <1>8, <1>9, <1>10, <1>11, <1>12, <1>13, <1>14 DEF Delivery

\* A command goes on.
LEMMA HonourCommand ==
    ASSUME HonourInv, NEW k \in Call, Start(k) \/ Command(k)
    PROVE  FactsOK' /\ \A j \in Call : RolloutOK(j)' /\ LockOK(j)'
<1>1. StudioInv /\ FactsOK /\ \A j \in Call : RolloutOK(j) /\ LockOK(j)
  BY DEF HonourInv
<1>2. Goes(k) /\ Stays /\ FactsOK'
  BY <1>1, CommandKept
<1>3. ASSUME NEW j \in Call, j # k
      PROVE  RolloutOK(j)' /\ LockOK(j)'
  <2>1. at'[j] = at[j] /\ todo'[j] = todo[j] /\ seen'[j] = seen[j]
    BY <1>2, <1>3 DEF Goes, Rests
  <2>2. round'[j] = round[j]
    BY <1>1, <1>3, CommandTurns DEF TurnsOwn
  <2>3. \A f : f[1] \in Lasting /\ Coming(j, f) => Coming(j, f)'
    BY <1>2, <2>1 DEF Coming, Stays
  <2> QED BY <1>1, <1>2, <2>1, <2>2, <2>3, HonourRests
<1>4. (Rollout(k)' <=> Rollout(k)) /\ (Locking(k)' <=> Locking(k))
  BY <1>2, SameJob DEF Stays
<1>5. RolloutOK(k)'
  <2>1. CASE Rollout(k)
    BY <1>1, <1>2, <2>1, RolloutGoes
  <2>2. CASE ~Rollout(k)
    BY <1>4, <2>2 DEF RolloutOK
  <2> QED BY <2>1, <2>2
<1>6. LockOK(k)'
  <2>1. CASE Locking(k)
    BY <1>1, <1>2, <2>1, LockCommand
  <2>2. CASE ~Locking(k)
    BY <1>4, <2>2 DEF LockOK
  <2> QED BY <2>1, <2>2
<1> QED BY <1>2, <1>3, <1>5, <1>6

\* What happens outside the processes takes nothing of a rollout or a lock
\* away, and roots come with what they were made from.
LEMMA HonourHappens ==
    ASSUME HonourInv, UNCHANGED <<processVars, job>>, Steady,
           \A f \in facts' : f[1] \in {"root", "rootOf"} =>
               f \in facts \/ \E x \in pending : f \in x.makes /\ x.makes \subseteq facts'
    PROVE  FactsOK' /\ \A j \in Call : RolloutOK(j)' /\ LockOK(j)'
<1>1. StudioInv /\ FactsOK /\ \A j \in Call : RolloutOK(j) /\ LockOK(j)
  BY DEF HonourInv
<1>2. UNCHANGED <<at, todo, round, seen, job>>
  BY DEF processVars
<1>3. Stays
  <2>1. \A j, i : theFile(j, i)' = theFile(j, i) /\ theFile(j, i)[1] = "file"
    BY <1>2, SameJob DEF theFile
  <2>2. \A f \in facts : f[1] \in {"file", "proof"} \cup Lasting => f \in facts'
    BY DEF Steady, Local
  <2>3. ASSUME NEW pool, NEW e, Proved(pool, e)
        PROVE  Proved(pool, e)'
    <3>1. PICK p \in facts : p[1] = "proof" /\ p[2] = pool /\ p[3] = e
      BY <2>3 DEF Proved
    <3> QED BY <2>2, <3>1 DEF Proved
  <2> QED BY <1>2, <2>1, <2>2, <2>3 DEF Stays
<1>4. ASSUME NEW f \in facts', f \notin facts, f[1] \in {"root", "rootOf"}
      PROVE  /\ f[1] = "rootOf" => RootFact(f)
             /\ f[1] = "root" => \E g \in facts' : g[1] = "rootOf" /\ g[2] = f[2] /\ g[3] = f[3]
  <2>1. PICK x \in pending : f \in x.makes /\ x.makes \subseteq facts'
    BY <1>4
  <2>2. PICK j \in Call : Mild(j, x)
    BY <1>1, <2>1 DEF StudioInv, PendingOK, Sound
  <2>3. PICK i \in Nat : x.makes = {theRoot(j, i), <<"rootOf", PoolOf(j), i, Part(job[j].list, ChunkSize, i)>>}
    BY <1>4, <2>1, <2>2 DEF Mild
  <2>4. x.makes = {theRoot(j, i), rootOf(j, i)}
    BY <2>3 DEF rootOf, Made
  <2>5. theRoot(j, i)[1] = "root" /\ theRoot(j, i)[2] = PoolOf(j) /\ theRoot(j, i)[3] = i
    BY DEF theRoot
  <2>6. rootOf(j, i)[1] = "rootOf" /\ rootOf(j, i)[2] = PoolOf(j) /\ rootOf(j, i)[3] = i /\ RootFact(rootOf(j, i))
    BY DEF rootOf, RootFact
  <2>7. CASE f = theRoot(j, i)
    BY <2>1, <2>4, <2>5, <2>6, <2>7
  <2>8. CASE f = rootOf(j, i)
    BY <2>6, <2>8
  <2> QED BY <2>1, <2>4, <2>7, <2>8
<1>5. \A f \in facts' : f[1] \in {"file", "proof"} => f \in facts
  BY DEF Steady, Local
<1>6. FactsOK'
  <2>1. \A f \in facts' : \/ f \in facts
                          \/ f[1] \notin {"file", "proof", "root", "rootOf"}
                          \/ f[1] = "rootOf" /\ RootFact(f)
                          \/ f[1] = "root" /\ \E g \in facts' : g[1] = "rootOf" /\ g[2] = f[2] /\ g[3] = f[3]
    BY <1>4, <1>5
  <2> QED BY <1>1, <1>2, <1>3, <2>1, FactsStay
<1>7. ASSUME NEW j \in Call
      PROVE  RolloutOK(j)' /\ LockOK(j)'
  <2>1. \A f : f[1] \in Lasting /\ Coming(j, f) => Coming(j, f)'
    BY <1>2, <1>3 DEF Coming, Stays
  <2> QED BY <1>1, <1>2, <1>3, <2>1, HonourRests
<1> QED BY <1>6, <1>7

LEMMA HonourCluster ==
    ASSUME HonourInv, Cluster
    PROVE  FactsOK' /\ \A j \in Call : RolloutOK(j)' /\ LockOK(j)'
<1>1. StudioInv
  BY DEF HonourInv
<1>2. PICK x \in pending : Execute(x, Awaited(x)) \/ Expire(x, Awaited(x))
  BY DEF Cluster
<1>3. UNCHANGED <<processVars, job>>
  BY DEF Cluster
<1>4. CASE Execute(x, Awaited(x))
  <2>1. Executes(x)
    BY <1>4 DEF Execute
  <2>2. /\ Steady
        /\ \A f \in facts' : f[1] \in {"root", "rootOf"} => f \in facts \/ f \in x.makes
        /\ Fits(x) => \A f \in x.makes : f \in facts'
        /\ ~Fits(x) => facts' = facts
    BY <1>1, <2>1, Executed
  <2>3. ASSUME NEW f \in facts', f[1] \in {"root", "rootOf"}
        PROVE  f \in facts \/ \E y \in pending : f \in y.makes /\ y.makes \subseteq facts'
    BY <2>2, <2>3
  <2> QED BY <1>3, <2>2, <2>3, HonourHappens
<1>5. CASE Expire(x, Awaited(x))
  BY <1>3, <1>5, HonourHappens DEF Expire, Steady
<1> QED BY <1>2, <1>4, <1>5

LEMMA HonourNextInv == HonourInv /\ [Next]_vars => HonourInv'
<1> SUFFICES ASSUME HonourInv, [Next]_vars
             PROVE  HonourInv'
  OBVIOUS
<1>1. StudioInv /\ StudioInv'
  BY NextInv DEF HonourInv
<1> DEFINE Rest == FactsOK' /\ \A j \in Call : RolloutOK(j)' /\ LockOK(j)'
<1>2. ASSUME NEW k \in Call, Start(k) \/ Command(k)
      PROVE  Rest
  BY <1>2, HonourCommand
<1>3. ASSUME NEW k \in Call, Delivery(k) \/ Fault(k) \/ Stop(k)
      PROVE  Rest
  <2>1. UNCHANGED <<facts, seen, job>>
    BY <1>3 DEF Delivery, Simulate, Submit, Refused, Confirmed, NotConfirmed, Fault, Stop, Next1, Throw, programVars
  <2>2. FactsOK'
    <3>1. \A f : (FileFact(f)' <=> FileFact(f)) /\ (RootFact(f)' <=> RootFact(f)) /\ (ProofFact(f)' <=> ProofFact(f))
      BY <2>1, SameJob
    <3>2. FactsOK
      BY DEF HonourInv
    <3> QED BY <2>1, <3>1, <3>2 DEF FactsOK
  <2> QED BY <1>3, <2>2, HonourMoves
<1>4. Cluster => Rest
  BY HonourCluster
<1>5. ASSUME World
      PROVE  Rest
  BY <1>1, <1>5, WorldSteady, HonourHappens DEF World
<1>6. ASSUME UNCHANGED vars
      PROVE  Rest
  <2>1. UNCHANGED <<processVars, job>> /\ facts' = facts
    BY <1>6 DEF vars, programVars
  <2>2. Steady
    BY <2>1 DEF Steady
  <2>3. \A f \in facts' : f \in facts
    BY <2>1
  <2> QED BY <2>1, <2>2, <2>3, HonourHappens
<1>7. Rest
  BY <1>2, <1>3, <1>4, <1>5, <1>6 DEF Next
<1> QED BY <1>1, <1>7 DEF HonourInv

LEMMA HonourInitInv == Init => HonourInv
<1> SUFFICES ASSUME Init
             PROVE  HonourInv
  OBVIOUS
<1>1. PICK input \in Inputs : job = input.job /\ facts = input.facts
  BY DEF Init
<1>2. /\ \A k \in Call : input.job[k].cmd \in {"vault", "createPool"} => input.job[k].list \in Seq(Nat)
      /\ \A f \in input.facts : f[1] \notin {"file", "root", "rootOf", "proof"}
  BY InputsAssumption
<1>3. \A k \in Call : at[k] = "idle" /\ seen[k] = {}
  BY DEF Init
<1>4. FactsOK
  BY <1>1, <1>2, <1>3 DEF FactsOK
<1>5. ASSUME NEW k \in Call
      PROVE  RolloutOK(k) /\ LockOK(k)
  <2>1. Rollout(k) => job[k].list \in Seq(Nat)
    BY <1>1, <1>2 DEF Rollout
  <2>2. Progress(k) /\ LockSent(k)
    BY <1>3 DEF Progress, LockSent
  <2> QED BY <1>3, <2>1, <2>2 DEF RolloutOK, LockOK, RolloutPlaces, LockPlaces, ProofPlaces
<1> QED BY <1>4, <1>5, InitInv DEF HonourInv

(***************************************************************************)
(* Who is listed gets it.                                                  *)
(***************************************************************************)

\* No part beyond the last has anything in it.
LEMMA PartIsOne ==
    ASSUME NEW list \in Seq(Nat), NEW size \in Nat \ {0}, NEW i \in Nat, Part(list, size, i) # {}
    PROVE  i < Parts(list, size)
<1> DEFINE n == Len(list)
           a == n + size - 1
           q == a \div size
<1>1. n \in Nat /\ DOMAIN list = 1..n /\ a \in Nat /\ size \in Nat /\ size >= 1
  OBVIOUS
<1>2. PICK m \in 1..n : i * size < m
  BY <1>1 DEF Part
<1>3. q \in Nat /\ a < (q + 1) * size
  BY <1>1, Floor
<1>4. Parts(list, size) = q
  BY DEF Parts
<1> DEFINE s == i * size
           t == (i + 1) * size
<1>5. s \in Nat /\ t = s + size
  BY <1>1
<1>6. s < m /\ a = n + size - 1
  BY <1>2
<1> HIDE DEF n, a, q, s, t
<1>7. t <= a
  BY <1>1, <1>2, <1>5, <1>6
<1>8. q + 1 \in Nat /\ i + 1 \in Nat
  BY <1>3
<1>9. q + 1 <= i + 1 => (q + 1) * size <= t
  BY <1>1, <1>8, TimesOrder DEF t
<1>10. (q + 1) * size \in Nat
  BY <1>1, <1>8
<1>11. ~(q + 1 <= i + 1)
  BY <1>1, <1>3, <1>5, <1>7, <1>9, <1>10
<1> QED BY <1>3, <1>4, <1>11

\* A proof there was made from the part that holds the entry, and that is the
\* part whose root is there.
LEMMA ListedMeansLetIn ==
    ASSUME FactsOK, NEW k \in Call, SameList(k), job[k].list \in Seq(Nat), todo[k] = <<>>,
           RootsTo(k, Chunks(k)), ProofsTo(k, Chunks(k)), NEW n \in DOMAIN job[k].list
    PROVE  LetIn(job[k].list[n], PoolOf(k))
<1> DEFINE e == job[k].list[n]
           pool == PoolOf(k)
<1>1. ChunkSize \in Nat \ {0}
  BY ChunkAssumption
<1>2. \E p \in facts : p[1] = "proof" /\ p[2] = pool /\ p[3] = e
  <2>1. PICK i \in 0..(Chunks(k) - 1) : e \in Made(k, i)
    BY <1>1, PartsCover DEF Chunks, Made
  <2>2. i \in Nat /\ i < Chunks(k)
    BY <1>1, <2>1, PartsCover DEF Chunks
  <2> QED BY <2>1, <2>2 DEF ProofsTo, Proved
<1>3. ASSUME NEW p \in facts, p[1] = "proof", p[2] = pool, p[3] = e
      PROVE  \E r \in facts : /\ r[1] = "rootOf" /\ r[2] = pool /\ r[3] = p[4]
                              /\ verifyProof(e, getProof(p[5], e), getRoot(r[4]))
  <2>1. ProofFact(p)
    BY <1>3 DEF FactsOK
  <2>2. PICK j \in Call : /\ p[2] = PoolOf(j) /\ p[3] \in Made(j, p[4])
                          /\ p[4] \in Nat /\ p[5] = Made(j, p[4])
    BY <2>1, FieldsOf
  <2>3. Made(j, p[4]) = Made(k, p[4])
    BY SameParts
  <2>4. PICK i \in Nat : i = p[4]
    BY <2>2
  <2>5. e \in Made(k, i) /\ p[5] = Made(k, i)
    BY <1>3, <2>2, <2>3, <2>4
  <2>6. i < Chunks(k)
    BY <1>1, <2>5, PartIsOne DEF Made, Chunks
  <2>7. rootOf(k, i) \in facts
    BY <2>6 DEF RootsTo, Coming
  <2>8. rootOf(k, i)[1] = "rootOf" /\ rootOf(k, i)[2] = pool /\ rootOf(k, i)[3] = i /\ rootOf(k, i)[4] = Made(k, i)
    BY DEF rootOf
  <2>9. Made(k, i) \in SUBSET Nat /\ IsFiniteSet(Made(k, i))
    BY <1>1, PartsCover DEF Made
  <2>10. verifyProof(e, getProof(Made(k, i), e), getRoot(Made(k, i)))
    BY <2>5, <2>9, ProofVerifies
  <2> QED BY <2>4, <2>5, <2>7, <2>8, <2>10
<1> HIDE DEF e, pool
<1>4. LetIn(e, pool)
  BY <1>2, <1>3 DEF LetIn
<1> QED BY <1>4 DEF e, pool

LEMMA RolloutsHonoured == HonourInv => ReturnedMeansLetIn
<1> SUFFICES ASSUME HonourInv, NEW k \in Call, At(k, "returned"), Rollout(k), ~job[k].dry, SameList(k),
                    job[k].vault = "authority" \/ (job[k].vault = "merkle" /\ job[k].upload),
                    NEW n \in DOMAIN job[k].list
             PROVE  LetIn(job[k].list[n], PoolOf(k))
  BY DEF ReturnedMeansLetIn, Rollout
<1>1. at[k] = "returned" /\ todo[k] = <<>> /\ FactsOK /\ job[k].list \in Seq(Nat) /\ Progress(k)
  BY DEF At, HonourInv, RolloutOK
<1>2. CASE job[k].vault = "authority"
  BY <1>1, <1>2 DEF Progress, Coming, LetIn
<1>3. CASE job[k].vault = "merkle" /\ job[k].upload
  BY <1>1, <1>3, ListedMeansLetIn DEF Progress
<1> QED BY <1>2, <1>3

LEMMA LocksHonoured == HonourInv => LockedAsAllocated
<1> SUFFICES ASSUME HonourInv, NEW k \in Call, NEW b \in 0..LpUnits,
                    At(k, "returned"), Locking(k), ~job[k].dry, <<"balance", b>> \in seen[k]
             PROVE  \E amount \in [DOMAIN job[k].alloc -> 0..b] :
                       /\ SumOf(amount) = b
                       /\ \A j \in DOMAIN amount :
                             /\ <<"lpLock", k, j, amount[j]>> \in facts
                             /\ (amount[j] + 1) * SumOf(job[k].alloc) > b * job[k].alloc[j]
  BY DEF LockedAsAllocated, Locking
<1> DEFINE alloc == job[k].alloc
           amount == fromAllocationsToAmount(b, alloc)
<1>1. at[k] = "returned" /\ todo[k] = <<>> /\ LockSent(k) /\ alloc \in Seq(Nat)
  BY DEF At, HonourInv, LockOK, StudioInv, Shape
<1>2. <<"balance", b>>[1] = "balance" /\ <<"balance", b>>[2] = b
  OBVIOUS
<1>3. SumOf(alloc) \in 1..100 /\ \A j \in DOMAIN alloc : Coming(k, <<"lpLock", k, j, amount[j]>>)
  BY <1>1, <1>2 DEF LockSent
<1>4. \A j \in DOMAIN alloc : <<"lpLock", k, j, amount[j]>> \in facts
  BY <1>1, <1>3 DEF Coming
<1>5. b \in Nat /\ SumOf(alloc) >= 1
  BY <1>3, SeedingAssumption
<1> HIDE DEF alloc
<1>6. /\ amount \in [DOMAIN alloc -> 0..b] /\ SumOf(amount) = b
      /\ \A j \in DOMAIN amount : (amount[j] + 1) * SumOf(alloc) > b * alloc[j]
  BY <1>1, <1>5, AmountsAddUp
<1> HIDE DEF amount
<1>7. DOMAIN amount = DOMAIN alloc
  BY <1>6
<1>8. \A j \in DOMAIN amount : <<"lpLock", k, j, amount[j]>> \in facts /\ (amount[j] + 1) * SumOf(alloc) > b * alloc[j]
  BY <1>4, <1>6, <1>7
<1> QED BY <1>6, <1>8 DEF alloc

\* Every wallet of a whitelist is let in once its rollout returns, whatever was
\* stopped and begun again, by a proof that verifies for any list; and a lock
\* that returns has locked the whole balance it read, no share too small.
THEOREM HonouredCorrect == Spec => []ListsAreHonoured
<1>1. HonourInv => ListsAreHonoured
  BY RolloutsHonoured, LocksHonoured, WholeListsVerify DEF ListsAreHonoured
<1> QED BY <1>1, HonourInitInv, HonourNextInv, PTL DEF Spec
=============================================================================
