---------------------------- MODULE LiveData_proofs ----------------------------
(***************************************************************************)
(* Proofs about the Explore page, for any number of lists, tokens and      *)
(* updates and whatever connects, breaks and scrolls in between: that the  *)
(* server is asked for what the page shows and for nothing else, and that  *)
(* the columns show what has happened.                                     *)
(*                                                                         *)
(* For the first, two sets of topics have to be followed: what the provider*)
(* has written down, which an open socket will be told, and what the server*)
(* was told on the socket there is.  Both are held between what is visible *)
(* to one list only and what is visible at all.                            *)
(*                                                                         *)
(* For the second, the order of the updates under way is what counts:      *)
(* whatever would bring a graduated token back is followed by its          *)
(* graduation.  That the handler's loop then leaves it out is an induction *)
(* over the batch.                                                         *)
(***************************************************************************)
EXTENDS LiveData, ListFacts

Needed == {Recent} \cup (Visible \ shared)
Allowed == IF page = "here" THEN {Recent} \cup Visible ELSE {}

(* A pool that two lists show is known to be shared. *)
SharedKnown ==
  \A l, k \in Lists : l # k => shown[l] \cap shown[k] \subseteq shared

(* What is written down. *)
NotesOK ==
  /\ subs \subseteq Allowed
  /\ page = "here" => Needed \subseteq subs

(* What the server was told, on a socket that is open. *)
SocketOK ==
  /\ server \subseteq Allowed
  /\ page = "here" /\ sock = "open" => Needed \subseteq server
  /\ sock # "open" => server = {}
  /\ due => sock = "closed"

NobodyShows == page = "away" => Visible = {}

ListenInv == StreamType /\ SharedKnown /\ NotesOK /\ SocketOK /\ NobodyShows

-----------------------------------------------------------------------------
(* At the start nobody asks for anything. *)
LEMMA ListenInit == Init => ListenInv
  BY ZenonT(60) DEF Init, StreamInit, ListenInv, StreamType, Topics, SharedKnown, NotesOK, SocketOK,
         NobodyShows, Needed, Allowed, Visible

(* A step that leaves the stream and what is shared alone keeps all of it. *)
LEMMA ElsewhereKeeps ==
  ASSUME ListenInv, UNCHANGED <<stream, shared>>
  PROVE  ListenInv'
  BY DEF stream, ListenInv, StreamType, Topics, SharedKnown, NotesOK, SocketOK, NobodyShows,
         Needed, Allowed, Visible

(* What is visible after a list changed what it shows: what the others     *)
(* show, and what it shows now.                                            *)
LEMMA VisibleAfter ==
  ASSUME StreamType, NEW l \in Lists, NEW pools \in SUBSET Tokens,
         shown' = [shown EXCEPT ![l] = pools]
  PROVE  /\ Visible' = pools \cup UNION {shown[k] : k \in Lists \ {l}}
         /\ Visible = shown[l] \cup UNION {shown[k] : k \in Lists \ {l}}
         /\ shown' \in [Lists -> SUBSET Tokens]
         /\ shown'[l] = pools
         /\ \A k \in Lists \ {l} : shown'[k] = shown[k]
  BY DEF StreamType, Visible

(* Whatever a list shows next, the topics follow: what it no longer shows  *)
(* is taken back before what it shows is asked for, so only a pool that    *)
(* another list shows as well may be taken from it, and that pool is known *)
(* to be shared.                                                           *)
LEMMA ListShowsKeeps ==
  ASSUME ListenInv, NEW l \in Lists, ListShows(l)
  PROVE  ListenInv'
<1> DEFINE others == UNION {shown[k] : k \in Lists \ {l}}
<1>1. PICK pools \in SUBSET Tokens :
        /\ ShowIn(l, pools)
        /\ shared' = shared \cup (pools \cap others)
  BY DEF ListShows
<1>2. StreamType /\ page = "here" /\ UNCHANGED <<page, sock, first, due>>
  BY <1>1 DEF ListenInv, ShowIn
<1>3. /\ Visible' = pools \cup others
      /\ Visible = shown[l] \cup others
      /\ shown' \in [Lists -> SUBSET Tokens]
      /\ shown'[l] = pools
      /\ \A k \in Lists \ {l} : shown'[k] = shown[k]
  BY <1>1, <1>2, VisibleAfter DEF ShowIn
<1>4. /\ subs' = (subs \ shown[l]) \cup pools
      /\ server' = IF sock = "open" THEN (server \ shown[l]) \cup pools ELSE server
  BY <1>1 DEF ShowIn, Resubscribed, IfOpen
<1>5. Recent \notin shown[l] /\ shown[l] \in SUBSET Tokens
  BY <1>2, TopicAssumption DEF StreamType
<1>6. SharedKnown'
  <2> SUFFICES ASSUME NEW a \in Lists, NEW b \in Lists, a # b
               PROVE  shown'[a] \cap shown'[b] \subseteq shared'
    BY DEF SharedKnown
  <2>1. shown[a] \cap shown[b] \subseteq shared
    BY DEF ListenInv, SharedKnown
  <2>2. CASE a # l /\ b # l
    BY <1>1, <1>3, <2>1, <2>2
  <2>3. CASE a = l
    BY <1>1, <1>3, <2>3
  <2>4. CASE b = l
    BY <1>1, <1>3, <2>4
  <2> QED BY <2>2, <2>3, <2>4
<1>7. \A x \in others \ shared : x \notin shown[l]
  BY DEF ListenInv, SharedKnown
<1> HIDE DEF others
<1>8. Needed \ shown[l] \subseteq {Recent} \cup (others \ shared)
  BY <1>3 DEF Needed
<1>9. Needed' \subseteq {Recent} \cup pools \cup (others \ shared)
  BY <1>1, <1>3 DEF Needed
<1>10. {Recent} \cup (others \ shared) \subseteq Needed
  BY <1>3 DEF Needed
<1>11. Allowed' = {Recent} \cup pools \cup others /\ Allowed = {Recent} \cup shown[l] \cup others
  BY <1>2, <1>3 DEF Allowed
<1>12. NotesOK'
  BY <1>2, <1>4, <1>5, <1>7, <1>9, <1>10, <1>11 DEF ListenInv, NotesOK
<1>13. SocketOK'
  <2>1. SocketOK
    BY DEF ListenInv
  <2>2. CASE sock = "open"
    BY <1>2, <1>4, <1>5, <1>7, <1>9, <1>10, <1>11, <2>1, <2>2 DEF SocketOK
  <2>3. CASE sock # "open"
    BY <1>2, <1>4, <2>1, <2>3 DEF SocketOK
  <2> QED BY <2>2, <2>3
<1>14. StreamType'
  BY <1>2, <1>3, <1>4 DEF StreamType, Topics
<1> QED
  BY <1>2, <1>6, <1>12, <1>13, <1>14 DEF ListenInv, NobodyShows

(* A page that mounts asks for the feed of new tokens and for no pool yet. *)
LEMMA EnterKeeps ==
  ASSUME ListenInv, Enter, UNCHANGED shared
  PROVE  ListenInv'
<1>1. /\ page = "away" /\ page' = "here" /\ sock' = "connecting" /\ ~due /\ sock # "open"
      /\ first' = TRUE /\ subs' = {Recent} /\ UNCHANGED <<due, server, shown, shared>>
  BY DEF Enter
<1>2. Visible = {} /\ Visible' = Visible
  BY <1>1 DEF ListenInv, NobodyShows, Visible
<1>3. StreamType' /\ SharedKnown' /\ NobodyShows'
  BY <1>1 DEF ListenInv, StreamType, Topics, SharedKnown, NobodyShows
<1>4. NotesOK'
  BY <1>1, <1>2 DEF NotesOK, Needed, Allowed
<1>5. SocketOK'
  BY <1>1 DEF ListenInv, SocketOK
<1> QED BY <1>3, <1>4, <1>5 DEF ListenInv

(* The socket opens: the server is told exactly what is written down, also *)
(* for a page that has left, of which nothing is written down.             *)
LEMMA OpenedKeeps ==
  ASSUME ListenInv, Opened, UNCHANGED shared
  PROVE  ListenInv'
<1>1. /\ sock = "connecting" /\ sock' = "open" /\ server' = subs
      /\ UNCHANGED <<page, first, due, subs, shown, shared>>
  BY DEF Opened, Wanted
<1>2. Needed' = Needed /\ Allowed' = Allowed /\ Visible' = Visible
  BY <1>1 DEF Needed, Allowed, Visible
<1> QED
  BY <1>1, <1>2 DEF ListenInv, StreamType, Topics, SharedKnown, NotesOK, SocketOK, NobodyShows

(* The socket closes, and with it goes what the server was told.           *)
LEMMA ClosedKeeps ==
  ASSUME ListenInv, Closed, UNCHANGED shared
  PROVE  ListenInv'
<1>1. /\ sock' = "closed" /\ server' = {} /\ due' \in BOOLEAN
      /\ UNCHANGED <<page, first, subs, shown, shared>>
  BY DEF Closed, Closes
<1>2. Needed' = Needed /\ Allowed' = Allowed /\ Visible' = Visible
  BY <1>1 DEF Needed, Allowed, Visible
<1> QED
  BY <1>1, <1>2 DEF ListenInv, StreamType, Topics, SharedKnown, NotesOK, SocketOK, NobodyShows

LEMMA ReconnectKeeps ==
  ASSUME ListenInv, Reconnect, UNCHANGED shared
  PROVE  ListenInv'
<1>1. /\ due /\ due' = FALSE /\ sock' = "connecting" /\ first' = FALSE
      /\ UNCHANGED <<page, subs, server, shown, shared>>
  BY DEF Reconnect
<1>2. Needed' = Needed /\ Allowed' = Allowed /\ Visible' = Visible
  BY <1>1 DEF Needed, Allowed, Visible
<1> QED
  BY <1>1, <1>2 DEF ListenInv, StreamType, Topics, SharedKnown, NotesOK, SocketOK, NobodyShows

(* The page goes.  The socket may stay, but nothing is asked for on it:    *)
(* all that was written down, and all the server was told, was for         *)
(* something the page showed.                                              *)
LEMMA LeaveKeeps ==
  ASSUME ListenInv, Leave, shared' = {}
  PROVE  ListenInv'
<1>1. /\ page = "here" /\ page' = "away"
      /\ sock' = IF first THEN "closed" ELSE sock
      /\ subs' = TakenBack(subs)
      /\ server' = IF first THEN {} ELSE IfOpen(TakenBack(server))
      /\ shown' = [l \in Lists |-> {}]
      /\ UNCHANGED <<first, due>>
  BY DEF Leave
<1>2. subs' = {} /\ server' = {}
  BY <1>1 DEF ListenInv, NotesOK, SocketOK, Allowed, TakenBack, IfOpen
<1>3. shown' \in [Lists -> SUBSET Tokens] /\ \A l \in Lists : shown'[l] = {}
  BY <1>1
<1>4. Visible' = {}
  BY <1>3 DEF Visible
<1>5. StreamType' /\ SharedKnown' /\ NotesOK' /\ NobodyShows'
  BY <1>1, <1>2, <1>3, <1>4
     DEF ListenInv, StreamType, Topics, SharedKnown, NotesOK, NobodyShows, Allowed
<1>6. SocketOK'
  BY <1>1, <1>2 DEF ListenInv, SocketOK
<1> QED BY <1>5, <1>6 DEF ListenInv

-----------------------------------------------------------------------------
LEMMA ListenStep == ListenInv /\ [Next]_vars => ListenInv'
<1> SUFFICES ASSUME ListenInv, [Next]_vars
             PROVE  ListenInv'
  OBVIOUS
<1>1. CASE Market
  BY <1>1, ElsewhereKeeps DEF Market
<1>2. CASE \E n \in 1..MaxQueue : Deliver(n)
  BY <1>2, ElsewhereKeeps DEF Deliver
<1>3. CASE FetchSent \/ FetchAnswered \/ FetchFailed
  BY <1>3, ElsewhereKeeps DEF FetchSent, FetchAnswered, FetchFailed
<1>4. CASE \E l \in Lists : ListShows(l)
  BY <1>4, ListShowsKeeps
<1>5. CASE PageStep
  BY <1>5, EnterKeeps, OpenedKeeps, ReconnectKeeps, ClosedKeeps, LeaveKeeps DEF PageStep, Lost
<1>6. CASE UNCHANGED vars
  BY <1>6, ElsewhereKeeps DEF vars
<1> QED BY <1>1, <1>2, <1>3, <1>4, <1>5, <1>6 DEF Next

(* The server is asked for all the page shows, except for pools that two   *)
(* lists showed at once, and for nothing else: init() asks again for all   *)
(* that is written down, and the effects of a component that goes take     *)
(* back all it wrote (DataStreamProvider.tsx, TokenCardList.tsx).          *)
THEOREM ListeningCorrect == Spec => []ListeningIsRight
<1>1. ListenInv => ListeningIsRight
  BY DEF ListenInv, SocketOK, Needed, Allowed, ListeningIsRight, ShownIsHeard, NothingForNobody
<1> QED BY <1>1, ListenInit, ListenStep, PTL DEF Spec

-----------------------------------------------------------------------------
(* The columns.  What is in "New" and in "Soon".                           *)

InNew(c) == ToSet(c.recent)
InSoonNow(c) == {p.token : p \in ToSet(c.soon)}

LEMMA Members ==
  ASSUME NEW S, NEW s \in Seq(S)
  PROVE  /\ ToSet(s) = {s[i] : i \in 1..Len(s)}
         /\ ToSet(s) \subseteq S
         /\ \A x : Contains(s, x) <=> x \in ToSet(s)
  BY DEF ToSet, Contains

LEMMA SoonMembers ==
  ASSUME NEW c \in Column
  PROVE  \A t : Contains(SoonTokens(c.soon), t) <=> t \in InSoonNow(c)
<1>1. c.soon \in Seq(InSoon)
  BY DEF Column
<1> DEFINE s == c.soon
           q == SoonTokens(s)
<1>2. DOMAIN s = 1..Len(s) /\ Len(s) \in Nat /\ ToSet(s) = {s[i] : i \in 1..Len(s)}
  BY <1>1, Members
<1>3. q = [i \in 1..Len(s) |-> s[i].token]
  BY <1>2 DEF SoonTokens
<1>4. Len(q) = Len(s) /\ \A i \in 1..Len(s) : q[i] = s[i].token
  BY <1>2, <1>3
<1> HIDE DEF q
<1>5. \A t : Contains(q, t) <=> \E i \in 1..Len(s) : s[i].token = t
  BY <1>4 DEF Contains
<1> QED BY <1>2, <1>5 DEF InSoonNow, q

(* A list cut to Limit is the beginning of it, all of it if it is short.   *)
LEMMA CutSeq ==
  ASSUME NEW S, NEW s \in Seq(S)
  PROVE  /\ Cut(s) \in Seq(S) /\ Len(Cut(s)) <= Limit
         /\ Len(Cut(s)) <= Len(s)
         /\ Len(Cut(s)) = Limit \/ Len(Cut(s)) = Len(s)
         /\ \A i \in 1..Len(Cut(s)) : Cut(s)[i] = s[i]
         /\ ToSet(Cut(s)) \subseteq ToSet(s)
<1> DEFINE n == Len(s)
           m == Min({Limit, n})
<1>1. Limit \in Nat /\ n \in Nat
  BY ColumnAssumption
<1>2. m = IF Limit <= n THEN Limit ELSE n
  <2>1. m \in {Limit, n} /\ \A y \in {Limit, n} : m =< y
    <3>1. \E x \in {Limit, n} : \A y \in {Limit, n} : x =< y
      BY <1>1
    <3> HIDE DEF n
    <3> QED BY <3>1 DEF Min
  <2> QED BY <1>1, <2>1
<1> HIDE DEF m
<1>3. m \in 0..n /\ m <= Limit /\ (m = Limit \/ m = n)
  BY <1>1, <1>2
<1>4. Cut(s) = SubSeq(s, 1, m)
  BY DEF Cut, m
<1>5. Cut(s) \in Seq(S) /\ Len(Cut(s)) = m /\ \A i \in 1..m : Cut(s)[i] = s[i]
  BY <1>1, <1>3, <1>4
<1>6. ToSet(Cut(s)) \subseteq ToSet(s)
  BY <1>1, <1>3, <1>5, Members
<1> QED BY <1>3, <1>5, <1>6

LEMMA UpsertSeq ==
  ASSUME NEW s \in Seq(Token), NEW t \in Token
  PROVE  Upsert(s, t) \in Seq(Token) /\ ToSet(Upsert(s, t)) = ToSet(s) \cup {t}
<1>1. CASE Contains(s, t)
  BY <1>1, Members DEF Upsert
<1>2. CASE ~Contains(s, t)
  <2> DEFINE r == Append(s, t)
  <2>1. /\ r \in Seq(Token) /\ Len(r) = Len(s) + 1 /\ Len(s) \in Nat
        /\ \A i \in 1..Len(s) : r[i] = s[i]
        /\ r[Len(s) + 1] = t
    OBVIOUS
  <2>2. Upsert(s, t) = r
    BY <1>2 DEF Upsert
  <2> HIDE DEF r
  <2>3. ToSet(r) = {r[i] : i \in 1..Len(s) + 1} /\ ToSet(s) = {s[i] : i \in 1..Len(s)}
    BY <2>1, Members
  <2>4. \A i \in 1..Len(s) + 1 : i \in 1..Len(s) \/ i = Len(s) + 1
    BY <2>1
  <2>5. ToSet(r) = ToSet(s) \cup {t}
    BY <2>1, <2>3, <2>4
  <2> QED BY <2>1, <2>2, <2>5
<1> QED BY <1>1, <1>2

(* "Soon" gains at most the token of the update.                           *)
LEMMA PromoteSeq ==
  ASSUME NEW s \in Seq(InSoon), NEW u \in Update
  PROVE  /\ Promote(s, u) \in Seq(InSoon)
         /\ \A p \in ToSet(Promote(s, u)) : p \in ToSet(s) \/ p.token = u.token
<1> DEFINE pool == [token |-> u.token, curve |-> u.curve]
<1>1. pool \in InSoon /\ pool.token = u.token
  BY DEF Update, InSoon
<1> HIDE DEF pool
<1> DEFINE a == [i \in DOMAIN s |-> IF s[i].token = u.token THEN pool ELSE s[i]]
           b == Append(s, pool)
<1>2. Promote(s, u) = a \/ Promote(s, u) = b \/ Promote(s, u) = s
  BY DEF Promote, pool
<1>3. a \in Seq(InSoon) /\ \A p \in ToSet(a) : p \in ToSet(s) \/ p.token = u.token
  <2>1. DOMAIN s = 1..Len(s) /\ Len(s) \in Nat /\ \A i \in 1..Len(s) : s[i] \in InSoon
    OBVIOUS
  <2>2. a = [i \in 1..Len(s) |-> IF s[i].token = u.token THEN pool ELSE s[i]]
    BY <2>1
  <2>3. a \in [1..Len(s) -> InSoon] /\ \A i \in 1..Len(s) : a[i] = pool \/ a[i] = s[i]
    BY <1>1, <2>1, <2>2
  <2> HIDE DEF a
  <2>4. a \in Seq(InSoon) /\ Len(a) = Len(s)
    BY <2>1, <2>3
  <2> QED BY <1>1, <2>3, <2>4, Members
<1>4. b \in Seq(InSoon) /\ \A p \in ToSet(b) : p \in ToSet(s) \/ p.token = u.token
  <2>1. /\ b \in Seq(InSoon) /\ Len(b) = Len(s) + 1 /\ Len(s) \in Nat
        /\ \A i \in 1..Len(s) : b[i] = s[i]
        /\ b[Len(s) + 1] = pool
    BY <1>1
  <2> HIDE DEF b
  <2>2. \A i \in 1..Len(s) + 1 : i \in 1..Len(s) \/ i = Len(s) + 1
    BY <2>1
  <2> QED BY <1>1, <2>1, <2>2, Members
<1> QED BY <1>2, <1>3, <1>4

(* One update, by what it does to "New" and to "Soon".                     *)
IsStale(u, t) == u.token = t /\ (u.type = "new" \/ ~u.graduated)
IsNew(u, t) == u.token = t /\ u.type = "new"
IsGraduation(u, t) == u.token = t /\ u.type = "graduated"

LEMMA OneUpdate ==
  ASSUME NEW c \in Column, NEW u \in Update
  PROVE  /\ One(c, u) \in Column
         /\ InNew(One(c, u)) = IF u.type = "new" THEN InNew(c) \cup {u.token}
                               ELSE IF u.type = "graduated" THEN InNew(c) \ {u.token}
                               ELSE InNew(c)
         /\ u.type = "graduated" => InSoonNow(One(c, u)) = InSoonNow(c) \ {u.token}
         /\ u.graduated \/ u.type = "graduated" => InSoonNow(One(c, u)) \subseteq InSoonNow(c)
         /\ InSoonNow(One(c, u)) \subseteq InSoonNow(c) \cup {u.token}
<1>1. /\ c.recent \in Seq(Token) /\ c.soon \in Seq(InSoon) /\ c.bonded \in Seq(Token)
      /\ c = [recent |-> c.recent, soon |-> c.soon, bonded |-> c.bonded]
  BY DEF Column
<1>2. u.token \in Token /\ u.type \in {"new", "update", "graduated"} /\ u.graduated \in BOOLEAN
  BY DEF Update
<1>3. /\ SoonAfter(c.soon, u) \in Seq(InSoon)
      /\ u.graduated => SoonAfter(c.soon, u) = c.soon
      /\ \A p \in ToSet(SoonAfter(c.soon, u)) : p \in ToSet(c.soon) \/ p.token = u.token
  BY <1>1, PromoteSeq DEF SoonAfter
<1>4. /\ {p.token : p \in ToSet(SoonAfter(c.soon, u))} \subseteq InSoonNow(c) \cup {u.token}
      /\ u.graduated => {p.token : p \in ToSet(SoonAfter(c.soon, u))} = InSoonNow(c)
  BY <1>3 DEF InSoonNow
<1>5. CASE u.type = "new"
  <2>1. One(c, u) = [recent |-> Upsert(c.recent, u.token), soon |-> SoonAfter(c.soon, u),
                     bonded |-> c.bonded]
    BY <1>1, <1>5 DEF One
  <2>2. Upsert(c.recent, u.token) \in Seq(Token)
        /\ ToSet(Upsert(c.recent, u.token)) = ToSet(c.recent) \cup {u.token}
    BY <1>1, <1>2, UpsertSeq
  <2>3. One(c, u) \in Column
    BY <1>1, <1>3, <2>1, <2>2 DEF Column
  <2> QED BY <1>4, <1>5, <2>1, <2>2, <2>3 DEF InNew, InSoonNow
<1>6. CASE u.type = "update"
  <2>1. One(c, u) = [recent |-> c.recent, soon |-> SoonAfter(c.soon, u), bonded |-> c.bonded]
    BY <1>1, <1>6 DEF One
  <2>2. One(c, u) \in Column
    BY <1>1, <1>3, <2>1 DEF Column
  <2> QED BY <1>4, <1>6, <2>1, <2>2 DEF InNew, InSoonNow
<1>7. CASE u.type = "graduated"
  <2> DEFINE others == {p \in InSoon : p.token # u.token}
             recent == Kept(c.recent, Token \ {u.token})
             soon == Kept(c.soon, others)
  <2>1. One(c, u) = [recent |-> recent, soon |-> soon, bonded |-> Upsert(c.bonded, u.token)]
    BY <1>7 DEF One
  <2>2. recent \in Seq(Token) /\ ToSet(recent) = ToSet(c.recent) \cap (Token \ {u.token})
    BY <1>1, KeptSeq
  <2>3. soon \in Seq(InSoon) /\ ToSet(soon) = ToSet(c.soon) \cap others
    BY <1>1, KeptSeq
  <2>4. Upsert(c.bonded, u.token) \in Seq(Token)
    BY <1>1, <1>2, UpsertSeq
  <2>5. ToSet(c.recent) \subseteq Token /\ ToSet(c.soon) \subseteq InSoon
    BY <1>1, Members
  <2> HIDE DEF recent, soon
  <2>6. One(c, u) \in Column
    BY <2>1, <2>2, <2>3, <2>4 DEF Column
  <2>7. InNew(One(c, u)) = InNew(c) \ {u.token}
    BY <2>1, <2>2, <2>5 DEF InNew
  <2>8. InSoonNow(One(c, u)) = {p.token : p \in {q \in ToSet(c.soon) : q.token # u.token}}
    <3>1. ToSet(soon) = {q \in ToSet(c.soon) : q.token # u.token}
      BY <2>3, <2>5
    <3> QED BY <2>1, <3>1 DEF InSoonNow
  <2>9. InSoonNow(One(c, u)) = InSoonNow(c) \ {u.token}
    BY <2>8 DEF InSoonNow
  <2> QED BY <1>7, <2>6, <2>7, <2>9
<1> QED BY <1>2, <1>5, <1>6, <1>7

(* Sorted and cut: nothing is added, and of the new tokens only older ones *)
(* than all that stay are cut off.                                         *)
LEMMA TidyColumns ==
  ASSUME NEW c \in Column, NEW order \in [Token -> 0..MaxToken]
  PROVE  LET d == Tidy(c, order) IN
           /\ d \in Column
           /\ Len(d.recent) <= Limit /\ Len(d.soon) <= Limit /\ Len(d.bonded) <= Limit
           /\ InNew(d) \subseteq InNew(c) /\ InSoonNow(d) \subseteq InSoonNow(c)
           /\ \A t \in InNew(c) : t \in InNew(d) \/ \A u \in InNew(d) : u > t
<1> DEFINE byNumber == [t \in Token |-> t]
           byCurve == [p \in InSoon |-> p.curve]
           recent == SortDesc(c.recent, byNumber)
           soon == SortDesc(c.soon, byCurve)
           bonded == SortDesc(c.bonded, order)
           d == Tidy(c, order)
<1>1. c.recent \in Seq(Token) /\ c.soon \in Seq(InSoon) /\ c.bonded \in Seq(Token)
  BY DEF Column
<1>2. MaxToken \in Nat /\ MaxCurve \in Nat
  BY ColumnAssumption
<1>3. \A t \in Token : byNumber[t] = t /\ t \in Int /\ order[t] \in Int
  BY <1>2 DEF Token
<1>4. \A p \in InSoon : byCurve[p] \in Int
  BY <1>2 DEF InSoon
<1> HIDE DEF byNumber, byCurve
<1>5. /\ recent \in Seq(Token) /\ ToSet(recent) = ToSet(c.recent)
      /\ \A l, m \in 1..Len(recent) : l < m => byNumber[recent[l]] >= byNumber[recent[m]]
  BY <1>1, <1>3, SortedSeq
<1>6. soon \in Seq(InSoon) /\ ToSet(soon) = ToSet(c.soon)
  BY <1>1, <1>4, SortedSeq
<1>7. bonded \in Seq(Token) /\ ToSet(bonded) = ToSet(c.bonded)
  BY <1>1, <1>3, SortedSeq
<1>8. d = [recent |-> Cut(recent), soon |-> Cut(soon), bonded |-> Cut(bonded)]
  BY DEF Tidy, byNumber, byCurve
<1> HIDE DEF recent, soon, bonded, d
<1>9. d \in Column /\ Len(d.recent) <= Limit /\ Len(d.soon) <= Limit /\ Len(d.bonded) <= Limit
  BY <1>5, <1>6, <1>7, <1>8, CutSeq DEF Column
<1>10. InNew(d) \subseteq InNew(c)
  BY <1>5, <1>8, CutSeq DEF InNew
<1>11. InSoonNow(d) \subseteq InSoonNow(c)
  BY <1>6, <1>8, CutSeq DEF InSoonNow
<1>12. ASSUME NEW t \in InNew(c), t \notin InNew(d), NEW u \in InNew(d)
       PROVE  u > t
  <2>1. PICK i \in 1..Len(recent) : recent[i] = t
    BY <1>5, Members DEF InNew
  <2>2. PICK j \in 1..Len(Cut(recent)) : Cut(recent)[j] = u
    <3>1. Cut(recent) \in Seq(Token) /\ u \in ToSet(Cut(recent))
      BY <1>5, <1>8, CutSeq DEF InNew
    <3> QED BY <3>1, Members
  <2>3. /\ Len(Cut(recent)) \in Nat /\ Len(recent) \in Nat /\ Len(Cut(recent)) <= Len(recent)
        /\ \A h \in 1..Len(Cut(recent)) : Cut(recent)[h] = recent[h]
    BY <1>5, CutSeq
  <2>4. ~(i <= Len(Cut(recent)))
    <3>1. SUFFICES ASSUME i <= Len(Cut(recent))
                   PROVE  FALSE
      OBVIOUS
    <3>2. i \in 1..Len(Cut(recent)) /\ Cut(recent)[i] = t
      BY <2>1, <2>3, <3>1
    <3>3. t \in ToSet(Cut(recent))
      BY <1>5, <3>2, CutSeq, Members
    <3> QED BY <1>8, <1>12, <3>3 DEF InNew
  <2>5. j < i /\ j \in 1..Len(recent) /\ recent[j] = u
    BY <2>1, <2>2, <2>3, <2>4
  <2>6. t \in Token /\ u \in Token
    BY <1>5, <2>1, <2>5
  <2>7. u >= t
    BY <1>3, <1>5, <2>1, <2>5, <2>6
  <2>8. u # t
    BY <1>12
  <2> QED BY <1>3, <2>6, <2>7, <2>8
<1> QED BY <1>9, <1>10, <1>11, <1>12 DEF d

(* The loop over a batch.                                                  *)
LEMMA PatchedSteps ==
  ASSUME NEW c \in Column, NEW batch \in Seq(Update)
  PROVE  /\ Patched(c, batch)[0] = c
         /\ \A n \in 1..Len(batch) :
               Patched(c, batch)[n] = One(Patched(c, batch)[n - 1], batch[n])
         /\ \A n \in 0..Len(batch) : Patched(c, batch)[n] \in Column
<1> DEFINE N == Len(batch)
           Loop(f, n) == f = [m \in 0..n |-> IF m = 0 THEN c ELSE One(f[m - 1], batch[m])]
           Done == {n \in 0..N : \E f : Loop(f, n)}
<1>1. N \in Nat
  OBVIOUS
<1> HIDE DEF N
<1>2. 0 \in Done
  <2> DEFINE g == [m \in 0..0 |-> c]
  <2>1. Loop(g, 0)
    OBVIOUS
  <2>2. 0 \in 0..N
    BY <1>1
  <2> HIDE DEF Loop, g
  <2> QED BY <2>1, <2>2
<1>3. ASSUME NEW n \in 0..(N - 1), n \in Done
      PROVE  n + 1 \in Done
  <2>1. PICK f : Loop(f, n)
    BY <1>3
  <2> DEFINE g == [m \in 0..(n + 1) |-> IF m = n + 1 THEN One(f[n], batch[n + 1]) ELSE f[m]]
  <2>2. \A m \in 0..(n + 1) : g[m] = IF m = 0 THEN c ELSE One(g[m - 1], batch[m])
    <3> SUFFICES ASSUME NEW m \in 0..(n + 1)
                 PROVE  g[m] = IF m = 0 THEN c ELSE One(g[m - 1], batch[m])
      OBVIOUS
    <3>1. CASE m = n + 1
      <4>1. m # 0 /\ m - 1 = n /\ n \in 0..(n + 1) /\ n # n + 1
        BY <1>1, <3>1
      <4>2. g[m] = One(f[n], batch[m]) /\ g[n] = f[n]
        BY <3>1, <4>1
      <4> QED BY <4>1, <4>2
    <3>2. CASE m # n + 1
      <4>1. m \in 0..n /\ g[m] = f[m]
        BY <1>1, <3>2
      <4>2. f[m] = IF m = 0 THEN c ELSE One(f[m - 1], batch[m])
        BY <2>1, <4>1
      <4>3. m # 0 => m - 1 \in 0..(n + 1) /\ m - 1 # n + 1
        BY <1>1, <4>1
      <4>4. m # 0 => g[m - 1] = f[m - 1]
        BY <4>3
      <4> QED BY <4>1, <4>2, <4>4
    <3> QED BY <3>1, <3>2
  <2>3. g = [m \in 0..(n + 1) |-> g[m]]
    OBVIOUS
  <2> HIDE DEF g
  <2>4. Loop(g, n + 1)
    BY <2>2, <2>3
  <2> QED BY <1>1, <2>4
<1>4. N \in Done
  <2> HIDE DEF Done
  <2>1. 0..N \subseteq Done
    BY <1>1, <1>2, <1>3, UpTo
  <2> QED BY <1>1, <2>1
<1> DEFINE p == Patched(c, batch)
<1>5. Loop(p, N)
  <2>1. p = CHOOSE f : Loop(f, N)
    BY DEF Patched, N
  <2> QED BY <1>4, <2>1
<1> HIDE DEF p
<1>6. p[0] = c /\ \A n \in 1..N : p[n] = One(p[n - 1], batch[n])
  <2>1. \A n \in 0..N : p[n] = IF n = 0 THEN c ELSE One(p[n - 1], batch[n])
    BY <1>5
  <2> QED BY <1>1, <2>1
<1> DEFINE Typed == {n \in 0..N : p[n] \in Column}
<1>7. 0 \in Typed
  BY <1>1, <1>6
<1>8. ASSUME NEW n \in 0..(N - 1), n \in Typed
      PROVE  n + 1 \in Typed
  <2>1. n + 1 \in 1..N /\ n + 1 \in 0..N /\ (n + 1) - 1 = n
    BY <1>1
  <2>2. batch[n + 1] \in Update
    BY <2>1 DEF N
  <2> QED BY <1>6, <1>8, <2>1, <2>2, OneUpdate
<1>9. 0..N \subseteq Typed
  <2> HIDE DEF Typed
  <2> QED BY <1>1, <1>7, <1>8, UpTo
<1> QED BY <1>6, <1>9 DEF p, N

-----------------------------------------------------------------------------
(* What the columns show of what has happened.                             *)

GoneFrom(c, t) == t \notin InNew(c) /\ t \notin InSoonNow(c)
InOrder(c, t) == t \in InNew(c) \/ \A u \in InNew(c) : u > t
Short(c) == \A x \in {"recent", "soon", "bonded"} : Len(c[x]) <= Limit

DataType ==
  /\ listed \in 0..MaxToken
  /\ curve \in [Token -> 0..MaxCurve] /\ since \in [Token -> 0..MaxToken]
  /\ queue \in Seq(Update) /\ Len(queue) <= MaxQueue
  /\ columns \in Column /\ Short(columns)
  /\ loaded \in BOOLEAN
  /\ fetch = NoFetch \/ fetch \in Answer
  /\ torn \subseteq News /\ shared \subseteq Token

(* The updates under way: nothing is under way on a socket that is not     *)
(* asked for new tokens, so whatever was sent of a token before it         *)
(* graduated is followed by its graduation, and of two new tokens the      *)
(* older one comes first.                                                  *)
QueueOK ==
  /\ Recent \notin server => queue = <<>>
  /\ \A i \in DOMAIN queue :
       /\ queue[i].token <= listed
       /\ queue[i].type = "graduated" => queue[i].token \in Graduated
       /\ \A t \in Graduated : IsStale(queue[i], t) =>
            \E j \in DOMAIN queue : j > i /\ IsGraduation(queue[j], t)
       /\ \A t \in 1..listed : queue[i].type = "new" /\ t > queue[i].token =>
            \E j \in DOMAIN queue : j > i /\ IsNew(queue[j], t)

(* An answer under way is right about all that it knows of.                *)
FetchOK == fetch # NoFetch =>
  /\ fetch.known \subseteq Happened
  /\ \A t \in Graduated : <<"graduated", t>> \in fetch.known => GoneFrom(fetch.columns, t)
  /\ \A t \in 1..listed \ Graduated : <<"new", t>> \in fetch.known => InOrder(fetch.columns, t)
  /\ Short(fetch.columns)

ColumnsOK ==
  /\ \A t \in Graduated : Shows(<<"graduated", t>>) => GoneFrom(columns, t)
  /\ \A t \in 1..listed \ Graduated : Shows(<<"new", t>>) => InOrder(columns, t)

MarketOK == Graduated \subseteq 1..listed

PageInv == ListenInv /\ DataType /\ MarketOK /\ QueueOK /\ FetchOK /\ ColumnsOK

-----------------------------------------------------------------------------
LEMMA Numbers ==
  /\ MaxToken \in Nat /\ MaxCurve \in Nat /\ Limit \in Nat
  /\ MaxToken > 0 /\ MaxCurve > 0
  /\ Token = 1..MaxToken /\ IsFiniteSet(Token) /\ Cardinality(Token) = MaxToken
<1>1. MaxToken \in Nat /\ MaxCurve \in Nat /\ Limit \in Nat /\ MaxToken > 0 /\ MaxCurve > 0
  BY ColumnAssumption
<1>2. IsFiniteSet(1..MaxToken) /\ Cardinality(1..MaxToken) = MaxToken
  BY <1>1, FS_Interval
<1> QED BY <1>1, <1>2 DEF Token

LEMMA UnderWay ==
  ASSUME queue \in Seq(Update)
  PROVE  /\ DOMAIN queue = 1..Len(queue) /\ Len(queue) \in Nat
         /\ \A i \in DOMAIN queue : queue[i] \in Update
         /\ \A t \in Token : <<"new", t>> \in Awaited <=> \E i \in DOMAIN queue : IsNew(queue[i], t)
         /\ \A t \in Token : <<"graduated", t>> \in Awaited
                             <=> \E i \in DOMAIN queue : IsGraduation(queue[i], t)
         /\ Awaited \subseteq News
<1>1. DOMAIN queue = 1..Len(queue) /\ Len(queue) \in Nat /\ \A i \in DOMAIN queue : queue[i] \in Update
  OBVIOUS
<1>2. ASSUME NEW type \in {"new", "graduated"}, NEW t \in Token
      PROVE  <<type, t>> \in Awaited <=> \E i \in DOMAIN queue : queue[i].type = type /\ queue[i].token = t
  BY DEF Awaited, News
<1> QED BY <1>1, <1>2 DEF IsNew, IsGraduation, Awaited

(* Steps that change neither the market nor the columns.                   *)
LEMMA ColumnsStay ==
  ASSUME ColumnsOK, UNCHANGED <<market, columns, loaded>>,
         torn \cup Awaited \subseteq torn' \cup Awaited'
  PROVE  ColumnsOK'
  BY DEF ColumnsOK, Shows, market, Graduated

LEMMA FetchStay ==
  ASSUME FetchOK, UNCHANGED <<market, fetch>>
  PROVE  FetchOK'
  BY DEF FetchOK, Happened, market, Graduated

LEMMA QueueStays ==
  ASSUME QueueOK, UNCHANGED <<market, queue>>, Recent \notin server' => Recent \notin server \/ queue = <<>>
  PROVE  QueueOK'
  BY DEF QueueOK, market, Graduated

LEMMA QueueEmptied ==
  ASSUME queue' = <<>>
  PROVE  QueueOK' /\ queue' \in Seq(Update) /\ Len(queue') = 0 /\ Awaited' = {}
  BY DEF QueueOK, Awaited

-----------------------------------------------------------------------------
(* The market. *)

(* What the stream is told, or the columns miss.                           *)
Event(type, t) == [type |-> type, token |-> t, curve |-> curve'[t], graduated |-> since'[t] > 0]

LEMMA Told ==
  ASSUME PageInv, Len(queue) < MaxQueue, UNCHANGED stream,
         NEW topic, NEW type \in {"new", "update", "graduated"}, NEW t \in Token,
         curve' \in [Token -> 0..MaxCurve], since' \in [Token -> 0..MaxToken],
         Tell(topic, type, t)
  PROVE  /\ queue' \in Seq(Update) /\ Len(queue') <= MaxQueue /\ torn' \subseteq News
         /\ torn \cup Awaited \subseteq torn' \cup Awaited'
         /\ type # "update" => <<type, t>> \in torn' \cup Awaited'
         /\ Recent \notin server' => queue' = <<>>
         /\ \/ queue' = queue /\ (topic = Recent => queue = <<>>)
            \/ /\ Len(queue') = Len(queue) + 1
               /\ \A i \in DOMAIN queue : queue'[i] = queue[i]
               /\ queue'[Len(queue) + 1] = Event(type, t)
<1>1. /\ queue \in Seq(Update) /\ Len(queue) <= MaxQueue /\ torn \subseteq News
      /\ Recent \notin server => queue = <<>>
      /\ server # {} => Recent \in server
  <2>1. server # {} => Recent \in server
    BY DEF PageInv, ListenInv, SocketOK, Allowed, Needed, StreamType
  <2> QED BY <2>1 DEF PageInv, DataType, QueueOK
<1>2. server' = server
  BY DEF stream
<1>3. Event(type, t) \in Update
  BY DEF Event, Update
<1>4. CASE topic \in server
  <2>1. queue' = Append(queue, Event(type, t)) /\ torn' = torn
    BY <1>4 DEF Tell, Event
  <2>2. /\ queue' \in Seq(Update) /\ Len(queue') = Len(queue) + 1 /\ Len(queue) \in Nat
        /\ \A i \in DOMAIN queue : queue'[i] = queue[i] /\ i \in DOMAIN queue'
        /\ queue'[Len(queue) + 1] = Event(type, t) /\ Len(queue) + 1 \in DOMAIN queue'
    BY <1>1, <1>3, <2>1
  <2>3. Awaited \subseteq Awaited'
    BY <2>2 DEF Awaited
  <2>4. type # "update" => <<type, t>> \in Awaited'
    <3>1. Event(type, t).type = type /\ Event(type, t).token = t
      BY DEF Event
    <3>2. type # "update" => <<type, t>> \in News
      BY DEF News
    <3> QED BY <2>2, <3>1, <3>2 DEF Awaited
  <2>5. Len(queue') <= MaxQueue
    BY <1>1, <2>2, QueueAssumption
  <2> QED BY <1>1, <1>2, <1>4, <2>1, <2>2, <2>3, <2>4, <2>5
<1>5. CASE topic \notin server
  <2>1. queue' = queue /\ torn' = torn \cup (News \cap {<<type, t>>})
    BY <1>5 DEF Tell
  <2>2. Awaited' = Awaited
    BY <2>1 DEF Awaited
  <2>3. type # "update" => <<type, t>> \in torn'
    BY <2>1 DEF News
  <2> QED BY <1>1, <1>2, <1>5, <2>1, <2>2, <2>3
<1> QED BY <1>4, <1>5

(* An update that is added at the end is one that no rule of the queue     *)
(* asks anything to follow, and the one that the new rules ask for.        *)
LEMMA QueueGrows ==
  ASSUME QueueOK, queue \in Seq(Update), queue' \in Seq(Update),
         listed \in Nat, listed' \in Nat, listed <= listed', Graduated \subseteq Graduated',
         NEW u,
         Len(queue') = Len(queue) + 1, \A i \in DOMAIN queue : queue'[i] = queue[i],
         queue'[Len(queue) + 1] = u, Recent \notin server' => queue' = <<>>,
         u.token <= listed', u.type = "graduated" => u.token \in Graduated',
         \A t \in Graduated' : ~IsStale(u, t),
         \A t \in Graduated' \ Graduated : IsGraduation(u, t),
         u.type = "new" => \A t \in 1..listed' : ~(t > u.token),
         \A t \in (1..listed') \ (1..listed) : IsNew(u, t)
  PROVE  QueueOK'
<1> DEFINE last == Len(queue) + 1
<1>1. /\ DOMAIN queue = 1..Len(queue) /\ Len(queue) \in Nat /\ DOMAIN queue' = 1..last
      /\ last \in DOMAIN queue' /\ \A i \in DOMAIN queue : i < last /\ i \in DOMAIN queue'
      /\ \A i \in DOMAIN queue' : i \in DOMAIN queue \/ i = last
  OBVIOUS
<1>2. \A i \in DOMAIN queue : queue[i].token \in Nat
  <2>1. \A v \in Update : v.token \in Nat
    BY Numbers DEF Update
  <2>2. \A i \in DOMAIN queue : queue[i] \in Update
    OBVIOUS
  <2> QED BY <2>1, <2>2
<1> HIDE DEF last
<1>3. ASSUME NEW i \in DOMAIN queue
      PROVE  /\ queue'[i].token <= listed'
             /\ queue'[i].type = "graduated" => queue'[i].token \in Graduated'
             /\ \A t \in Graduated' : IsStale(queue'[i], t) =>
                  \E j \in DOMAIN queue' : j > i /\ IsGraduation(queue'[j], t)
             /\ \A t \in 1..listed' : queue'[i].type = "new" /\ t > queue'[i].token =>
                  \E j \in DOMAIN queue' : j > i /\ IsNew(queue'[j], t)
  <2>1. queue'[i] = queue[i] /\ last > i /\ queue'[last] = u /\ last \in DOMAIN queue'
    BY <1>1 DEF last
  <2>2. /\ queue[i].token <= listed
        /\ queue[i].type = "graduated" => queue[i].token \in Graduated
        /\ \A t \in Graduated : IsStale(queue[i], t) =>
             \E j \in DOMAIN queue : j > i /\ IsGraduation(queue[j], t)
        /\ \A t \in 1..listed : queue[i].type = "new" /\ t > queue[i].token =>
             \E j \in DOMAIN queue : j > i /\ IsNew(queue[j], t)
    BY DEF QueueOK
  <2>3. queue[i].token <= listed'
    BY <1>2, <2>2
  <2>4. ASSUME NEW t \in Graduated', IsStale(queue[i], t)
        PROVE  \E j \in DOMAIN queue' : j > i /\ IsGraduation(queue'[j], t)
    <3>1. CASE t \in Graduated
      <4>1. PICK j \in DOMAIN queue : j > i /\ IsGraduation(queue[j], t)
        BY <2>2, <2>4, <3>1
      <4> QED BY <1>1, <4>1
    <3>2. CASE t \notin Graduated
      BY <2>1, <3>2
    <3> QED BY <3>1, <3>2
  <2>5. ASSUME NEW t \in 1..listed', queue[i].type = "new", t > queue[i].token
        PROVE  \E j \in DOMAIN queue' : j > i /\ IsNew(queue'[j], t)
    <3>1. CASE t \in 1..listed
      <4>1. PICK j \in DOMAIN queue : j > i /\ IsNew(queue[j], t)
        BY <2>2, <2>5, <3>1
      <4> QED BY <1>1, <4>1
    <3>2. CASE t \notin 1..listed
      BY <2>1, <3>2
    <3> QED BY <3>1, <3>2
  <2> QED BY <2>1, <2>2, <2>3, <2>4, <2>5
<1>4. ASSUME NEW i \in DOMAIN queue', i = last
      PROVE  /\ queue'[i].token <= listed'
             /\ queue'[i].type = "graduated" => queue'[i].token \in Graduated'
             /\ \A t \in Graduated' : ~IsStale(queue'[i], t)
             /\ queue'[i].type = "new" => \A t \in 1..listed' : ~(t > queue'[i].token)
  BY <1>4 DEF last
<1> QED BY <1>1, <1>3, <1>4 DEF QueueOK

LEMMA ListKeeps ==
  ASSUME PageInv, Len(queue) < MaxQueue, List, UNCHANGED <<stream, columns, loaded, fetch, shared>>
  PROVE  PageInv'
<1> DEFINE t == listed + 1
<1>1. /\ DataType /\ MarketOK /\ QueueOK /\ FetchOK /\ ColumnsOK /\ ListenInv
      /\ listed \in Nat /\ Graduated \subseteq 1..listed
  BY Numbers DEF PageInv, DataType, MarketOK
<1>2. /\ listed < MaxToken /\ listed' = t /\ UNCHANGED <<curve, since>> /\ Graduated' = Graduated
      /\ Tell(Recent, "new", t)
  BY DEF List, Graduated
<1>3. t \in Token /\ listed' \in 0..MaxToken /\ t \notin 1..listed /\ t \in Nat
  BY <1>1, <1>2, Numbers
<1>4. ~(since[t] > 0)
  BY <1>1, <1>3 DEF Graduated
<1> HIDE DEF t
<1>5. /\ queue' \in Seq(Update) /\ Len(queue') <= MaxQueue /\ torn' \subseteq News
      /\ torn \cup Awaited \subseteq torn' \cup Awaited'
      /\ <<"new", t>> \in torn' \cup Awaited'
      /\ Recent \notin server' => queue' = <<>>
      /\ \/ queue' = queue /\ queue = <<>>
         \/ /\ Len(queue') = Len(queue) + 1
            /\ \A i \in DOMAIN queue : queue'[i] = queue[i]
            /\ queue'[Len(queue) + 1] = Event("new", t)
  BY <1>1, <1>2, <1>3, Told DEF DataType
<1>6. ListenInv'
  BY <1>1, ElsewhereKeeps
<1>7. DataType' /\ MarketOK'
  <2>1. \A i \in 1..listed : i \in 1..t
    BY <1>1 DEF t
  <2> QED BY <1>1, <1>2, <1>3, <1>5, <2>1 DEF DataType, MarketOK, Short
<1>8. QueueOK'
  <2>1. CASE queue' = queue /\ queue = <<>>
    BY <2>1, QueueEmptied
  <2>2. CASE Len(queue') # Len(queue) \/ queue # <<>>
    <3> DEFINE u == Event("new", t)
    <3>1. u.token = t /\ u.type = "new"
      BY DEF Event
    <3>2. \A x \in (1..listed') \ (1..listed) : x = t
      BY <1>1, <1>2 DEF t
    <3>3. \A x \in Graduated' : ~IsStale(u, x)
      BY <1>1, <1>2, <1>3, <3>1 DEF IsStale
    <3>4. \A x \in (1..listed') \ (1..listed) : IsNew(u, x)
      BY <3>1, <3>2 DEF IsNew
    <3>5. listed' \in Nat /\ listed <= listed' /\ u.token <= listed' /\ \A x \in 1..listed' : ~(x > u.token)
      BY <1>1, <1>2, <1>3, <3>1 DEF t
    <3>6. queue \in Seq(Update)
      BY <1>1 DEF DataType
    <3>7. /\ Len(queue') = Len(queue) + 1 /\ \A i \in DOMAIN queue : queue'[i] = queue[i]
          /\ queue'[Len(queue) + 1] = u
      BY <1>5, <2>2
    <3> HIDE DEF u
    <3> QED BY <1>1, <1>2, <1>5, <3>1, <3>3, <3>4, <3>5, <3>6, <3>7, QueueGrows
  <2> QED BY <2>1, <2>2
<1>9. \A x \in 1..listed' : x \in 1..listed \/ x = t
  BY <1>1, <1>2 DEF t
<1>10. FetchOK'
  <2>1. Happened \subseteq Happened' /\ <<"new", t>> \notin Happened
    <3>1. \A x \in 1..listed : x \in 1..listed'
      BY <1>1, <1>2 DEF t
    <3> QED BY <1>2, <1>3, <3>1 DEF Happened
  <2> QED BY <1>1, <1>2, <1>9, <2>1 DEF FetchOK
<1>11. ColumnsOK'
  <2>1. \A n : Shows(n)' => Shows(n) /\ n # <<"new", t>>
    BY <1>5 DEF Shows
  <2> QED BY <1>1, <1>2, <1>9, <2>1 DEF ColumnsOK
<1> QED BY <1>6, <1>7, <1>8, <1>10, <1>11 DEF PageInv

LEMMA TradeKeeps ==
  ASSUME PageInv, Len(queue) < MaxQueue, NEW t \in Token, Trade(t),
         UNCHANGED <<stream, columns, loaded, fetch, shared>>
  PROVE  PageInv'
<1>1. /\ DataType /\ MarketOK /\ QueueOK /\ FetchOK /\ ColumnsOK /\ ListenInv
      /\ listed \in Nat /\ queue \in Seq(Update)
  BY Numbers DEF PageInv, DataType
<1>2. /\ t <= listed /\ UNCHANGED <<listed, since>> /\ Graduated' = Graduated /\ Happened' = Happened
      /\ Tell(t, "update", t)
  BY DEF Trade, Graduated, Happened
<1>3. curve' \in [Token -> 0..MaxCurve]
  <2>1. PICK c \in IF t \in Graduated THEN {MaxCurve} ELSE 1..MaxCurve - 1 :
               curve' = [curve EXCEPT ![t] = c]
    BY DEF Trade
  <2>2. c \in 0..MaxCurve
    BY <2>1, Numbers
  <2> QED BY <1>1, <2>1, <2>2 DEF DataType
<1>4. since' \in [Token -> 0..MaxToken]
  BY <1>1, <1>2 DEF DataType
<1>5. /\ queue' \in Seq(Update) /\ Len(queue') <= MaxQueue /\ torn' \subseteq News
      /\ torn \cup Awaited \subseteq torn' \cup Awaited'
      /\ Recent \notin server' => queue' = <<>>
      /\ \/ queue' = queue
         \/ /\ Len(queue') = Len(queue) + 1
            /\ \A i \in DOMAIN queue : queue'[i] = queue[i]
            /\ queue'[Len(queue) + 1] = Event("update", t)
  BY <1>2, <1>3, <1>4, Told
<1>6. ListenInv'
  BY <1>1, ElsewhereKeeps
<1>7. DataType' /\ MarketOK'
  BY <1>1, <1>2, <1>3, <1>4, <1>5 DEF DataType, MarketOK, Short
<1>8. QueueOK'
  <2>1. CASE queue' = queue
    BY <1>1, <1>2, <1>5, <2>1 DEF QueueOK
  <2>2. CASE queue' # queue
    <3> DEFINE u == Event("update", t)
    <3>1. u.token = t /\ u.type = "update" /\ u.graduated = (since'[t] > 0)
      BY DEF Event
    <3>2. \A x \in Graduated' : ~IsStale(u, x)
      BY <1>2, <3>1 DEF IsStale, Graduated
    <3>3. u.token <= listed' /\ listed <= listed' /\ listed' \in Nat
      BY <1>1, <1>2, <3>1
    <3>4. /\ Len(queue') = Len(queue) + 1 /\ \A i \in DOMAIN queue : queue'[i] = queue[i]
          /\ queue'[Len(queue) + 1] = u
      BY <1>5, <2>2
    <3> HIDE DEF u
    <3> QED BY <1>1, <1>2, <1>5, <3>1, <3>2, <3>3, <3>4, QueueGrows
  <2> QED BY <2>1, <2>2
<1>9. FetchOK'
  BY <1>1, <1>2 DEF FetchOK
<1>10. ColumnsOK'
  BY <1>1, <1>2, <1>5 DEF ColumnsOK, Shows
<1> QED BY <1>6, <1>7, <1>8, <1>9, <1>10 DEF PageInv

LEMMA GraduateKeeps ==
  ASSUME PageInv, Len(queue) < MaxQueue, NEW t \in Token, Graduate(t),
         UNCHANGED <<stream, columns, loaded, fetch, shared>>
  PROVE  PageInv'
<1>1. /\ DataType /\ MarketOK /\ QueueOK /\ FetchOK /\ ColumnsOK /\ ListenInv
      /\ listed \in Nat /\ queue \in Seq(Update)
      /\ curve \in [Token -> 0..MaxCurve] /\ since \in [Token -> 0..MaxToken]
  BY Numbers DEF PageInv, DataType
<1>2. /\ t <= listed /\ t \notin Graduated /\ listed' = listed /\ t \in 1..listed
      /\ since' = [since EXCEPT ![t] = Cardinality(Graduated) + 1]
      /\ curve' = [curve EXCEPT ![t] = MaxCurve]
      /\ Tell(Recent, "graduated", t)
  BY <1>1, Numbers DEF Graduate
<1>3. Cardinality(Graduated) + 1 \in 1..MaxToken
  <2>1. Graduated \in SUBSET (Token \ {t})
    BY <1>2 DEF Graduated
  <2>2. IsFiniteSet(Token \ {t}) /\ Cardinality(Token \ {t}) = MaxToken - 1
    BY Numbers, FS_RemoveElement
  <2>3. IsFiniteSet(Graduated) /\ Cardinality(Graduated) <= MaxToken - 1
    BY <2>1, <2>2, FS_Subset
  <2>4. Cardinality(Graduated) \in Nat
    BY <2>3, FS_CardinalityType
  <2> QED BY <2>3, <2>4, Numbers
<1>4. /\ curve' \in [Token -> 0..MaxCurve] /\ since' \in [Token -> 0..MaxToken]
      /\ since'[t] > 0 /\ \A x \in Token \ {t} : since'[x] = since[x]
  <2>1. Cardinality(Graduated) + 1 \in 0..MaxToken /\ MaxCurve \in 0..MaxCurve
    BY <1>3, Numbers
  <2> QED BY <1>1, <1>2, <1>3, <2>1
<1>5. Graduated' = Graduated \cup {t}
  BY <1>4 DEF Graduated
<1>6. /\ queue' \in Seq(Update) /\ Len(queue') <= MaxQueue /\ torn' \subseteq News
      /\ torn \cup Awaited \subseteq torn' \cup Awaited'
      /\ <<"graduated", t>> \in torn' \cup Awaited'
      /\ Recent \notin server' => queue' = <<>>
      /\ \/ queue' = queue /\ queue = <<>>
         \/ /\ Len(queue') = Len(queue) + 1
            /\ \A i \in DOMAIN queue : queue'[i] = queue[i]
            /\ queue'[Len(queue) + 1] = Event("graduated", t)
  BY <1>2, <1>4, Told
<1>7. ListenInv'
  BY <1>1, ElsewhereKeeps
<1>8. DataType' /\ MarketOK'
  <2>1. DataType'
    BY <1>1, <1>2, <1>4, <1>6 DEF DataType, Short
  <2>2. MarketOK'
    BY <1>1, <1>2, <1>5 DEF MarketOK
  <2> QED BY <2>1, <2>2
<1>9. QueueOK'
  <2>1. CASE queue' = queue /\ queue = <<>>
    BY <2>1, QueueEmptied
  <2>2. CASE Len(queue') # Len(queue) \/ queue # <<>>
    <3> DEFINE u == Event("graduated", t)
    <3>1. u.token = t /\ u.type = "graduated" /\ u.graduated = (since'[t] > 0)
      BY DEF Event
    <3>2. \A x \in Graduated' : ~IsStale(u, x)
      BY <1>4, <3>1 DEF IsStale
    <3>3. \A x \in Graduated' \ Graduated : IsGraduation(u, x)
      BY <1>5, <3>1 DEF IsGraduation
    <3>4. /\ u.token <= listed' /\ listed <= listed' /\ listed' \in Nat
          /\ u.type = "graduated" => u.token \in Graduated'
      BY <1>1, <1>2, <1>5, <3>1
    <3>5. /\ Len(queue') = Len(queue) + 1 /\ \A i \in DOMAIN queue : queue'[i] = queue[i]
          /\ queue'[Len(queue) + 1] = u
      BY <1>6, <2>2
    <3> HIDE DEF u
    <3> QED BY <1>1, <1>2, <1>5, <1>6, <3>1, <3>2, <3>3, <3>4, <3>5, QueueGrows
  <2> QED BY <2>1, <2>2
<1>10. FetchOK'
  <2>1. Happened \subseteq Happened' /\ <<"graduated", t>> \notin Happened
    BY <1>2, <1>5 DEF Happened
  <2> QED BY <1>1, <1>2, <1>5, <2>1 DEF FetchOK
<1>11. ColumnsOK'
  <2>1. \A n : Shows(n)' => Shows(n) /\ n # <<"graduated", t>>
    BY <1>6 DEF Shows
  <2> QED BY <1>1, <1>2, <1>5, <2>1 DEF ColumnsOK
<1> QED BY <1>7, <1>8, <1>9, <1>10, <1>11 DEF PageInv

-----------------------------------------------------------------------------
(* A message. *)

(* The first n updates, and what is still under way after them.            *)
LEMMA Batch ==
  ASSUME queue \in Seq(Update), NEW n \in 1..Len(queue)
  PROVE  /\ SubSeq(queue, 1, n) \in Seq(Update) /\ Len(SubSeq(queue, 1, n)) = n
         /\ \A i \in 1..n : SubSeq(queue, 1, n)[i] = queue[i] /\ queue[i] \in Update
         /\ SubSeq(queue, n + 1, Len(queue)) \in Seq(Update)
         /\ Len(SubSeq(queue, n + 1, Len(queue))) = Len(queue) - n
         /\ \A i \in 1..(Len(queue) - n) : SubSeq(queue, n + 1, Len(queue))[i] = queue[i + n]
  OBVIOUS

(* A token that graduated is gone from "New" and "Soon" once the last of   *)
(* its updates in the batch is applied: after its graduation the queue     *)
(* holds nothing that would bring it back.                                 *)
LEMMA GoneAfter ==
  ASSUME QueueOK, queue \in Seq(Update), columns \in Column,
         NEW n \in 1..Len(queue), NEW t \in Graduated,
         \A j \in DOMAIN queue : IsGraduation(queue[j], t) => j <= n,
         \/ GoneFrom(columns, t)
         \/ \E j \in DOMAIN queue : IsGraduation(queue[j], t)
  PROVE  GoneFrom(Patched(columns, SubSeq(queue, 1, n))[n], t)
<1> DEFINE batch == SubSeq(queue, 1, n)
           P == Patched(columns, batch)
           Left(i) == \E j \in DOMAIN queue : j > i /\ IsGraduation(queue[j], t)
           S == {i \in 0..n : GoneFrom(P[i], t) \/ Left(i)}
<1>1. /\ batch \in Seq(Update) /\ Len(batch) = n /\ n \in Nat
      /\ \A i \in 1..n : batch[i] = queue[i] /\ i \in DOMAIN queue /\ queue[i] \in Update
      /\ \A i \in DOMAIN queue : i \in Nat /\ i > 0
  BY Batch
<1> HIDE DEF batch
<1>2. /\ P[0] = columns
      /\ \A i \in 1..n : P[i] = One(P[i - 1], batch[i])
      /\ \A i \in 0..n : P[i] \in Column
  BY <1>1, PatchedSteps
<1> HIDE DEF P
<1>3. 0 \in S
  BY <1>1, <1>2
<1>4. ASSUME NEW i \in 0..(n - 1), i \in S
      PROVE  i + 1 \in S
  <2> DEFINE u == queue[i + 1]
  <2>1. i + 1 \in 1..n /\ i + 1 \in 0..n /\ (i + 1) - 1 = i /\ i \in 0..n /\ i + 1 \in DOMAIN queue
    BY <1>1
  <2>2. P[i + 1] = One(P[i], u) /\ P[i] \in Column /\ u \in Update
    BY <1>1, <1>2, <2>1
  <2> HIDE DEF u
  <2>3. /\ InNew(P[i + 1]) \subseteq InNew(P[i]) \cup {u.token}
        /\ u.type # "new" => InNew(P[i + 1]) \subseteq InNew(P[i])
        /\ u.type = "graduated" => u.token \notin InNew(P[i + 1])
        /\ u.type = "graduated" => u.token \notin InSoonNow(P[i + 1])
        /\ u.graduated => InSoonNow(P[i + 1]) \subseteq InSoonNow(P[i])
        /\ InSoonNow(P[i + 1]) \subseteq InSoonNow(P[i]) \cup {u.token}
    <3>1. \A c \in Column : \A v \in Update :
            /\ InNew(One(c, v)) = IF v.type = "new" THEN InNew(c) \cup {v.token}
                                  ELSE IF v.type = "graduated" THEN InNew(c) \ {v.token}
                                  ELSE InNew(c)
            /\ v.type = "graduated" => InSoonNow(One(c, v)) = InSoonNow(c) \ {v.token}
            /\ v.graduated \/ v.type = "graduated" => InSoonNow(One(c, v)) \subseteq InSoonNow(c)
            /\ InSoonNow(One(c, v)) \subseteq InSoonNow(c) \cup {v.token}
      BY OneUpdate
    <3> QED BY <2>2, <3>1
  <2>4. CASE Left(i + 1)
    BY <2>1, <2>4
  <2>5. CASE ~Left(i + 1)
    <3>1. ~IsStale(u, t)
      BY <2>1, <2>5 DEF QueueOK, u
    <3>2. CASE IsGraduation(u, t)
      <4>1. GoneFrom(P[i + 1], t)
        BY <2>3, <3>2 DEF IsGraduation, GoneFrom
      <4> QED BY <2>1, <4>1
    <3>3. CASE ~IsGraduation(u, t)
      <4>1. ~Left(i)
        BY <1>1, <2>1, <2>5, <3>3 DEF u
      <4>2. GoneFrom(P[i], t)
        BY <1>4, <4>1
      <4>3. u.token = t => u.type # "new" /\ u.graduated
        BY <2>2, <3>1 DEF IsStale, Update
      <4>4. GoneFrom(P[i + 1], t)
        BY <2>3, <4>2, <4>3 DEF GoneFrom
      <4> QED BY <2>1, <4>4
    <3> QED BY <3>2, <3>3
  <2> QED BY <2>4, <2>5
<1>5. n \in S
  <2> HIDE DEF S
  <2>1. 0..n \subseteq S
    BY <1>1, <1>3, <1>4, UpTo
  <2> QED BY <1>1, <2>1
<1>6. ~Left(n)
  BY <1>1
<1> QED BY <1>5, <1>6 DEF P, batch

(* And a new token is in "New", or has only newer ones there: of two new   *)
(* tokens in the queue the older one comes first.                          *)
LEMMA OrderAfter ==
  ASSUME QueueOK, queue \in Seq(Update), columns \in Column, listed \in Nat,
         NEW n \in 1..Len(queue), NEW t \in 1..listed, t \notin Graduated,
         \A j \in DOMAIN queue : IsNew(queue[j], t) => j <= n,
         \/ InOrder(columns, t)
         \/ \E j \in DOMAIN queue : IsNew(queue[j], t)
  PROVE  InOrder(Patched(columns, SubSeq(queue, 1, n))[n], t)
<1> DEFINE batch == SubSeq(queue, 1, n)
           P == Patched(columns, batch)
           Left(i) == \E j \in DOMAIN queue : j > i /\ IsNew(queue[j], t)
           S == {i \in 0..n : InOrder(P[i], t) \/ Left(i)}
<1>1. /\ batch \in Seq(Update) /\ Len(batch) = n /\ n \in Nat
      /\ \A i \in 1..n : batch[i] = queue[i] /\ i \in DOMAIN queue /\ queue[i] \in Update
      /\ \A i \in DOMAIN queue : i \in Nat /\ i > 0
  BY Batch
<1> HIDE DEF batch
<1>2. /\ P[0] = columns
      /\ \A i \in 1..n : P[i] = One(P[i - 1], batch[i])
      /\ \A i \in 0..n : P[i] \in Column
  BY <1>1, PatchedSteps
<1> HIDE DEF P
<1>3. 0 \in S
  BY <1>1, <1>2
<1>4. ASSUME NEW i \in 0..(n - 1), i \in S
      PROVE  i + 1 \in S
  <2> DEFINE u == queue[i + 1]
  <2>1. i + 1 \in 1..n /\ i + 1 \in 0..n /\ (i + 1) - 1 = i /\ i \in 0..n /\ i + 1 \in DOMAIN queue
    BY <1>1
  <2>2. P[i + 1] = One(P[i], u) /\ P[i] \in Column /\ u \in Update
    BY <1>1, <1>2, <2>1
  <2> HIDE DEF u
  <2>3. /\ u.type = "new" => InNew(P[i + 1]) = InNew(P[i]) \cup {u.token}
        /\ u.type = "graduated" => InNew(P[i + 1]) = InNew(P[i]) \ {u.token}
        /\ u.type = "update" => InNew(P[i + 1]) = InNew(P[i])
    <3>1. \A c \in Column : \A v \in Update :
            InNew(One(c, v)) = IF v.type = "new" THEN InNew(c) \cup {v.token}
                               ELSE IF v.type = "graduated" THEN InNew(c) \ {v.token}
                               ELSE InNew(c)
      BY OneUpdate
    <3> QED BY <2>2, <3>1
  <2>4. u.type \in {"new", "update", "graduated"} /\ u.token \in Nat /\ t \in Nat
    BY <2>2, Numbers DEF Update
  <2>5. CASE Left(i + 1)
    BY <2>1, <2>5
  <2>6. CASE ~Left(i + 1)
    <3>1. /\ u.type = "graduated" => u.token # t
          /\ u.type = "new" => ~(t > u.token)
      BY <2>1, <2>6 DEF QueueOK, u
    <3>2. CASE IsNew(u, t)
      <4>1. InOrder(P[i + 1], t)
        BY <2>3, <3>2 DEF IsNew, InOrder
      <4> QED BY <2>1, <4>1
    <3>3. CASE ~IsNew(u, t)
      <4>1. ~Left(i)
        BY <1>1, <2>1, <2>6, <3>3 DEF u
      <4>2. InOrder(P[i], t)
        BY <1>4, <4>1
      <4>3. u.type = "new" => u.token > t
        BY <2>4, <3>1, <3>3 DEF IsNew
      <4>4. CASE u.type = "new"
        BY <2>1, <2>3, <4>2, <4>3, <4>4 DEF InOrder
      <4>5. CASE u.type # "new"
        BY <2>1, <2>3, <2>4, <3>1, <4>2, <4>5 DEF InOrder
      <4> QED BY <4>4, <4>5
    <3> QED BY <3>2, <3>3
  <2> QED BY <2>5, <2>6
<1>5. n \in S
  <2> HIDE DEF S
  <2>1. 0..n \subseteq S
    BY <1>1, <1>3, <1>4, UpTo
  <2> QED BY <1>1, <2>1
<1>6. ~Left(n)
  BY <1>1
<1> QED BY <1>5, <1>6 DEF P, batch

(* Sorting and cutting leave it so.                                        *)
LEMMA TidyKeeps ==
  ASSUME NEW c \in Column, since \in [Token -> 0..MaxToken]
  PROVE  /\ Tidy(c, since) \in Column /\ Short(Tidy(c, since))
         /\ \A t : GoneFrom(c, t) => GoneFrom(Tidy(c, since), t)
         /\ \A t : InOrder(c, t) => InOrder(Tidy(c, since), t)
<1> DEFINE d == Tidy(c, since)
<1>1. /\ d \in Column
      /\ Len(d.recent) <= Limit /\ Len(d.soon) <= Limit /\ Len(d.bonded) <= Limit
      /\ InNew(d) \subseteq InNew(c) /\ InSoonNow(d) \subseteq InSoonNow(c)
      /\ \A t \in InNew(c) : t \in InNew(d) \/ \A u \in InNew(d) : u > t
  BY TidyColumns
<1> HIDE DEF d
<1>2. Short(d)
  BY <1>1 DEF Short
<1>3. \A t : GoneFrom(c, t) => GoneFrom(d, t)
  BY <1>1 DEF GoneFrom
<1>4. \A t : InOrder(c, t) => InOrder(d, t)
  BY <1>1 DEF InOrder
<1> QED BY <1>1, <1>2, <1>3, <1>4 DEF d

LEMMA DeliverKeeps ==
  ASSUME PageInv, NEW n \in 1..MaxQueue, Deliver(n)
  PROVE  PageInv'
<1> DEFINE L == Len(queue)
           batch == SubSeq(queue, 1, n)
           rest == SubSeq(queue, n + 1, L)
<1>1. /\ DataType /\ MarketOK /\ QueueOK /\ FetchOK /\ ColumnsOK /\ ListenInv
      /\ listed \in Nat /\ queue \in Seq(Update) /\ since \in [Token -> 0..MaxToken]
      /\ columns \in Column /\ Short(columns) /\ L <= MaxQueue /\ L \in Nat
      /\ DOMAIN queue = 1..L
  BY Numbers DEF PageInv, DataType
<1>2. /\ queue' = rest
      /\ columns' = IF loaded THEN Applied(columns, batch, since) ELSE columns
      /\ UNCHANGED <<stream, market, loaded, fetch, torn, shared>>
      /\ UNCHANGED <<listed, curve, since>> /\ Graduated' = Graduated /\ server' = server
  BY DEF Deliver, market, stream, Graduated
<1>3. n \in 1..L /\ n \in Nat
  BY <1>1, QueueAssumption DEF Deliver
<1>4. /\ batch \in Seq(Update) /\ Len(batch) = n
      /\ rest \in Seq(Update) /\ Len(rest) = L - n
      /\ \A i \in 1..(L - n) : rest[i] = queue[i + n]
  BY <1>1, <1>3, Batch
<1> HIDE DEF rest
<1>5. /\ DOMAIN rest = 1..(L - n)
      /\ \A i \in 1..(L - n) : i + n \in DOMAIN queue /\ i \in Nat
      /\ \A j \in DOMAIN queue : j > n => j - n \in 1..(L - n) /\ rest[j - n] = queue[j]
  <2>1. L - n \in Nat
    BY <1>1, <1>3
  <2>2. DOMAIN rest = 1..(L - n)
    BY <1>4, <2>1
  <2>3. \A i \in 1..(L - n) : i + n \in 1..L /\ i \in Nat
    BY <1>1, <1>3
  <2>4. \A j \in 1..L : j > n => j - n \in 1..(L - n) /\ (j - n) + n = j
    BY <1>1, <1>3
  <2> QED BY <1>1, <1>4, <2>2, <2>3, <2>4
<1> HIDE DEF L
<1>6. ListenInv'
  BY <1>1, <1>2, ElsewhereKeeps
<1>7. QueueOK'
  <2>1. Recent \in server
    BY <1>1, <1>3 DEF QueueOK, L
  <2>2. ASSUME NEW i \in 1..(L - n)
        PROVE  /\ rest[i].token <= listed
               /\ rest[i].type = "graduated" => rest[i].token \in Graduated
               /\ \A t \in Graduated : IsStale(rest[i], t) =>
                    \E j \in 1..(L - n) : j > i /\ IsGraduation(rest[j], t)
               /\ \A t \in 1..listed : rest[i].type = "new" /\ t > rest[i].token =>
                    \E j \in 1..(L - n) : j > i /\ IsNew(rest[j], t)
    <3>1. rest[i] = queue[i + n] /\ i + n \in DOMAIN queue /\ i \in Nat
      BY <1>4, <1>5
    <3>2. \A j \in DOMAIN queue : j > i + n => j > n /\ j - n > i
      BY <1>1, <1>3, <3>1
    <3>3. \A j \in DOMAIN queue : j > i + n => j - n \in 1..(L - n) /\ rest[j - n] = queue[j] /\ j - n > i
      BY <1>5, <3>2
    <3>4. /\ queue[i + n].token <= listed
          /\ queue[i + n].type = "graduated" => queue[i + n].token \in Graduated
          /\ \A t \in Graduated : IsStale(queue[i + n], t) =>
               \E j \in DOMAIN queue : j > i + n /\ IsGraduation(queue[j], t)
          /\ \A t \in 1..listed : queue[i + n].type = "new" /\ t > queue[i + n].token =>
               \E j \in DOMAIN queue : j > i + n /\ IsNew(queue[j], t)
      BY <1>1, <3>1 DEF QueueOK
    <3>5. ASSUME NEW t \in Graduated, IsStale(rest[i], t)
          PROVE  \E j \in 1..(L - n) : j > i /\ IsGraduation(rest[j], t)
      <4>1. PICK j \in DOMAIN queue : j > i + n /\ IsGraduation(queue[j], t)
        BY <3>1, <3>4, <3>5
      <4>2. j - n \in 1..(L - n) /\ rest[j - n] = queue[j] /\ j - n > i
        BY <3>3, <4>1
      <4> QED BY <4>1, <4>2
    <3>6. ASSUME NEW t \in 1..listed, rest[i].type = "new", t > rest[i].token
          PROVE  \E j \in 1..(L - n) : j > i /\ IsNew(rest[j], t)
      <4>1. PICK j \in DOMAIN queue : j > i + n /\ IsNew(queue[j], t)
        BY <3>1, <3>4, <3>6
      <4>2. j - n \in 1..(L - n) /\ rest[j - n] = queue[j] /\ j - n > i
        BY <3>3, <4>1
      <4> QED BY <4>1, <4>2
    <3> QED BY <3>1, <3>4, <3>5, <3>6
  <2> QED BY <1>2, <1>5, <2>1, <2>2 DEF QueueOK
<1>8. /\ \A t \in Token : <<"new", t>> \notin Awaited' =>
            \A j \in DOMAIN queue : IsNew(queue[j], t) => j <= n
      /\ \A t \in Token : <<"graduated", t>> \notin Awaited' =>
            \A j \in DOMAIN queue : IsGraduation(queue[j], t) => j <= n
  <2>1. \A j \in DOMAIN queue : ~(j <= n) => j - n \in DOMAIN rest /\ rest[j - n] = queue[j]
    BY <1>1, <1>3, <1>5
  <2>2. Awaited' = News \cap {<<rest[i].type, rest[i].token>> : i \in DOMAIN rest}
    BY <1>2 DEF Awaited, News
  <2>3. \A t \in Token : <<"new", t>> \in News /\ <<"graduated", t>> \in News
    BY DEF News
  <2> QED BY <2>1, <2>2, <2>3 DEF IsNew, IsGraduation
<1>9. /\ \A t \in Token : <<"new", t>> \in Awaited <=> \E i \in DOMAIN queue : IsNew(queue[i], t)
      /\ \A t \in Token : <<"graduated", t>> \in Awaited
                             <=> \E i \in DOMAIN queue : IsGraduation(queue[i], t)
  BY <1>1, UnderWay
<1>10. Graduated \subseteq Token /\ 1..listed \subseteq Token
  BY <1>1, Numbers DEF PageInv, DataType, Graduated
<1> DEFINE c == Patched(columns, batch)[n]
<1>11. ASSUME loaded
       PROVE  ColumnsOK' /\ columns' \in Column /\ Short(columns')
  <2>1. c \in Column
    <3> HIDE DEF batch
    <3>1. n \in 0..Len(batch)
      BY <1>3, <1>4
    <3> QED BY <1>1, <1>4, <3>1, PatchedSteps
  <2>2. columns' = Tidy(c, since)
    BY <1>2, <1>4, <1>11 DEF Applied
  <2>3. ASSUME NEW t \in Graduated, Shows(<<"graduated", t>>)'
        PROVE  GoneFrom(c, t)
    <3>1. <<"graduated", t>> \notin torn /\ <<"graduated", t>> \notin Awaited'
      BY <1>2, <2>3 DEF Shows
    <3>2. \/ GoneFrom(columns, t)
          \/ \E j \in DOMAIN queue : IsGraduation(queue[j], t)
      BY <1>1, <1>9, <1>10, <1>11, <3>1 DEF ColumnsOK, Shows
    <3>3. \A j \in DOMAIN queue : IsGraduation(queue[j], t) => j <= n
      BY <1>8, <1>10, <3>1
    <3> QED BY <1>1, <1>3, <3>2, <3>3, GoneAfter DEF L
  <2>4. ASSUME NEW t \in 1..listed, t \notin Graduated, Shows(<<"new", t>>)'
        PROVE  InOrder(c, t)
    <3>1. <<"new", t>> \notin torn /\ <<"new", t>> \notin Awaited'
      BY <1>2, <2>4 DEF Shows
    <3>2. \/ InOrder(columns, t)
          \/ \E j \in DOMAIN queue : IsNew(queue[j], t)
      BY <1>1, <1>9, <1>10, <1>11, <2>4, <3>1 DEF ColumnsOK, Shows
    <3>3. \A j \in DOMAIN queue : IsNew(queue[j], t) => j <= n
      BY <1>8, <1>10, <3>1
    <3> QED BY <1>1, <1>3, <2>4, <3>2, <3>3, OrderAfter DEF L
  <2> HIDE DEF c
  <2>5. /\ columns' \in Column /\ Short(columns')
        /\ \A t : GoneFrom(c, t) => GoneFrom(columns', t)
        /\ \A t : InOrder(c, t) => InOrder(columns', t)
    BY <1>1, <2>1, <2>2, TidyKeeps
  <2>6. ColumnsOK'
    BY <1>2, <2>3, <2>4, <2>5 DEF ColumnsOK
  <2> QED BY <2>5, <2>6
<1>12. ColumnsOK' /\ columns' \in Column /\ Short(columns')
  <2> HIDE DEF c
  <2>1. CASE loaded
    BY <1>11, <2>1
  <2>2. CASE ~loaded
    <3>1. columns' = columns /\ loaded' = loaded
      BY <1>2, <2>2
    <3>2. ColumnsOK'
      BY <3>1, <2>2 DEF ColumnsOK, Shows
    <3> QED BY <1>1, <3>1, <3>2
  <2> QED BY <2>1, <2>2
<1>13. DataType' /\ MarketOK'
  <2>1. Len(queue') <= MaxQueue
    BY <1>1, <1>2, <1>3, <1>4, QueueAssumption
  <2> QED BY <1>1, <1>2, <1>4, <1>12, <2>1 DEF DataType, MarketOK, Short
<1>14. FetchOK'
  BY <1>1, <1>2, FetchStay
<1> QED BY <1>6, <1>7, <1>12, <1>13, <1>14 DEF PageInv

-----------------------------------------------------------------------------
(* The fetch. *)

(* What the server answers is right about all that has happened.           *)
LEMMA GemsRight ==
  ASSUME DataType, MarketOK
  PROVE  /\ Gems \in Column /\ Short(Gems)
         /\ \A t \in Graduated : GoneFrom(Gems, t)
         /\ \A t \in 1..listed \ Graduated : InOrder(Gems, t)
<1> DEFINE all == [t \in 1..listed |-> t]
           live == Kept(all, Token \ Graduated)
           risen == {t \in Token : curve[t] > 0}
           moving == Kept(live, risen)
           soon == [i \in DOMAIN moving |-> [token |-> moving[i], curve |-> curve[moving[i]]]]
           bonded == Kept(all, Graduated)
           g == [recent |-> live, soon |-> soon, bonded |-> bonded]
<1>1. /\ listed \in Nat /\ 1..listed \subseteq Token /\ Graduated \subseteq 1..listed
      /\ curve \in [Token -> 0..MaxCurve] /\ since \in [Token -> 0..MaxToken]
  BY Numbers DEF DataType, MarketOK
<1>2. all \in Seq(Token) /\ ToSet(all) = 1..listed
  <2>1. all \in Seq(Token) /\ Len(all) = listed /\ \A i \in 1..listed : all[i] = i
    BY <1>1
  <2> HIDE DEF all
  <2>2. ToSet(all) = {all[i] : i \in 1..listed}
    BY <2>1, Members
  <2> QED BY <2>1, <2>2
<1> HIDE DEF all
<1>3. live \in Seq(Token) /\ ToSet(live) = (1..listed) \cap (Token \ Graduated)
  BY <1>2, KeptSeq
<1>4. bonded \in Seq(Token)
  BY <1>2, KeptSeq
<1> HIDE DEF live, bonded
<1>5. moving \in Seq(Token) /\ ToSet(moving) \subseteq ToSet(live)
  BY <1>3, KeptSeq
<1> HIDE DEF moving
<1>6. soon \in Seq(InSoon) /\ {p.token : p \in ToSet(soon)} \subseteq ToSet(moving)
  <2>1. /\ DOMAIN moving = 1..Len(moving) /\ Len(moving) \in Nat
        /\ \A i \in 1..Len(moving) : moving[i] \in Token
        /\ ToSet(moving) = {moving[i] : i \in 1..Len(moving)}
    BY <1>5, Members
  <2>2. \A i \in 1..Len(moving) :
          /\ [token |-> moving[i], curve |-> curve[moving[i]]] \in InSoon
          /\ soon[i] = [token |-> moving[i], curve |-> curve[moving[i]]]
    BY <1>1, <2>1 DEF InSoon
  <2>3. soon \in [1..Len(moving) -> InSoon]
    BY <2>1, <2>2
  <2>4. \A i \in 1..Len(moving) : soon[i].token = moving[i]
    BY <2>2
  <2> HIDE DEF soon
  <2>5. soon \in Seq(InSoon) /\ Len(soon) = Len(moving)
    BY <2>1, <2>3
  <2>6. ToSet(soon) = {soon[i] : i \in 1..Len(moving)}
    BY <2>5, Members
  <2>7. {p.token : p \in ToSet(soon)} = {soon[i].token : i \in 1..Len(moving)}
    BY <2>6
  <2> QED BY <2>1, <2>4, <2>5, <2>7
<1> HIDE DEF soon
<1>7. g \in Column /\ InNew(g) = (1..listed) \cap (Token \ Graduated) /\ InSoonNow(g) \subseteq InNew(g)
  BY <1>3, <1>4, <1>5, <1>6 DEF Column, InNew, InSoonNow
<1>8. Gems = Tidy(g, since)
  BY DEF Gems, g, all, live, risen, moving, soon, bonded
<1> HIDE DEF g
<1>9. \A t \in Graduated : GoneFrom(g, t)
  BY <1>7 DEF GoneFrom
<1>10. \A t \in 1..listed \ Graduated : InOrder(g, t)
  BY <1>1, <1>7 DEF InOrder
<1> QED BY <1>1, <1>7, <1>8, <1>9, <1>10, TidyKeeps

LEMMA FetchSentKeeps ==
  ASSUME PageInv, FetchSent
  PROVE  PageInv'
<1>1. DataType /\ MarketOK /\ QueueOK /\ ColumnsOK /\ ListenInv
  BY DEF PageInv
<1>2. /\ fetch' = [columns |-> Gems, known |-> Happened]
      /\ UNCHANGED <<stream, market, queue, columns, loaded, torn, shared>>
      /\ UNCHANGED <<listed, curve, since, server>> /\ Graduated' = Graduated /\ Happened' = Happened
  BY DEF FetchSent, market, stream, Graduated, Happened
<1>3. /\ Gems \in Column /\ Short(Gems)
      /\ \A t \in Graduated : GoneFrom(Gems, t)
      /\ \A t \in 1..listed \ Graduated : InOrder(Gems, t)
  BY <1>1, GemsRight
<1>4. ListenInv'
  BY <1>1, <1>2, ElsewhereKeeps
<1>5. DataType' /\ MarketOK'
  <2>1. Happened \subseteq News
    <3>1. 1..listed \subseteq Token /\ Graduated \subseteq Token
      BY <1>1, Numbers DEF DataType, Graduated
    <3> QED BY <3>1 DEF Happened, News
  <2>2. fetch' \in Answer
    BY <1>2, <1>3, <2>1 DEF Answer
  <2> QED BY <1>1, <1>2, <2>2 DEF DataType, MarketOK, Short
<1>6. QueueOK'
  BY <1>1, <1>2, QueueStays
<1>7. FetchOK'
  BY <1>2, <1>3 DEF FetchOK
<1>8. Awaited' = Awaited
  BY <1>2 DEF Awaited
<1>9. ColumnsOK'
  BY <1>1, <1>2, <1>8, ColumnsStay
<1> QED BY <1>4, <1>5, <1>6, <1>7, <1>9 DEF PageInv

(* News that has happened and is not known to the answer is under way or   *)
(* was torn from the columns.                                              *)
LEMMA FetchAnsweredKeeps ==
  ASSUME PageInv, FetchAnswered
  PROVE  PageInv'
<1>1. DataType /\ MarketOK /\ QueueOK /\ FetchOK /\ ColumnsOK /\ ListenInv
  BY DEF PageInv
<1>2. /\ fetch # NoFetch /\ columns' = fetch.columns /\ loaded' = TRUE /\ fetch' = NoFetch
      /\ torn' = Happened \ (fetch.known \cup Awaited)
      /\ UNCHANGED <<stream, market, queue, shared>>
      /\ UNCHANGED <<listed, curve, since, server>> /\ Graduated' = Graduated
  BY DEF FetchAnswered, market, stream, Graduated
<1>3. /\ fetch.columns \in Column /\ Short(fetch.columns)
      /\ \A t \in Graduated : <<"graduated", t>> \in fetch.known => GoneFrom(fetch.columns, t)
      /\ \A t \in 1..listed \ Graduated : <<"new", t>> \in fetch.known => InOrder(fetch.columns, t)
  BY <1>1, <1>2 DEF FetchOK, DataType, Answer
<1>4. ListenInv'
  BY <1>1, <1>2, ElsewhereKeeps
<1>5. 1..listed \subseteq Token /\ Graduated \subseteq Token
  BY <1>1, Numbers DEF DataType, Graduated
<1>6. DataType' /\ MarketOK'
  <2>1. torn' \subseteq News
    BY <1>2, <1>5 DEF Happened, News
  <2> QED BY <1>1, <1>2, <1>3, <2>1 DEF DataType, MarketOK, Short
<1>7. QueueOK'
  BY <1>1, <1>2, QueueStays
<1>8. FetchOK'
  BY <1>2 DEF FetchOK
<1>9. Awaited' = Awaited
  BY <1>2 DEF Awaited
<1>10. ColumnsOK'
  <2>1. \A n : Shows(n)' /\ n \in Happened => n \in fetch.known
    BY <1>2, <1>9 DEF Shows
  <2>2. /\ \A t \in Graduated : <<"graduated", t>> \in Happened
        /\ \A t \in 1..listed : <<"new", t>> \in Happened
    BY DEF Happened
  <2> QED BY <1>2, <1>3, <2>1, <2>2 DEF ColumnsOK
<1> QED BY <1>4, <1>6, <1>7, <1>8, <1>10 DEF PageInv

LEMMA FetchFailedKeeps ==
  ASSUME PageInv, FetchFailed
  PROVE  PageInv'
<1>1. DataType /\ MarketOK /\ QueueOK /\ ColumnsOK /\ ListenInv
  BY DEF PageInv
<1>2. /\ fetch' = NoFetch
      /\ UNCHANGED <<stream, market, queue, columns, loaded, torn, shared>>
      /\ UNCHANGED <<listed, curve, since, server>> /\ Graduated' = Graduated
  BY DEF FetchFailed, market, stream, Graduated
<1>3. ListenInv'
  BY <1>1, <1>2, ElsewhereKeeps
<1>4. DataType' /\ MarketOK'
  BY <1>1, <1>2 DEF DataType, MarketOK, Short
<1>5. QueueOK'
  BY <1>1, <1>2, QueueStays
<1>6. FetchOK'
  BY <1>2 DEF FetchOK
<1>7. Awaited' = Awaited
  BY <1>2 DEF Awaited
<1>8. ColumnsOK'
  BY <1>1, <1>2, <1>7, ColumnsStay
<1> QED BY <1>3, <1>4, <1>5, <1>6, <1>8 DEF PageInv

-----------------------------------------------------------------------------
(* The page. *)

(* A step of the page that leaves what is under way alone must not be the  *)
(* one that stops asking for new tokens.                                   *)
LEMMA StreamKeeps ==
  ASSUME PageInv, ListenInv', shared' \subseteq Token,
         UNCHANGED <<market, queue, columns, loaded, fetch, torn>>,
         Recent \notin server' => Recent \notin server \/ queue = <<>>
  PROVE  PageInv'
<1>1. DataType /\ MarketOK /\ QueueOK /\ FetchOK /\ ColumnsOK
  BY DEF PageInv
<1>2. UNCHANGED <<listed, curve, since>> /\ Graduated' = Graduated
  BY DEF market, Graduated
<1>3. DataType' /\ MarketOK'
  BY <1>1, <1>2 DEF DataType, MarketOK, Short
<1>4. QueueOK'
  BY <1>1, QueueStays
<1>5. FetchOK'
  BY <1>1, FetchStay
<1>6. Awaited' = Awaited
  BY DEF Awaited
<1>7. ColumnsOK'
  BY <1>1, <1>6, ColumnsStay
<1> QED BY <1>3, <1>4, <1>5, <1>7 DEF PageInv

(* What is lost with a socket is known to be missing.                      *)
LEMMA LostKeeps ==
  ASSUME PageInv, ListenInv', Lost, shared' \subseteq Token
  PROVE  PageInv'
<1>1. /\ DataType /\ MarketOK /\ QueueOK /\ FetchOK /\ ColumnsOK
      /\ queue \in Seq(Update)
  BY DEF PageInv, DataType
<1>2. /\ queue' = <<>> /\ torn' = torn \cup Awaited
      /\ UNCHANGED <<market, columns, loaded, fetch>>
      /\ UNCHANGED <<listed, curve, since>> /\ Graduated' = Graduated
  BY DEF Lost, market, Graduated
<1>3. QueueOK' /\ queue' \in Seq(Update) /\ Len(queue') = 0 /\ Awaited' = {}
  BY <1>2, QueueEmptied
<1>4. DataType' /\ MarketOK'
  <2>1. torn' \subseteq News
    BY <1>1, <1>2, UnderWay DEF DataType
  <2>2. Len(queue') <= MaxQueue
    BY <1>3, QueueAssumption
  <2> QED BY <1>1, <1>2, <1>3, <2>1, <2>2 DEF DataType, MarketOK, Short
<1>5. FetchOK'
  BY <1>1, <1>2, FetchStay
<1>6. ColumnsOK'
  BY <1>1, <1>2, ColumnsStay
<1> QED BY <1>3, <1>4, <1>5, <1>6 DEF PageInv

LEMMA ListShowsKeepsPage ==
  ASSUME PageInv, NEW l \in Lists, ListShows(l)
  PROVE  PageInv'
<1>1. ListenInv /\ ListenInv' /\ shared \subseteq Token
  BY ListShowsKeeps DEF PageInv, DataType
<1>2. PICK pools \in SUBSET Tokens :
        /\ ShowIn(l, pools)
        /\ shared' = shared \cup (pools \cap UNION {shown[k] : k \in Lists \ {l}})
        /\ UNCHANGED <<market, queue, columns, loaded, fetch, torn>>
  BY DEF ListShows
<1>3. server' = IF sock = "open" THEN (server \ shown[l]) \cup pools ELSE server
  BY <1>2 DEF ShowIn, Resubscribed, IfOpen
<1>4. Recent \notin shown[l]
  BY <1>1, TopicAssumption DEF ListenInv, StreamType
<1>5. Recent \notin server' => Recent \notin server
  BY <1>3, <1>4
<1>6. shared' \subseteq Token
  BY <1>1, <1>2, ListingAssumption
<1> QED BY <1>1, <1>2, <1>5, <1>6, StreamKeeps

LEMMA PageStepKeeps ==
  ASSUME PageInv, PageStep
  PROVE  PageInv'
<1>1. ListenInv /\ shared \subseteq Token /\ QueueOK
  BY DEF PageInv, DataType
<1>2. CASE (Enter \/ Opened \/ Reconnect) /\ UNCHANGED <<market, queue, columns, loaded, fetch, torn, shared>>
  <2>1. ListenInv'
    BY <1>1, <1>2, EnterKeeps, OpenedKeeps, ReconnectKeeps
  <2>2. Recent \notin server' => Recent \notin server \/ queue = <<>>
    <3>1. CASE Enter \/ Reconnect
      BY <3>1 DEF Enter, Reconnect
    <3>2. CASE Opened
      BY <1>1, <3>2 DEF Opened, ListenInv, SocketOK, QueueOK
    <3> QED BY <1>2, <3>1, <3>2
  <2> QED BY <1>1, <1>2, <2>1, <2>2, StreamKeeps
<1>3. CASE Closed /\ Lost /\ UNCHANGED shared
  BY <1>1, <1>3, ClosedKeeps, LostKeeps
<1>4. CASE Leave /\ Lost /\ shared' = {}
  BY <1>1, <1>4, LeaveKeeps, LostKeeps
<1> QED BY <1>2, <1>3, <1>4 DEF PageStep

-----------------------------------------------------------------------------
LEMMA PageInit == Init => PageInv
<1> SUFFICES ASSUME Init
             PROVE  PageInv
  OBVIOUS
<1>1. /\ listed = 0 /\ curve = [t \in Token |-> 0] /\ since = [t \in Token |-> 0]
      /\ queue = <<>> /\ columns = NoTokens /\ loaded = FALSE
      /\ fetch = NoFetch /\ torn = {} /\ shared = {}
  BY DEF Init
<1>2. Graduated = {}
  BY <1>1 DEF Graduated
<1>3. columns \in Column /\ Short(columns)
  <2>1. NoTokens \in Column
    BY DEF NoTokens, Column
  <2>2. \A x \in {"recent", "soon", "bonded"} : Len(NoTokens[x]) = 0
    BY DEF NoTokens
  <2> QED BY <1>1, <2>1, <2>2, Numbers DEF Short
<1>4. DataType
  <2>1. 0 \in 0..MaxToken /\ 0 \in 0..MaxCurve /\ 0 <= MaxQueue
    BY Numbers, QueueAssumption
  <2>2. queue \in Seq(Update) /\ Len(queue) <= MaxQueue
    BY <1>1, <2>1
  <2> QED BY <1>1, <1>3, <2>1, <2>2 DEF DataType
<1>5. QueueOK /\ FetchOK /\ MarketOK
  BY <1>1, <1>2 DEF QueueOK, FetchOK, MarketOK
<1>6. ColumnsOK
  BY <1>1, <1>2 DEF ColumnsOK, Shows
<1> QED BY <1>4, <1>5, <1>6, ListenInit DEF PageInv

LEMMA PageNext == PageInv /\ [Next]_vars => PageInv'
<1> SUFFICES ASSUME PageInv, [Next]_vars
             PROVE  PageInv'
  OBVIOUS
<1>1. CASE Market
  BY <1>1, ListKeeps, TradeKeeps, GraduateKeeps DEF Market
<1>2. CASE \E n \in 1..MaxQueue : Deliver(n)
  BY <1>2, DeliverKeeps
<1>3. CASE FetchSent \/ FetchAnswered \/ FetchFailed
  BY <1>3, FetchSentKeeps, FetchAnsweredKeeps, FetchFailedKeeps
<1>4. CASE \E l \in Lists : ListShows(l)
  BY <1>4, ListShowsKeepsPage
<1>5. CASE PageStep
  BY <1>5, PageStepKeeps
<1>6. CASE UNCHANGED vars
  <2>1. UNCHANGED <<stream, shared>> /\ UNCHANGED <<market, queue, columns, loaded, fetch, torn>>
        /\ UNCHANGED <<server, shared>>
    BY <1>6 DEF vars, stream
  <2>2. ListenInv' /\ shared' \subseteq Token
    BY <2>1, ElsewhereKeeps DEF PageInv, DataType
  <2> QED BY <2>1, <2>2, StreamKeeps
<1> QED BY <1>1, <1>2, <1>3, <1>4, <1>5, <1>6 DEF Next

(* The handler of the stream never brings back to "New" or "Soon" a token  *)
(* that graduated, however updates, fetches and reconnections fall between *)
(* each other, and no list outgrows what it may show                       *)
(* (ExploreMsgHandler.tsx).                                                *)
THEOREM ColumnsCorrect == Spec => []ColumnsAreSound
<1>1. PageInv => ColumnsAreSound
  <2> SUFFICES ASSUME PageInv
               PROVE  ColumnsAreSound
    OBVIOUS
  <2>1. StreamType /\ DataType /\ ColumnsOK
    BY DEF PageInv, ListenInv
  <2>2. columns \in Column /\ columns.recent \in Seq(Token)
    BY <2>1 DEF DataType, Column
  <2>3. TypeOK
    BY <2>1 DEF TypeOK, DataType, Short
  <2>4. GraduatedLeaves
    BY <2>1, <2>2, Members, SoonMembers DEF ColumnsOK, GoneFrom, InNew, GraduatedLeaves
  <2> QED BY <2>3, <2>4 DEF ColumnsAreSound
<1> QED BY <1>1, PageInit, PageNext, PTL DEF Spec

(* "New" never shows an older token in the place of a newer one that was   *)
(* cut off, whichever of the stream and the fetch brought them.            *)
THEOREM NewestCorrect == Spec => []NewestShown
<1>1. PageInv => NewestShown
  <2> SUFFICES ASSUME PageInv
               PROVE  NewestShown
    OBVIOUS
  <2>1. ColumnsOK /\ columns.recent \in Seq(Token)
    BY DEF PageInv, DataType, Column
  <2>2. \A t \in 1..listed \ Graduated : Shows(<<"new", t>>) => InOrder(columns, t)
    BY <2>1 DEF ColumnsOK
  <2>3. \A t : Contains(columns.recent, t) <=> t \in InNew(columns)
    BY <2>1, Members DEF InNew
  <2>4. InNew(columns) = ToSet(columns.recent)
    BY DEF InNew
  <2> QED BY <2>2, <2>3, <2>4 DEF NewestShown, InOrder
<1> QED BY <1>1, PageInit, PageNext, PTL DEF Spec
=============================================================================
