------------------------------- MODULE LiveData -------------------------------
(***************************************************************************)
(* The Explore page against its two sources: the stream (DataStream), which*)
(* sends updates of what the page asked for, and the list of gems, which   *)
(* is fetched when the page mounts and every 30 seconds and replaces the   *)
(* three columns.  The handler of the stream works on whatever columns are *)
(* in the cache when a message arrives.                                    *)
(*                                                                         *)
(* The market is the outside: tokens are listed, traded and graduate.  The *)
(* stream delivers in order and loses what is under way when it closes; an *)
(* answer to a fetch may be overtaken by the stream.                       *)
(***************************************************************************)
EXTENDS DataStream, ExploreColumns

CONSTANTS MaxQueue,    \* bound: updates under way on the socket
          NoFetch      \* no answer to a fetch is under way

ASSUMPTION QueueAssumption == MaxQueue \in Nat
\* The pools a list may show are tokens of the market.
ASSUMPTION ListingAssumption == Tokens \subseteq Token

VARIABLES
  listed,    \* market: tokens 1..listed exist
  curve,     \* market: progress of each token's bonding curve
  since,     \* market: since[t] > 0 is the place of t among the graduated
  queue,     \* updates the server sent that the page has not seen
  columns,   \* the cached answer, as fetched and as patched by the stream
  loaded,    \* FALSE until the first fetch is answered
  fetch,     \* an answer under way
  torn,      \* history: news the columns missed
  shared     \* history: pools that two lists showed at the same time

market == <<listed, curve, since>>
vars == <<stream, market, queue, columns, loaded, fetch, torn, shared>>

Graduated == {t \in Token : since[t] > 0}

(* News the columns must show, what of it has happened, and what of it is  *)
(* still under way.                                                        *)
News == {"new", "graduated"} \X Token
Happened == ({"new"} \X (1..listed)) \cup ({"graduated"} \X Graduated)
Awaited == News \cap {<<queue[i].type, queue[i].token>> : i \in DOMAIN queue}

Answer == [columns : Column, known : SUBSET News]

TypeOK ==
  /\ StreamType
  /\ listed \in 0..MaxToken
  /\ curve \in [Token -> 0..MaxCurve] /\ since \in [Token -> 0..MaxToken]
  /\ queue \in Seq(Update) /\ Len(queue) <= MaxQueue
  /\ columns \in Column
  /\ \A c \in {"recent", "soon", "bonded"} : Len(columns[c]) <= Limit
  /\ loaded \in BOOLEAN
  /\ fetch = NoFetch \/ fetch \in Answer
  /\ torn \subseteq News /\ shared \subseteq Token

Init ==
  /\ StreamInit
  /\ listed = 0 /\ curve = [t \in Token |-> 0] /\ since = [t \in Token |-> 0]
  /\ queue = <<>> /\ columns = NoTokens /\ loaded = FALSE
  /\ fetch = NoFetch /\ torn = {} /\ shared = {}

-----------------------------------------------------------------------------
(* The market, and what the stream says of it to those who asked.          *)

Tell(topic, type, t) ==
  LET told == topic \in server
  IN /\ queue' = IF told THEN Append(queue, [type |-> type, token |-> t, curve |-> curve'[t],
                                            graduated |-> since'[t] > 0])
                 ELSE queue
     /\ torn' = IF told THEN torn ELSE torn \cup (News \cap {<<type, t>>})

List ==
  /\ listed < MaxToken
  /\ listed' = listed + 1
  /\ UNCHANGED <<curve, since>>
  /\ Tell(Recent, "new", listed')

Trade(t) ==
  /\ t <= listed
  /\ \E c \in IF t \in Graduated THEN {MaxCurve} ELSE 1..MaxCurve - 1 :
       curve' = [curve EXCEPT ![t] = c]
  /\ UNCHANGED <<listed, since>>
  /\ Tell(t, "update", t)

Graduate(t) ==
  /\ t <= listed /\ t \notin Graduated
  /\ since' = [since EXCEPT ![t] = Cardinality(Graduated) + 1]
  /\ curve' = [curve EXCEPT ![t] = MaxCurve]
  /\ UNCHANGED listed
  /\ Tell(Recent, "graduated", t)

Market ==
  /\ Len(queue) < MaxQueue
  /\ List \/ \E t \in Token : Trade(t) \/ Graduate(t)
  /\ UNCHANGED <<stream, columns, loaded, fetch, shared>>

-----------------------------------------------------------------------------
(* The page. *)

(* onmessage: the first n updates under way are one message.  Columns that *)
(* were never fetched are left alone.                                      *)
Deliver(n) ==
  /\ page = "here" /\ n <= Len(queue)
  /\ queue' = SubSeq(queue, n + 1, Len(queue))
  /\ columns' = IF loaded THEN Applied(columns, SubSeq(queue, 1, n), since) ELSE columns
  /\ UNCHANGED <<stream, market, loaded, fetch, torn, shared>>

(* What the server answers at this moment. *)
Gems ==
  LET all == [t \in 1..listed |-> t]
      live == Kept(all, Token \ Graduated)
      moving == Kept(live, {t \in Token : curve[t] > 0})
  IN Tidy([recent |-> live,
           soon |-> [i \in DOMAIN moving |-> [token |-> moving[i], curve |-> curve[moving[i]]]],
           bonded |-> Kept(all, Graduated)], since)

FetchSent ==
  /\ page = "here" /\ fetch = NoFetch
  /\ fetch' = [columns |-> Gems, known |-> Happened]
  /\ UNCHANGED <<stream, market, queue, columns, loaded, torn, shared>>

FetchAnswered ==
  /\ fetch # NoFetch
  /\ columns' = fetch.columns /\ loaded' = TRUE
  /\ torn' = Happened \ (fetch.known \cup Awaited)
  /\ fetch' = NoFetch
  /\ UNCHANGED <<stream, market, queue, shared>>

FetchFailed ==
  /\ fetch # NoFetch
  /\ fetch' = NoFetch
  /\ UNCHANGED <<stream, market, queue, columns, loaded, torn, shared>>

(* A list shows some of its column; while the pointer rests on it, or the  *)
(* page is scrolled on a phone, also pools that have left the column.      *)
Listed(l) ==
  shown[l] \cup ToSet(IF l = "soon" THEN SoonTokens(columns.soon) ELSE columns[l])

ListShows(l) ==
  \E pools \in SUBSET Tokens :
    /\ pools \subseteq Listed(l)
    /\ ShowIn(l, pools)
    /\ shared' = shared \cup (pools \cap UNION {shown[k] : k \in Lists \ {l}})
    /\ UNCHANGED <<market, queue, columns, loaded, fetch, torn>>

(* What was under way on a socket that is gone, or for a page that is.     *)
Lost ==
  /\ queue' = <<>> /\ torn' = torn \cup Awaited
  /\ UNCHANGED <<market, columns, loaded, fetch>>

PageStep ==
  \/ /\ Enter \/ Opened \/ Reconnect
     /\ UNCHANGED <<market, queue, columns, loaded, fetch, torn, shared>>
  \/ Closed /\ Lost /\ UNCHANGED shared
  \/ Leave /\ Lost /\ shared' = {}

Next ==
  \/ Market
  \/ \E n \in 1..MaxQueue : Deliver(n)
  \/ FetchSent \/ FetchAnswered \/ FetchFailed
  \/ \E l \in Lists : ListShows(l)
  \/ PageStep

(* The timer of a reconnection goes off; of the attempts to connect that   *)
(* are made again and again, some succeed.                                 *)
Fairness ==
  /\ WF_vars(Reconnect /\ PageStep)
  /\ SF_vars(Opened /\ PageStep)

Spec == Init /\ [][Next]_vars /\ Fairness

-----------------------------------------------------------------------------
(* Whatever is visible is being listened to.  The provider keeps no count  *)
(* of who asked: a pool two lists showed at once is excepted, since either *)
(* of them takes it away from both.                                        *)
ShownIsHeard ==
  page = "here" /\ sock = "open" => {Recent} \cup (Visible \ shared) \subseteq server

(* And nothing else is: no topic stays asked for on a socket, new or old,  *)
(* once the component that asked is gone.                                  *)
NothingForNobody ==
  server \subseteq (IF page = "here" THEN {Recent} \cup Visible ELSE {})

(* News is shown unless it is under way, was lost with a connection, or    *)
(* was undone by an answer to a fetch that is older than it.               *)
Shows(news) == loaded /\ news \notin torn \cup Awaited

(* A graduated token is in neither "New" nor "Soon": no update that was    *)
(* late, and none that comes after, puts it back there.                    *)
GraduatedLeaves ==
  \A t \in Graduated : Shows(<<"graduated", t>>) =>
    /\ ~Contains(columns.recent, t)
    /\ ~Contains(SoonTokens(columns.soon), t)

(* "New" never holds an older token in the place of a newer one, whichever *)
(* of the stream and the fetch brought them and whatever was cut off.      *)
NewestShown ==
  \A t \in 1..listed \ Graduated : Shows(<<"new", t>>) =>
    (Contains(columns.recent, t) \/ \A u \in ToSet(columns.recent) : u > t)

(* A page that stays gets its stream back after any number of failures.    *)
StreamComesBack == page = "here" ~> (sock = "open" \/ page = "away")

(* The server is asked for what the page shows, and for nothing else.      *)
ListeningIsRight == StreamType /\ ShownIsHeard /\ NothingForNobody

(* The columns hold tokens, no more than they may show, and a token that   *)
(* graduated is gone from the two it was in.                               *)
ColumnsAreSound == TypeOK /\ GraduatedLeaves
=============================================================================
