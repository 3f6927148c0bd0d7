------------------------------ MODULE DataStream ------------------------------
(***************************************************************************)
(* The live connection of the Explore page (contexts/DataStreamProvider).  *)
(* One WebSocket serves every component of the page.  A component asks for *)
(* topics in an effect and takes them back in the effect's cleanup; the    *)
(* provider writes the topic down and, if the socket happens to be open,   *)
(* tells the server.  A socket that opens is told everything written down. *)
(*                                                                         *)
(* A topic is the "recent" feed or the feed of one pool.  subscribeRecent- *)
(* TokenList, subscribePools and subscribeTxns differ in the name of the   *)
(* request and in the ref they keep (subRecentTokenList, subPools,         *)
(* subTxnsAssets); here one set, subs, stands for the three.               *)
(***************************************************************************)
EXTENDS Naturals

CONSTANTS Lists,    \* the token lists of the page, each with its own effect
          Tokens,   \* the pools a list may show
          Recent    \* the topic of newly listed and graduated tokens

ASSUMPTION TopicAssumption == Recent \notin Tokens

VARIABLES
  page,    \* "here" while the provider is mounted, else "away"
  sock,    \* the state of ws.current
  first,   \* TRUE while ws.current is the socket of the first init()
  due,     \* an onclose waits RECONNECT_DELAY_MILLIS before it calls init()
  subs,    \* the topics the provider has written down
  server,  \* the topics the server sends on ws.current
  shown    \* visiblePoolIds of each list, as its last effect saw them

stream == <<page, sock, first, due, subs, server, shown>>

Topics == Tokens \cup {Recent}
Visible == UNION {shown[l] : l \in Lists}

StreamType ==
  /\ page \in {"here", "away"}
  /\ sock \in {"none", "connecting", "open", "closed"}
  /\ {first, due} \subseteq BOOLEAN
  /\ {subs, server} \subseteq SUBSET Topics
  /\ shown \in [Lists -> SUBSET Tokens]

StreamInit ==
  /\ page = "away" /\ sock = "none" /\ first = FALSE /\ due = FALSE
  /\ subs = {} /\ server = {}
  /\ shown = [l \in Lists |-> {}]

(* A socket that is open is told at once; any other is told nothing. *)
IfOpen(told) == IF sock = "open" THEN told ELSE server

-----------------------------------------------------------------------------
(* The page mounts: the effects of the components run before the           *)
(* provider's own, so their requests are only written down; then init().   *)
(* A later visit has refs of its own; it is taken to begin when nothing of *)
(* the last one is left, as an old socket carries nothing for anybody.     *)
Enter ==
  /\ page = "away" /\ sock \in {"none", "closed"} /\ ~due
  /\ page' = "here" /\ sock' = "connecting" /\ first' = TRUE
  /\ subs' = {Recent}
  /\ UNCHANGED <<due, server, shown>>

(* A list shows other pools than before: React runs the cleanup of its     *)
(* last effect, unsubscribePools(before), then the effect.                 *)
Slip_SubscribeFirst(topics, before, after) == (topics \cup after) \ before
Resubscribed(topics, before, after) == (topics \ before) \cup after

ShowIn(l, pools) ==
  /\ page = "here" /\ pools # shown[l]
  /\ shown' = [shown EXCEPT ![l] = pools]
  /\ subs' = Resubscribed(subs, shown[l], pools)
  /\ server' = IfOpen(Resubscribed(server, shown[l], pools))
  /\ UNCHANGED <<page, sock, first, due>>

(* onopen: everything that is written down is asked for again. *)
Wanted == subs

Opened ==
  /\ sock = "connecting"
  /\ sock' = "open" /\ server' = Wanted
  /\ UNCHANGED <<page, first, due, subs, shown>>

(* onclose, which onerror also leads to through close().  shouldReconnect  *)
(* is TRUE from the mount to the unmount of the provider.                  *)
Slip_OnlyOnceOpen == page = "here" /\ sock = "open"
Closes == page = "here"

Closed ==
  /\ sock \in {"connecting", "open"}
  /\ sock' = "closed" /\ server' = {}
  /\ due' = Closes
  /\ UNCHANGED <<page, first, subs, shown>>

(* The delay is over.  shouldReconnect is not looked at again. *)
Reconnect ==
  /\ due
  /\ due' = FALSE /\ sock' = "connecting" /\ first' = FALSE
  /\ UNCHANGED <<page, subs, server, shown>>

(* The provider unmounts.  Its cleanup closes the socket that the first    *)
(* init() made, which is not ws.current once there was a reconnection; the *)
(* components' cleanups then take back what they had asked for.            *)
TakenBack(topics) == topics \ ({Recent} \cup Visible)

Leave ==
  /\ page = "here"
  /\ page' = "away"
  /\ sock' = IF first THEN "closed" ELSE sock
  /\ subs' = TakenBack(subs)
  /\ server' = IF first THEN {} ELSE IfOpen(TakenBack(server))
  /\ shown' = [l \in Lists |-> {}]
  /\ UNCHANGED <<first, due>>
=============================================================================
