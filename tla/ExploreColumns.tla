---------------------------- MODULE ExploreColumns ----------------------------
(***************************************************************************)
(* What ExploreMsgHandler does to the three columns of the Explore page    *)
(* ("New", "Soon", "Bonded") when a message of the stream arrives.         *)
(*                                                                         *)
(* A token is a number, its place in the order of listing, which is the    *)
(* order of createdAt.  A column keeps what the code decides on: the token *)
(* in "recent" and "bonded", the token and its bondingCurve in "soon".     *)
(* A message is a batch of updates; the handler applies each in turn, then *)
(* sorts the three lists and cuts them to Limit (30).  An update marked    *)
(* isUnreliable is skipped, which is the same as never having been sent.   *)
(***************************************************************************)
EXTENDS ListPlaces, SequencesExt

CONSTANTS Limit,     \* the 30 of splice(30), and of the server's own lists
          MaxCurve,  \* progress of the bonding curve at graduation
          MaxToken   \* tokens are 1 .. MaxToken

ASSUMPTION ColumnAssumption == {Limit, MaxCurve, MaxToken} \subseteq Nat \ {0}

Token == 1..MaxToken
Update == [type: {"new", "update", "graduated"}, token: Token,
           curve: 0..MaxCurve, graduated: BOOLEAN]
InSoon == [token: Token, curve: 0..MaxCurve]
Column == [recent: Seq(Token), soon: Seq(InSoon), bonded: Seq(Token)]
NoTokens == [recent |-> <<>>, soon |-> <<>>, bonded |-> <<>>]

SoonTokens(soon) == [i \in DOMAIN soon |-> soon[i].token]

(* findIndex, then replace in place or push.  A replaced pool keeps its    *)
(* place in the order, so in "recent" and "bonded" nothing is to be seen.  *)
Upsert(seq, t) == IF Contains(seq, t) THEN seq ELSE Append(seq, t)

(* "Update or add if higher bonding curve": higher than the last of the    *)
(* list, which the code takes to be sorted.                                *)
Promote(soon, u) ==
  LET pool == [token |-> u.token, curve |-> u.curve]
      least == IF soon = <<>> THEN 0 ELSE Last(soon).curve
  IN IF Contains(SoonTokens(soon), u.token)
     THEN [i \in DOMAIN soon |-> IF soon[i].token = u.token THEN pool ELSE soon[i]]
     ELSE IF u.curve > least THEN Append(soon, pool) ELSE soon

Slip_GraduatedToo(soon, u) == Promote(soon, u)
SoonAfter(soon, u) == IF u.graduated THEN soon ELSE Promote(soon, u)

One(columns, u) ==
  CASE u.type = "new" ->
         [columns EXCEPT !.recent = Upsert(@, u.token), !.soon = SoonAfter(@, u)]
    [] u.type = "graduated" ->
         [recent |-> Kept(columns.recent, Token \ {u.token}),
          soon |-> Kept(columns.soon, {p \in InSoon : p.token # u.token}),
          bonded |-> Upsert(columns.bonded, u.token)]
    [] u.type = "update" -> [columns EXCEPT !.soon = SoonAfter(@, u)]

Cut(seq) == SubSeq(seq, 1, Min({Limit, Len(seq)}))

(* createPoolSorter, always descending; since[t] orders "bonded" by the    *)
(* createdAt of the graduated pool.                                        *)
Slip_RecentUnsorted(columns, since) ==
  [recent |-> Cut(columns.recent),
   soon |-> Cut(SortDesc(columns.soon, [p \in InSoon |-> p.curve])),
   bonded |-> Cut(SortDesc(columns.bonded, since))]
Tidy(columns, since) ==
  [recent |-> Cut(SortDesc(columns.recent, [t \in Token |-> t])),
   soon |-> Cut(SortDesc(columns.soon, [p \in InSoon |-> p.curve])),
   bonded |-> Cut(SortDesc(columns.bonded, since))]

(* The handler's loop: the columns after the first n updates of a batch.   *)
Patched(columns, batch) ==
  LET after[n \in 0..Len(batch)] ==
        IF n = 0 THEN columns ELSE One(after[n - 1], batch[n])
  IN after

Applied(columns, batch, since) == Tidy(Patched(columns, batch)[Len(batch)], since)
=============================================================================
