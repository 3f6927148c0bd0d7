# Therebelion in TLA+

Specifications of the token launch and liquidity exit program in this
repository: TLA+ modules, the TLC runs that check them on small instances, and
proofs that TLAPS checks for every value of the constants.

Paths are relative to the repository. `FL` stands for
`scaffolds/fun-launch/src`, `ST` for `studio/src`.

## 1. Inventory

The repository is a TypeScript monorepo: a Next.js front end with its API routes
(`FL`), a second copy of some routes (`pages/api`), and a command line
studio (`ST`). All durable state is on Solana; everything else lives in React
state, module-level caches, or the memory of one request.

| component | state it keeps | operations | talks to |
| --- | --- | --- | --- |
| Universal Exit executor `FL/hooks/useUniversalExit.ts` | React state `planning`, `running`, `items`; `abortRef`; per call: plan, refused rows, loop counters | `run`, `abort` | planner, wallet, RPC node |
| Universal Exit planner `FL/hooks/universalExitPlanner.ts` | none (one call) | discovery, builds, priority variants, ordering | `/api/dbc-discover`, `/api/dbc-exit`, `/api/dammv2-*`, cp-amm SDK |
| Adaptive signing `FL/hooks/signingUtils.ts` | none | batch signature, serial fallback | wallet |
| Instant exit `FL/hooks/useDbcInstantExit.ts` | `status`, `attempt`, `currentPriorityMicros`, `abortRef` | `exit`, `abort`, `reset` | `/api/dbc-exit`, wallet, RPC node |
| One-click batch `FL/components/DbcOneClickExitButton.tsx` | batch counters, abort flag | run over all pools | instant exit |
| Auto batch exit `FL/hooks/useDbcAutoBatchExit.ts` | as the executor, without variants | `run`, `abort` | `/api/dbc-discover`, `/api/dbc-exit`, wallet |
| DAMM v2 exit-all `FL/hooks/useDammV2ExitAll.ts`, `FL/app/api/dammv2-exit-all/route.ts` | `items`, `txs`, `running`, `abortFlag` | `run`, `abort`; route: skip rules and builds | wallet, RPC node |
| Pool context `FL/context/DbcPoolContext.tsx` | pool list, selection | refresh, grouping of positions | discovery |
| Live data `FL/contexts/DataStreamProvider.tsx` | socket, subscriptions, `shouldReconnect` | subscribe, message, reconnect | stream server |
| Explore list `FL/components/Explore/ExploreMsgHandler.tsx` | cached columns | new, graduated, update | live data |
| Chart bars `FL/contexts/TokenChartProvider.tsx`, `FL/contexts/TokenChart`, `FL/components/TokenChart` | last candle per token, shown token, unit, interval, load of marks | requests of the charting library, trades of the stream, buttons | live data, charting library |
| Launch `pages/api/dbc`, `FL/pages/create-pool.tsx`, `FL/app/api/send-transaction/route.ts` | none per request | upload, create, dev buy, send a list of transactions | wallet, RPC node, Jito |
| Unified exit build `pages/api/exit/build.ts`, `FL/server/dbc-exit-builder.ts` | discriminator cache, `process.env` | resolve, build, simulate | RPC node |
| Server adapters `FL/server/dbc-adapter.ts`, `FL/server/dammv2-adapter.ts` | none | send with retries and fresh blockhashes | RPC node |
| Studio DBC `ST/lib/dbc/index.ts` | on-chain pool and migration state | create, claim, swap, migrate (restartable) | RPC node |
| Studio Alpha Vault `ST/lib/alpha_vault` | Merkle tree, proof files | create vault, whitelist, proofs | RPC node, proof store |
| Studio DLMM / DAMM `ST/lib/dlmm`, `ST/lib/damm_v1`, `ST/lib/damm_v2` | on-chain positions | create a pool, seed, lock; split, claim, add, remove, close | RPC node |
| Studio sending `ST/helpers/transaction.ts`, `ST/actions/dbc/claim_leftovers.ts` | none | chunked sends, backoff, candidate entry points | RPC node |

What makes each correct, in short: an exit never reports what the chain does not
say, never pays twice for what is confirmed, can be stopped, always ends and frees
its button; a launch or a migration that stops half way can be run again; a
stream is subscribed to exactly what the page shows after any reconnect; the
pure algorithms (order, priority ladder, Merkle proofs, allocation) meet their
definition.

## 2. Plan

The order follows what a fault costs: money that is moved first, then launches and
migrations that stop half way, then what only misleads the page.

| | module | composes | state of the work |
| --- | --- | --- | --- |
| 1 | `ExitOrder`, `UniversalExit`, `ExitBoard` | order of the plan, the executor, the chain; what the executor promises | done, eight theorems, refinement proved for patient users |
| 2 | `Chain`, `DbcInstantExit` | hook, its three hosts, the chain | done, every safety property proved |
| 3 | `ListPlaces`, `ExitPlanner` | `ExitOrder`; delivers what `UniversalExit` assumes | done, every property proved |
| 4 | `DbcProgram`, `StudioDbc` | the commands and the on-chain program | done, every safety property proved |
| 5 | `DataStream`, `ExploreColumns`, `LiveData` | socket, columns (over `ListPlaces`), market, fetch | done, every safety property proved |
| 6 | `Programs`, `Calls`, `DammV2Positions`, `MerkleTree`, `VaultRollout`, `PoolSeeding`, `ClaimJobs`, `StudioTools` | the other studio commands on one chain; trees over `ListPlaces` | done, every safety property proved |
| 7 | `SitePages`, `DammExits`, `BatchClaims`, `ServerExits`, `PoolLaunch`, `PoolContext`, `ChartBars`, `SiteTools` | the other hooks and routes of the site, over the same `Calls` | done, every safety property proved |
| 8 | `UniversalExit_proofs`, `DbcInstantExit_proofs`, `ExitPlanner_proofs`, `StudioDbc_proofs`, `LiveData_proofs`, `StudioTools_proofs`, `SiteTools_proofs`, `ListFacts` | one per component, with its theorems; the lemmas on `ListPlaces` | see section 5 |

Every invariant and action property that a passing run checks is the conclusion of
a theorem; what is left to TLC is listed at the end of section 5.

The runs are few on purpose, one for a question: the studio's and the site's
parts each share one, because their calls meet on one chain and one page.

## 3. Modules and code

Conventions. An action is one synchronous stretch of a JavaScript function, from
the resumption of one `await` to the next: that is the only place where other
code runs. Its name is the event that resumes the function (`Confirmed`,
`SendFailed`) or the user's click (`Start`, `Abort`). A definition whose name
starts with `Slip_` is a plausible wrong version of the definition that follows
it; no specification uses it. It is there so that each property can be seen to
fail: with the slip in the place of the definition TLC reports the property.
Definitions are mapped to source lines in `PROJECT.json`.

### UniversalExit (with ExitOrder)

`FL/hooks/useUniversalExit.ts`. Per call of `run()`: where it waits (`pc`), what
discovery found, its plan, the refused indices, the loop counters. Shared: the
React state (`ui`), `abortRef`, and the chain (`sent`, `live`, `landed`,
`reverted`). `Start` is the guard and first stretch; `Discover`, `PlanReady`,
`PlanInvalid` the planner's answers; `SignedAll` the adaptive signature, which
refuses any subset of rows; `Signed`, `SignRefused`, `Sent`, `SendFailed`,
`Confirmed`, `ConfirmFailed` the awaits of an attempt; `GoOn` the way from a
finished row over refused rows to the next one or to `finally`; `Abort` the
button, which reaches only the newest controller. A transaction lands, reverts or
expires at any time, also after the program gave up on it.

`ExitOrder` is the vocabulary: claims, withdrawals, pools, and `IsPlan`, the
promise between planner and executor.

`ExitBoard` is what all this is for, without wallets, variants, signatures,
retries and aborts: a list in a safe order, worked off from the first row to the
last, where a row is called confirmed only if the chain executed something for
it. `Board` in `UniversalExit` reads the React state and the chain as such a
board, and `BoardIsKept` says that every step of the hook is one of the board's or
invisible on it, for users who wait for a call before they make the next.

### DbcInstantExit (with Chain)

`FL/hooks/useDbcInstantExit.ts` and the components that hold it:
`DbcOneClickExitButton` (one pool, or a loop over all pools with its counters) and
`TokenTable/TxTable` (rows that share one hook). `host` chooses the holder at the
start. One call is a sequence of attempts; each is an optional simulation, the
build request, wallet, send, the processed confirmation of fast mode, the
confirmation, and the pause before the next. `Rejected` is what the server does
to a request: a withdrawal is answered 501, and a priority that is no whole
number cannot be encoded.

### ExitPlanner

`FL/hooks/universalExitPlanner.ts`, one call, one action per await. The parts that
decide are computed as in the code: the fence of migrated pools, the wallet scan
that overrules the discovery, the three priorities (`Steps`, with the doubles of
JavaScript where they matter: `IsWholeUplift`) and the order (`Ordered`). Filters
and the order are given by places (`Kept`, `Lined` of `ListPlaces`): an entry
stands at the place with as many others before it. That is what `filter` and the
loops over `byPool` compute, and unlike a recursion over the list it can be
reasoned about.

### StudioDbc (with DbcProgram)

`ST/lib/dbc/index.ts`. A command is a process that keeps nothing: it reads facts
of the pool (`ReadPool`, `ReadMetadata`, `ReadLocker`, `ReadLp`), makes the list of
missing steps (`CreatePlan`, `FeePlan`, `MigrationPlan`, `LpPlan`) and sends them
one by one (`Send`, `Confirmed`, `ConfirmExpired`/`Retry`, `Finalized`) or only
simulates them (`Simulate`). `Fault` is any failed await and the end of the
process. `DbcProgram` is the program on chain, as the commands depend on it:
each step has what it needs, what it leaves, and can be done once or again.

### DataStream, ExploreColumns, LiveData

`DataStream` is `FL/contexts/DataStreamProvider.tsx` with the effects that use it:
the socket, the topics written down (`subs`), the topics the server was told
(`server`), and what each list shows. `Opened`, `Closed`, `Reconnect` are the
handlers of the socket, `Enter` and `Leave` the mount and the cleanups, `ShowIn` a
list's effect. `ExploreColumns` is the handler of the stream's messages: three
columns, `One` update at a time (`Patched` is the loop over a batch), then `Tidy`
sorts and cuts; filters and sorts are those of `ListPlaces`. `LiveData` puts the
two before a market: tokens are listed, traded and graduate; the stream tells
those who asked, in order; an answer to a fetch may be older than what the stream
has told since. `torn` and `shared` are history, read by properties only.

### StudioTools: Programs, Calls, DammV2Positions, VaultRollout, MerkleTree, PoolSeeding, ClaimJobs

The rest of the studio. `Programs` is external: a chain of facts, and transactions
that need, exclude, make and drop facts; it accepts a transaction exactly when it
could be executed, at the preflight and again when it lands. A fact is only as
fine as the code: a position's liquidity is units that are free, vested or
locked, a price is a number that moves. `Calls` is how every command runs: it
reads, sends a list of batches (`todo`; a `Promise.all` is one batch), waits for
each, catches or throws, and may be killed at any await with its transactions
still on the way. `after` in the input of an instance says which call is over
before another one starts; otherwise two calls are rivals.

- `DammV2Positions`, `ST/lib/damm_v2/index.ts`: split, claim, add, remove, close.
  What was read first decides what is sent last; `Trade`, `Mature` and rivals
  change it in between. Of the fee that a removal claims at once nothing is kept
  (`ReadButFee`): a trade may bring it back before the position is closed, and
  then the program refuses to close it.
- `VaultRollout` with `MerkleTree`, `ST/lib/alpha_vault`: create the vault, let the
  list in by escrows in chunks, or by roots whose proofs are written to files and
  uploaded. The tree is built as in `merkle_tree.ts` and verified as the program
  on chain does: the leaves are the entries in the order of their hashes, each once
  (`Ascending` of `ListPlaces`); layers, the walk up that collects a proof, and the
  hashing of a proof are recursive functions of the layer's number.
- `PoolSeeding`, `ST/lib/dlmm`, `ST/lib/damm_v1`, and the pools of `damm_v2`: make
  pools, seed them (initialisations at once, then deposits), lock shares that are
  rounded down, the rest going to the last; percentages that do not add up to
  something between 1 and 100 are refused.
- `ClaimJobs`, `ST/actions/dbc/claim_*.ts`: lists of mints, fallbacks, candidates,
  exit codes.

### SiteTools: SitePages, DammExits, BatchClaims, ServerExits, PoolLaunch, PoolContext, ChartBars

The rest of the site, through `Calls` as well. `SitePages` is what the hooks
share: rows, a busy flag, and an abort that a run sees as it was when it started
(`useDammV2ExitAll`) or as it is (`useDbcAutoBatchExit`). A row knows the position
or pool it is about, the run that listed it and the run that wrote its status;
the hooks find it by the index of a transaction. `DammExits` is
`useDammV2ExitAll`, its route, and the exits of one position or one LP balance;
`BatchClaims` the auto batch; `ServerExits` the sender of `dbc-adapter.ts`, which
tries again after every error, and the builders of `pages/api`; `PoolLaunch` the
form with its uploads, its two sends and the bundles.

`PoolContext` is the three hooks that scan a wallet's pools in an effect;
`Rendered` is when React runs the effect again. `ChartBars` is the last candle of
each token: requests answered late, trades merged in, another token, unit or
interval meanwhile, and the flag that guards the buttons of the marks. The
charting library asks whenever it likes. `SiteTools` lets two calls run on one
page and chain, or one of these two.

## 4. Runs

| run | asks | instance |
| --- | --- | --- |
| `exit_patient` | do rows agree with the chain, stay settled, and is each settled when the loop ends unstopped; do claims go first; is `ExitBoard` implemented | two calls one after the other, a claim and a withdrawal of one pool, two variants |
| `exit_overlap` | do the flags stay honest and calls end when calls overlap | two overlapping calls, a claim and a withdrawal, one variant, fairness |
| `exit_doc_confirmed` | is a confirmed withdrawal empty (EXIT_VERIFICATION) | one call, one withdrawal |
| `instant_hosts` | is the status honest in each host, is one exit alive at a time, is the link on chain | two calls, two pools, two attempts, all hosts and options |
| `instant_live` | does every call settle, and every batch that two calls suffice for end | two calls in a batch over two pools, fairness |
| `instant_doc_field` | is a calm network served in one attempt | one call, the route as shipped |
| `planner_order` | is every plan ordered, open, in the fence, with rising priorities | two claims and three withdrawals in two pools, every answer |
| `studio_rerun` | is a rerun exact: nothing forgotten, nothing twice, nothing refused without news | two calls of any two commands, three attempts, every pool |
| `studio_tools` | do the other commands do what they report, next to a rival and after a stop | pairs of commands on small chains (`MCInputs`), chunks of two, lists up to seven entries |
| `live_page` | is what is visible listened to, and do the columns show what arrived | two tokens, two lists, column length one, two updates under way |
| `site` | do rows, flags and answers of the other hooks and routes agree with the chain; do scans settle; are candles sound | pairs of hooks and routes on small chains; two wallets, three scans, three clicks; two tokens, two intervals, five moves |
| `exit_doc_percent` | is half of a position left when half is asked for | one exit of one position |

The longest, `site`, has a quarter of a million states and takes about three
minutes with two workers; `exit_patient` has more than a million.

All runs but the three `..._doc_...` ones hold. Those three each state a sentence
of the repository that the code contradicts:

- `exit_doc_confirmed`: the error in the answer of `confirmTransaction` is not
  read; a reverted withdrawal is shown as confirmed.
- `instant_doc_field`: the hook reads `tx`, the route answers `txBase64`; every
  attempt against the shipped route fails and escalates.
- `exit_doc_percent`: the liquidity, a BN, is multiplied by a plain number; bn.js
  throws, the catch keeps the full liquidity, and all of it is removed.

What the properties mean where it is not plain from their names:

- `RefusedOnlyForNews`, `PositionRefusedForNews`: a program refuses what a command
  sends only because something happened after the command had read the chain, never
  because of its own order or its own earlier steps.
- Where several facts are needed to trust one display or one report, a run checks
  them as one conjunction with named parts, and section 6 refers to the parts:
  `StatusIsHonest` is `BusyHasCall`, `SuccessLinkOnChain` and `BatchAccounts`;
  `PlanIsSound` contains `WithdrawalsAreOpen`; `ReturnedIsDone` contains
  `ReturnedMeansDone`; `ListeningIsRight` is `ShownIsHeard` and
  `NothingForNobody`; `ListsAreHonoured` is `ReturnedMeansLetIn`,
  `WholeListVerifies` and `LockedAsAllocated`; `ClaimsAreSound` is `ClaimedIsPaid`
  and `GreenMeansAllClaimed`. All of them but `ListsAreHonoured` also
  contain the type invariant of their module, and `ColumnsAreSound` adds to it that
  who graduated leaves the other columns (`GraduatedLeaves`).
- `ToldIsTrue`: a row says confirmed only if the transaction of that index, of the
  run that says so, was executed, or failed because what it needs is gone
  (`ConfirmedRowIsDone`). That transaction empties the row's own position, or claims
  the fee of its own pool, if the run listed the row itself and skipped no
  position. In the two cases left out the code confirms a wrong row: after a
  skipped position, and when an older run writes on the list of a newer one
  (section 6). The form reports a launch only if a node accepted each transaction
  (`ToldMeansAccepted`); accepted is less than "live", which the page says. No pool
  points to files that are not there (`PoolHasFiles`).
- `NoRowForgotten`: a call that leaves the loop over its rows without having been
  stopped has settled every row of the list shown. It says nothing of a call that
  never entered the loop because one transaction did not deserialize or wanted
  another signer: there every row stays pending, against the documents (section 6).
- `BatchEnds`: a batch ends, unless it waits for another call of `exit()` than the
  instance has (`OutOfCalls`: a pool is left to do and every call is done).
- `FlagsAreHonest`: running means that a call runs (`BusyMeansRun`), loading that a
  scan is under way (`LoadingMeansScan`), and buttons are dead only during a load of
  marks (`DeadButtonsMeanLoad`). `BarIsSound`: the last candle contains its prices
  (`BarIsWellFormed`) and is of one token (`BarOfItsToken`).
- `ExitBoard` (`BoardIsKept`): the rows of a plan are settled from the top down,
  each once; rows that were refused together fail together.
- `SuccessIsOneExit`: when the sender reports a success, exactly one of its
  attempts has left the pool.
- `QuietMeansSettled`, `RightInTheEnd`: whatever the order of answers, the page
  ends with the connected wallet's pools.

### Why the bounds are enough

- Two calls of `run()`: rows are written by index into the newest list, so an
  interference takes an old call and a new one. One claim and one withdrawal of
  one pool are the smallest plan with an order. Two variants give a first, a
  retry and a last attempt; the third is a further retry. In `exit_overlap` the
  questions are about flags and loops over rows, for which one variant suffices.
- The third overlapping call matters for one thing only: the controller of an
  older call that nobody stopped is then out of reach. It needs an impatient user
  and is the reason `RunningCanBeStopped` is stated for patient ones.
- Two pools make a batch that goes on after a failure, and two calls are enough to
  end it: only a batch started when a call was used up already may stay open. A
  table row guards only its own pool, which takes two pools to see. Two attempts
  give a retry.
- Five positions in two pools interleave in every order that the grouping could
  get wrong. The bases of the ladder are its ends, the first for which the steps
  rise, the documented and the page's default, and the last whose second step is
  not capped.
- Two commands are a rerun, or a rival. Three attempts make the code's five a
  first, a middle and a last one.
- `studio_tools` and `site` list their inputs instead of taking all pairs: a
  command next to each rival that writes what it reads, and behind each that
  leaves something half done. Three entries in chunks of two make a short last
  chunk; seven leaves make every odd layer of a tree. The allocation 50, 30, 20
  of five units rounds, and 60, 50 is refused. `Attempts = 2` of ten: a first and a last one, and
  late ones of both.
- `Scans = 3`, `Clicks = 3`: a scan of the old wallet that ends after one of the
  new one, with another click between. `Moves = 5`: candles, another token, a
  late answer and two messages. `MCMessage` has a message for each way a message
  can lie to a candle.
- Two tokens and columns of length one make every insertion push something out.
  Two updates under way give an old one overtaken by a fetch and a batch of two.
  Two lists may show the same pool.

### Fairness

`FairSpec` of the exit modules, the studio and the site gives weak fairness to the
steps of each call: a fetch fails or is answered, a confirmation ends with the block
height at the latest, timers fire, and the user answers an open wallet prompt.
The studio and the site add the chain, on which a blockhash lands or expires,
and the pages React's effects and the end of each scan. Nobody owes a click,
an abort, or that a transaction succeeds. In `LiveData` the timer of a
reconnection is weakly fair; opening is strongly fair, since an attempt may fail
any number of times but not for ever. Fetches, messages and the market are
owed nothing, and neither are the candles of the chart.

Deadlock checking is off where the system really stops: when the calls of an
instance are used up, or the planner has answered. It is on in the runs of
`UniversalExit` (the user can always press abort) and in `live_page`.

## 5. Proofs

Every theorem holds for every value of the constants that the named assumptions
allow: any number of calls, pools, positions, attempts, variants, tokens, and
any inputs. The safety properties the passing runs check are all proved.

| module | theorems | invariant |
| --- | --- | --- |
| `UniversalExit_proofs` | `TypeCorrect`, `BusyCorrect`, `AbortCorrect`, `ClaimsCorrect`, `StopCorrect`, `ConfirmedCorrect`, `RowsCorrect`, `BoardCorrect` | `TypeInv`, `BusyIsHonest`, `OrderInv`, `BoardInv` |
| `DbcInstantExit_proofs` | `StatusCorrect`, `OneCallCorrect`, `NothingAfterSuccessCorrect`, `AbortedCorrect` | `HonestInv` |
| `ExitPlanner_proofs` | `OrderCorrect`, `SelectionCorrect`, `LadderCorrect` | `PlanInv` |
| `StudioDbc_proofs` | `ReturnedCorrect`, `DryRunCorrect`, `SwapCorrect`, `RefusalCorrect` | `DbcInv` |
| `LiveData_proofs` | `ListeningCorrect`, `ColumnsCorrect`, `NewestCorrect` | `ListenInv`, `PageInv` |
| `StudioTools_proofs` | `StudioInvariant`, `TradedCorrect`, `ClaimsCorrect`, `AheadCorrect`, `RefusedCorrect`, `HonouredCorrect` | `StudioInv`, `NewsInv`, `HonourInv` |
| `SiteTools_proofs` | `QuietCorrect`, `BarCorrect`, `FlagsCorrect`, `ToldCorrect`, `OneExitCorrect` | `SiteInv`, `ToldInv`, `MuteInv` |
| `ListFacts` | the lemmas on `ListPlaces` and intervals that `ExitPlanner_proofs`, `LiveData_proofs` and `StudioTools_proofs` cite | |

### UniversalExit

`TypeOK` is not inductive: the row of a call has to exist when its attempt comes
back. `TypeInv` adds that a call that is executing stands on a row of its own
plan. `ResumedTypes` and the lemmas on rows (`RowsStayRows`,
`MarkedRowsAreRows`) carry the loop of `GoOn`. `BusyIsHonest` is inductive given
`TypeInv`. `OrderInv` adds that plans are ordered (`PlansOK`) and that whatever a
call has sent stands at or before its current row (`SentBehind`).

`StopCorrect`, `ConfirmedCorrect`, `RowsCorrect` and `BoardCorrect` assume
`PatientUser`, that is users who wait for a call before they make the next; without it TLC finds rows written by
the wrong call (section 6). `BoardInv` is `TypeInv`, who owns the page
(`Ownership`: one active call, whose controller is the newest and whose flags are
up), what the rows say (`Rows`: the list shown is the plan of the call, settled
exactly down to the row it works on, with the signature of its current
transaction), and the chain (`ChainOK`: what lands was sent). `NoRowForgotten` is
about one step, the one that leaves the loop: there "settled down to the row" has
become "settled" (`EndsSettled`, proved with `Rows` by `FinishesRows`). `BoardCorrect` is
the refinement: each action of the hook is mapped to the step of `ExitBoard` it
takes (`Start` clears, `PlanReady` shows, `Sent` asks, the end of a row settles it
with the refused ones behind it, the chain executes) or shown to be invisible on
the board.

### DbcInstantExit

`HonestInv` adds to the types where a call is in its loop (`LoopOK`), that in a
host without abort or reset a live call is alone and keeps the status busy
(`Alone`), that the signature on display is its current transaction (`Linked`),
and the counters of a batch. The action properties follow from it step by step.

### ExitPlanner

That `Ordered` is a permutation of its input, keeps pools together and puts claims
first would usually be an induction over the list. Here it is an argument about
places (`LinedUp` in `ListFacts`): `before` is a strict total order on the places of
a finite list, so the places before them have different numbers of elements, so
each number from nought to n-1 is taken once (`Lined` is a bijection). A filter
keeps the order (`KeptLine`) and a sort is ordered (`SortedSeq`) for the same
reason. `OrderCorrect` is what
`OrderInv` of the executor takes from its planner. `LadderCorrect` is arithmetic
about `Steps`: from a base of 2117 on no step is below the one before it.

### StudioDbc

`DbcInv` is `TypeOK`, `LedgerOK` (what is on its way or was executed belongs to the
repertoire of its call, which is no dry run; it rests on what is done and has
left what it makes), and `CallOK` of each call: its queue and places are those of
its command, what it has seen done is done, its queue holds nothing of that, is
`Founded` on the chain and on itself, and reaches the goal of the command
(`PlanOK`). Hence a rerun forgets nothing (`ReturnedCorrect`) and is refused only
when somebody else did the step meanwhile (`RefusalCorrect`). `SwapCorrect` counts
executed and late swaps together (`Paid`).

### LiveData

`ListenInv` says for the socket in every state of a reconnection what the server
was told, what it will be told by an effect that is due (`Needed`), and what
nothing is entitled to (`Allowed`).

`PageInv` adds the columns. They hold entries of listed tokens, each once, sorted
and no longer than they may be (`ColumnsOK`). That the newest tokens are shown
does not follow from the columns alone, since what is missing there may still
be under way. So `QueueOK` says in which order news travel: a token that is told
as bonding and later as graduated is told so in this order, and of two tokens
the one listed first is told first; and `FetchOK` says that an answer to a fetch
was true when it was sent. The handler of a batch is a recursion over the
messages (`Patched`); what holds after a part of the batch holds after one more
(`UpTo`, which is induction with a set in the place of the operator), and the
final cut takes only what is older than what it keeps (`TidyKeeps`).

### StudioTools

`StudioInv` is a conjunction of named parts. Of all calls: there is one price and
it stays shown to those who saw it (`PriceOK`, `TradedOK`), what is pending was
sent by its call and is what its command sends (`PendingOK`, `Sound`), an outcome
is heard once and by the call that awaits it (`FateOK`). Of each call: it is at a
place of its command (`PlaceOK`), its queue is what follows from there
(`QueueOK`), nothing of its own is on the way unless it is a claim job
(`OrderOK`), and a claim job works on one mint at a time and counts what it has
heard (`ClaimOK`). `NewsInv` is what `RefusedCorrect` adds for the position
commands: whatever their next transaction needs they have seen, and whatever
it excludes they have not, so that only news can make a program refuse it
(`Foreseen`). `AheadCorrect` says that no command is refused for want of what its
own transaction on the way would make.

What a transaction of any command may make or drop is part of `Sound` (`Mild`): none
takes away what later steps trust to stay (`Lasting`: escrows, roots, locks, payments),
none writes files or proofs (`Local`), and a root comes together with a note of what
it was made from.

`HonouredCorrect` is the theorem about whitelists and locks. Its invariant `HonourInv`
adds two things to `StudioInv`. `FactsOK`: every file, root and proof there is of a
numbered part of some call's list, and a root is there only with the note of its part.
`RolloutOK` and `LockOK`: how far a call has come (`Progress`). A rollout that is at
part `n` has the files before `n`, and the roots before `n` are there or are made by
what it still sends (`Coming`); one that uploads has put the proofs of every part
before its `round`, and the files it read cover the rest (`PutOK`); one that returned
has all of them; and a lock that returned sends what the balance it read is divided
into. Nothing of this is lost by what others do (`Stays`, `HonourRests`): with one list
in every run, another run writes the same files and puts the same proofs, and an existing
root, whoever made it, is of the same part (`RootThere`). From there it is data:

- `PartsCover` and `PartIsOne`: the parts of a list hold every entry, and none after
  the last holds any.
- `ProofVerifies`: for every finite set of entries and every entry of it, the proof that
  `getProof` collects hashes to the root, and no other entry hashes to it with that
  proof. Each turn of the walk keeps that the proof so far leads from the leaf to
  the element at `idx` of the layer it has reached (`ProofClimbs`); the layers shrink
  to one element (`TreeShape`); hashes of different things differ (`HashFacts`), so
  that two leaves never meet on one path (`HashedApart`).
- `AmountsAddUp`: amounts rounded down, with the rest for the last, add up to the
  balance, and none falls short of its share by a whole unit.

### SiteTools

`SiteInv` is a conjunction of three invariants that do not meet: `ContextInv` (no
wallet and no effect due means nothing shown; a wallet means that a scan is under
way which knows the selection, or the demo), `ChartInv` (each bar is of one token
and contains its prices; the load of marks and its flag go together) and `BusyInv`
(each call is at a place of its command, catches what it awaits there, and has
raised `busy` exactly from where it says so to where it lowers it).

`ToldInv` is what makes the pages truthful. It rests on how every step of a call is
shaped (`Shaped`: it moves its own call, sends at most the transaction it has built,
writes its own row) and on how the chain evolves whoever steps (`Evolves`: what
was uploaded or accepted stays, a position comes to be only by the call that is
ahead of it, LP balances shrink). A step is then the same to every other call
(`Silent`, `SilentKeeps`), and what is left is one argument for each command:

- `RunOK`, the loops over rows: what a transaction of a row needs is gone for
  good once it is gone (`GoneForGood`), so that a row which was `Settled` when it
  was called confirmed stays settled. If no position was skipped, the transactions
  of a run are in the order of its rows (`AllInOrder`: as many places in their order
  as there are rows are all of them), so that a row's own transaction has its index. That an emptied position is not opened again
  is `FreshOK`: a split creates its own position once, and before it sends anything.
- `LaunchOK`, the form: how far the form is says which files are stored and which
  transactions a node has accepted.
- `BulletOK`, the bulletproof sender: a call has not begun (`Unbegun`) or all of
  its attempts take the same whole balance (`Trying`). Either that balance has only
  shrunk and none of them was executed, or it is gone and exactly one was
  (`Balance`); no program gives LP back, so a late attempt cannot be a second exit.

`MuteInv` adds that no other command ever answers like the sender does.
`OneExitCorrect` follows from the two, `ToldCorrect` from `ToldInv` and the types in
`SiteInv`.

### Assumptions

The modules' own, named where the constants are declared: finite sets of
positions and pools with a pool for each position and claims that are no
withdrawals (`TasksAssumption`, `PoolsAssumption`); at least one variant,
attempt, candidate, chunk entry (`VariantsAssumption`, `AttemptsAssumption`,
`CandidatesAssumption`, `ChunkAssumption`); numbers that are numbers
(`SeedingAssumption`, `ScansAssumption`, `ChartAssumption`, `QueueAssumption`); what
a list may show are tokens (`ListingAssumption`); sentinels that are no
values (`SentinelAssumption`, `NoTxAssumption`, `PoolAssumption`,
`FencesAssumption`); base priorities between 0 and the cap (`BasesAssumption`);
hosts, options, networks and worlds of the kinds the code knows
(`HostsAssumption`, `OptionsAssumption`, `NetworkAssumption`, `WorldsAssumption`);
fresh key pairs for new positions and finitely many positions and mints
(`PositionAssumption`, `MintAssumption`); and the inputs of calls
(`InputsAssumption` of `StudioDbc`, `StudioTools` and `SiteTools`: commands that
exist, a pool with one price, no trade recorded before anybody traded, no file, root, proof
or lock of a rollout or lock before anybody made one, since each of its runs is a
call of its own; whitelists that are lists of numbers and, where they are put into
trees, not empty; and nothing there at first that the calls are going to make).
`LeavesAssumption` says that the size up to which TLC tries trees is a number. TLC
evaluates all of them in the runs.

What recursive definitions compute (batches of updates, layers and proofs of a tree,
sums) is proved although no theorem about a data type can take an operator as its
hypothesis: each of them is a function on an interval, and `UpTo` of `ListFacts` is
induction over an interval with a set in the place of the hypothesis.

### What stays with TLC

- Liveness, which needs fairness and ENABLED: `RunEnds`, `CallSettles`,
  `BatchEnds`, `CallEnds`, `CommandEnds`, `StreamComesBack`, `RequestEnds`,
  `RightInTheEnd`.
- The three documented sentences that the code contradicts.

## 6. What is not claimed

- Two calls of `run()` that overlap may write each other's rows, since rows are
  found by index on whatever list is shown; hence `exit_patient`. Pressing abort
  and then run is enough for it.
- A withdrawal whose confirmation timed out may land after its retry; the second
  then fails on chain. Rows are honest about the last transaction only.
- `OneCallAtATime` and `SuccessLinkOnChain` hold for the button as it uses the hook;
  rows of the table share one hook and may overlap, and so may calls after an
  abort. An aborted call may write its outcome over "Aborted".
- `ToldIsTrue` leaves out rows after a skipped position and rows of another run's
  list, see section 4 and the table below. The `finally` of an aborted batch lowers
  the flag of the one that runs: `FlagsAreHonest` is about raised flags only.
- Of a confirmation, the batch (`FL/hooks/useDbcAutoBatchExit.ts:168`) and the studio
  too read only that it arrived: the row of a claim that reverted says confirmed,
  and a command may return after a swap that reverted. `SwapOncePerCall` excepts a transaction that landed while
  its notification was missed: the retry swaps again. A dry run of a pool that
  is not migrated stops at the simulation of the migration when the metadata is
  missing.
- A pool shown by two columns at once is taken from both when it leaves one:
  `shared` excepts it from `ShownIsHeard`. After a reconnection the page leaves
  its socket open, with nothing asked for on it. News undone by an older answer
  to a fetch stays undone until the next one. Within one message a token may be
  left out of "Soon", since the least curve is read from a list that is sorted
  only at the end; its next update brings it in. Every update of the cache
  restarts the 30 seconds of the fetch, so no promise is made that one comes.
- A simulation of `useDammV2ExitAll` that found something leaves `running`
  raised: `BusyMeansRun` excepts it. The derived pools load for ever when the
  wallet disconnects during a scan (excepted from `LoadingMeansScan`), and a stale
  answer of `useDbcPoolDiscovery` may stay (excepted from `RightInTheEnd`). While
  a wallet has pools the context scans again and again; that is also what makes a
  stale answer of it go away.
- A candle may mix prices and market caps, or two intervals, from a click until
  the candles asked for arrive; and when two requests are answered in the wrong
  order, until the next request. `BarIsWellFormed` and `BarOfItsToken` hold
  meanwhile.
- A launch that failed may be tried again with a new mint although the first
  pool exists: each is whole, but there are two.

### Divergences between documents and code that have no run of their own

| where | the code | the document |
| --- | --- | --- |
| `FL/hooks/useUniversalExit.ts:154` | the next variant is signed after an abort | `README.md:419` |
| `FL/hooks/useUniversalExit.ts:63` | one transaction that does not deserialize, or wants another signer, throws before the loop: every row stays pending | `EXIT_VERIFICATION.md:159-164` "That row = error; others unaffected", `README.md:418` |
| `FL/hooks/useDammV2ExitAll.ts:140` | rows are found by the index of the transactions, which a skipped position shifts: the row of a position that was not emptied says confirmed | `README.md:557-563`: a status for each position |
| `FL/hooks/useDammV2ExitAll.ts:121` | the abort flag is that of the render the run came from: an abort stops nothing of it | its own check before each row |
| `FL/pages/create-pool.tsx:662-665` | shown when a node has accepted the transactions; whether they land is not asked | "Your token pool has been created and is now live" |
| `FL/app/api/build-swap/route.ts:27-34` | the developer's buy is a transfer of nothing to oneself, sent on its own | `FL/pages/create-pool.tsx:591` "We'll execute a buy immediately after your pool is created (bundled)." |
| `ST/lib/dlmm/index.ts:207` | `seedLfg` refuses a dry run only when there are accounts to prove; otherwise it sends | `studio/config/dlmm_config.jsonc:5` "If true, transactions will be simulated and not executed." |
| `ST/actions/dbc/claim_trading_fee_sdk.ts:198` | the claim by the SDK does not read `dryRun` and sends | `studio/config/dbc_config.jsonc:5`, the same sentence |
| `FL/hooks/useDbcInstantExit.ts:304` | the third default priority is 455625.00000000006 and cannot be encoded | `README.md:203` |
| `FL/hooks/universalExitPlanner.ts:345` | 750000 times 1.35 is 1012500.0000000001 and cannot be encoded | `README.md:435` |
| `ST/lib/damm_v2/index.ts:863` | the dry run of a split creates the second position | `studio/config/damm_v2_config.jsonc:5` |
| `FL/app/api/send-transaction/route.ts:48` | only the last transaction is confirmed | its own comment |
| `pages/api/exit/build.ts` | the compute price is set twice for DAMM v2, which a node refuses | |
| `FL/server/dbc-adapter.ts` | may answer a failure although a late attempt left the pool | "Guaranteed delivery with zero failure risk" |

### Not modelled

| part | why |
| --- | --- |
| creation fee, signer checks, launch services | instruction lists, bytes of one transaction, thin wrappers of an SDK: no state and one answer |
| user interface, charting library, icons | rendering; the library's calls are taken as arbitrary in `ChartBars` |
| build and release scripts | tooling around the program |
| thresholds, curves, quotes, bins | the SDKs compute them; models keep what the code decides on |
| `resolvePool`, `buildRemoveLiquidityIx` of `ST/lib/damm_v2`, the heuristic discoveries of the adapters | nothing in the repository calls them but pages that are modelled by their effect |
| `exit/plan`, `exit/execute`, `exit/withdraw`, `jito-bundle` | stubs |
| removal of table rows, saved preferences | display only |
