# TLA+ models of the ISUCOIN exchange

This directory specifies and verifies the chair exchange of this repository: the
nodejs server (`webapp/nodejs`), which keeps the order book in MySQL and matches
it, its page (`webapp/frontend`), the bank API it settles money at
(`blackbox/bank`), the client of the log API, and the queue of benchmark jobs of
the contest portal (`portal`) with the workers that serve it. All paths below are
relative to the root of the repository.

## 1. Inventory

| part | state | operations | modelled in |
|---|---|---|---|
| order handlers: `webapp/nodejs/index.ts` 275-350, `model/orders.ts` | tables `orders`, `user` and their locks; the connections' transactions | POST /orders, DELETE /order/:id | `Exchange` |
| matching run: `model/trades.ts` 240-470 | locals of `tryTrade` and of the nested `runTrade`s, `runningTrade`, tables `orders` and `trade`, reservations at the bank | `runTrade`, `tryTrade`, `reserveOrder`, `commitReservedOrder` | `Exchange`, its writes of trades also `Feed` |
| trade timer: `index.ts` 318-329 | `tradeQueue`, one `setTimeout`, a connection | start a run | `Exchange`, `Server` |
| bank client: `vendor/isubank.ts` | none | check, reserve, commit, cancel | `Exchange` over `IsuBank` |
| bank server: `blackbox/bank/main.go`, `blackbox/sql/isubank.sql` | tables `user` (with the cached `credit`), `credit`, `reserve`; snapshots; the clock | /add_credit, /check, /reserve, /commit, /cancel | `Bank`, `IsuBank` |
| candlestick cache: `model/trades.ts` 43-218 | three maps of candles with their keys | add a trade, reset, read from a time | `Candles`, `Feed` |
| /info and /initialize: `index.ts` 102-127, 183-259 | cursor, charts, traded orders | read; delete and fill again | `Feed`, `Server`, `Logs` |
| pool, middleware and the other handlers: `db.ts`, `index.ts`, `model/users.ts` | ten connections, who waits for one, sessions | every request, its COMMIT, answer, release, error | `Server` |
| page: `webapp/frontend/src` | charts merged from /info; the user, the list of orders | poll, merge, sign up, sign in, order, cancel | `Feed`, `Server` |
| log client and settings: `vendor/isulogger.ts`, `model/settings.ts` | a queue, a timer, a shared client; cached settings | enqueue, flush, read and write settings | `Logs` |
| portal's job queue: `portal/lib/ISUCON8/Portal/Model/Bench.pm`, `Web/Controller/Bench.pm` | tables `bench_queues`, `team_scores`, `all_scores` | enqueue, dequeue, done, abort, time out | `BenchQueue` |
| benchmark worker: `bench/src/bench/cmd/bench-worker` | the run under way, its result | poll, run, post three times | `BenchQueue` |
| log server; load generator; the rest of the portal; ports to go, perl, php, python, ruby; mock services, deployment | | | no (section 9) |

How they interact. A POST or a DELETE is one InnoDB transaction on a pooled
connection. POST asks the bank (`/check`) in the middle of its transaction, with
the user's row locked. 100 ms after the process starts the timer fires once; if
an order was posted by then it starts `runTrade` on its own connection. A run
reads the top of the book without locks, then, for each of two candidates, opens
a transaction, locks the candidate and its owner, reserves the candidate's money
at the bank, locks all orders of the other type that are open, locks the owner of
each target in turn and reserves its money, and, when the amounts add up exactly,
writes the trade, closes the orders, commits at the bank, adds the trade to the
candlestick cache, commits in the database, and calls itself. The bank runs
transactions of its own for each request, from this and from other applications.
The page polls /info with the id of the last trade it knows, merges the candles
it is sent, and reads its list of orders again when it is told of a trade. Every
handler logs through one shared client, which sends what has piled up each 200 ms.
/initialize deletes what is newer than a fixed time, fills the cache again, and
sets where bank and log service are. The portal is another program: teams put
jobs into its queue, and the worker of each benchmark host polls it, runs the
benchmark, and posts the result.

What is hard, in the order of weight:

1. Handlers lock user then order, the run locks orders then users. They deadlock.
   InnoDB picks a victim and rolls its *whole* transaction back; the loop over
   the targets catches the error and goes on, in autocommit mode. There its UPDATE
   may be the next victim, and that error ends the process.
2. Two systems commit one after the other (bank, then database) with no log to
   recover from; a call to the bank may fail after it was done.
3. `/commit` and `/cancel` look, lock, and look again; they lock one owner out of
   several; a SUM is read from a snapshot older than the locks.
4. Three roundings of time decide whether a reservation is alive.
5. Greedy matching has to reach the amount exactly, with a LIMIT on what it sees.
6. Three copies of the trades (table, cache, page) are updated by different
   programs at different times, one of them deleted and rebuilt while in use.
7. A connection is lost with each error no `try` surrounds; what a handler has
   committed stays when its answer is lost; each answer saves a session that may be
   older than the one it replaces.
8. The portal's handlers read without locks and write by id; workers die, answers
   are lost, results are posted again and late.
9. Settings are cached by answers that may be older than the change they meet.

Each hazard is listed at its line in `PROJECT.json`, with the properties that
would catch it going wrong.

## 2. The modules

`IsuBank` - what the bank promises: atomic reservations, commits and cancels, and
no reservation taking money that settled and reserved money do not cover. It is
the interface between the two detailed models: `Exchange` is written against it,
`Bank` is shown to implement it. One operation is outside that refinement: `Funded`,
the answer of /check, compares the sum of the ledger, where the server compares the
cached `user.credit` (`main.go:273-276`). The two are equal but for the race that
`bank_stale_credit` shows; /check changes nothing at the bank, and no property of
`Exchange` rests on its answer.

`Exchange` - the order book. Its variables are the tables as committed, the
holders of the row locks, one record per HTTP request in flight, and for the
trader the locals of `tryTrade` (`tr`) and the stack of `runTrade` frames
(`stack`). A step is what happens between two awaits: one statement or one bank
request. Correspondence:

| code | actions |
|---|---|
| `addOrder` in `transaction` | `PostOrder AddLockUser AddCheckOk AddCheckFails AddInsert AddRespond` |
| `deleteOrder`, `cancelOrder` | `RequestDelete DelLockUser DelNoOrder DelLockOrder DelCancel DelRefused` |
| error 1213 in a handler | `VictimRequest` |
| timer and `runTrade` | `TimerFires ReadLowest ReadHighest NextCandidate Return FinishRun` |
| `tryTrade` to the scan | `LockCandidate LockCandidateUser CandidateClosed ReserveCandidate ReserveCandidateFails ScanRow SelectTargets` |
| its loop | `ReadTarget LockTargetUser ReserveTarget ReserveTargetFails NoOrderForTrade` |
| `commitReservedOrder`, COMMIT | `InsertTrade UpdateLocksRow UpdateOrders CommitAtBank CommitTrade` |
| `finally` | `CancelReserves CancelAndThrow` |
| error 1213 in the run | `VictimCandidate VictimScan VictimTarget VictimUpdate` |
| failures | `CommitRefused CommitLost CancelFails Crash Restart Lapse`, and the faults of `AddCheckFails`, `ReserveFails` |

Locks. A `SELECT ... FOR UPDATE` waits for whoever holds the row (`Blockers`) and
takes it; a transaction gives all its rows back when it ends (`Release`). The
scan for targets uses the index `(type, closed_at)`: it locks every open row of
the type one after another, also those its price condition drops, and afterwards
the gaps of that range; an INSERT waits for that range and for the gap after the
newest row. A cycle of waits lets any member of it be the victim (`InDeadlock`):
which one InnoDB picks depends on its weights, so all are allowed. After
`VictimTarget`, `inTx` is false: each later statement is its own transaction, its
writes are final at once and its locks gone with the statement. The UPDATE is then a
transaction of its own: it locks its rows one after another (`UpdateLocksRow`), keeps
those it has while it waits for a DELETE, and can be the victim of a cycle of three:
the UPDATE, a DELETE that has a row and waits for its owner, and that owner's DELETE,
which waits for an earlier row. `VictimUpdate` is the `process.exit(1)` of
`trades.ts:390-393`: the trade stays without orders and nothing is cancelled. The
history variable `cutOff` names what a process that ends leaves so: the trade, if it
was between the INSERT and the UPDATE, and the reservations it had. `created_at` is taken
before the INSERT but orders of one process get ids in nearly that order; the
model orders by id.

`Bank` - the bank server. `/reserve` and `/add_credit` do all their work under
the lock of one row of `user`, and are one step. `/commit` and `/cancel` are
modelled by statement: `Arrive`, `Count` (which opens the snapshot; refused:
`CountRefused`), `LockRows` (or `AlreadyCommitted`), `LockFirstUser`,
`ApplyCredit` for each reservation, and the DELETE with the COMMIT
(`CommitReserves`, `CancelReserves`); `Victim` is error 1213. The reservations
are locked in the order of the primary key by a transaction that holds no other
lock, so one step for all of them loses no behaviour; gap locks on ids that are
gone end with the rollback that follows at once. Time counts half seconds:
`expire_at` is a DATETIME and is rounded, `NOW()` is truncated, and /reserve
compares with fractions. The clocks of server and database are taken as equal.
`/check` changes nothing; its answer is the variable `credit`.

`Candles` - the cache as pure operators, named as in the code, and the GROUP BY
of `getCandlesticData` as the reference. A candle's key is its truncated time; the
keys are a sequence in the order in which they came, and the binary search of
`findMinKeyPos` is a recursive function on pairs of positions (from 0: the code's -1).

`Feed` - extends `Candles` with everyone who touches them. A trade is written by
`TraderInsert TraderUpdate TraderSettle TraderCommit TraderCommitFails`, inside
its transaction or, after a swallowed deadlock, statement by statement (`auto`);
/initialize is `InitDelete InitReset InitSelect InitFill`; a page polls with
`Poll ReadCursorTrade ReadLatest ReadOrders Answer`, which ends in
`updateChartData` or the first `splice`; `NeverAnswered`, `InfoFails`, `Reload`,
`Restart`, `Tick`. The trades a process may start on (`Seeds`) have distinct ids in
the order of their times, as the 235,919 rows of `webapp/sql/z_initializedata.sql.gz`
do. History variables say what the cache was given (`added`),
whether a trade met /initialize (`overlap`) and which trades were inserted outside
a transaction (`split`).

`Server` - connections. A slot is one async function of the page, a chain of
requests; each goes through the middleware (`mw`, `mw_query`, if its session has a
user) and its handler (`wait`, `work`) and is delivered to the page. `Take` gives a
free connection to the head of the queue. A handler that writes commits (`Order`,
`Signup`, `Initialize` and, after it, `FillCache`) and answers (`Answer`) in steps of
their own: between them the process may end (`Restart`, which may also take answers
that are on their way), or the COMMIT's own answer is lost (`CommitAnswerLost`).
`Throws` is an error outside a `try`: the connection goes to `Lost` and the request is
never answered; when /initialize throws, its DELETEs may be committed and the cache is
empty or filled, according to the statement. express-session loads the session with the
request (`Send`) and saves it with the answer (`Answers`), over what others have saved
meanwhile. The handlers' data is reduced to what the page may see of it: `rev` counts
changes of the user's orders, `page.list` is the change the list on the page shows.
`Calls` says which of the `Chains` an instance makes.

`Logs` - `sendLog` from the event it tells to the log service. A value of a setting
is the number of the /initialize that gave it. `sendLog getSetting SettingRead
SettingFails` are the two reads with their cache, `Commit` the transaction that
awaits them or not, `Initialize setSetting setSettingFails` the writer, `Flush
Answered RequestFails` the timer and its overlapping requests.

`BenchQueue` - portal and workers. The reads of a handler are one step (they share
a snapshot and take no lock), its writes another: `EnqueueRead EnqueueInsert`,
`GetJob` (which reads what is overdue) `Sweep`, `DequeueRead DequeueUpdate` or
`NoJob`, `DoneRead DoneWrite`, `abort_job`, `PostNoFile`. `LoseAnswer` separates a
handler from its worker, `Forgets` is a worker that posts nothing. The worker says
`aborted=yes` where the portal reads `is_aborted`, so a killed run counts by its
file alone: whole, unreadable or missing (`RunEnds`). The queue's row for two jobs of
one second may come in either order (`created`).

`MCExchange MCBank MCFeed MCServer MCLogs MCBenchQueue` - the instances.
`ExchangeProofs BankProofs FeedProofs ServerProofs LogsProofs BenchProofs` - the
theorems about each; `PaymentProofs` builds on the first and follows the money of the
exchange; `SumTheorems` has the lemmas about finite sums that three of them cite.
Definitions marked `mutant` are plausible slips in the code (a missing
`FOR UPDATE`, a forgotten `finally`); `PROJECT.json` says which property notices
which.

## 3. Properties

`Exchange`, safety: `TradesBalanced` (a trade buys as many chairs as it sells and
at prices every owner asked for, or is the one whose UPDATE never came because its
process ended), `PaidExactlyOnce` (a traded order has exactly
one entry at the bank, of the right amount, and an order not traded has none),
`NoStrandedReserve` (a run leaves no reservation behind but those its process ended
with), `MoneyConserved`,
`OpenWhileInTransaction` (what the run will close is open and locked by it),
`OneTradePerOrder` (action property). `TradeSafety` is the inductive form of the
last two. Liveness: `RequestsAnswered`, `RunEnds`.

`Bank`, safety: `SettledOnce`, `RowsGuarded`, `CoveredUnlessLate` (settled money
covers what counts, unless a reservation that no longer counted was settled),
`CommitHonoured` (a commit is refused only for a reservation that is over or
used: `docs/ISUBANK_SPEC.md:43`). `ImplementsIsuBank` is the refinement.
Liveness: `RequestsAnswered`.

`Feed`: `CandlesSummarise` (the candles are the GROUP BY of what the cache was
given, in any order), `ChartMatchesTable` (what /info sends is what the query over
the table returns, for every time it may be asked from), `PageAscending` and
`PageWithinTable` (the merged charts stay in order and claim no price that was not
traded), `MissedOnlyIfSplit` (every traded order behind the page's cursor has been
told, but of a trade whose INSERT was not in a transaction).

`Server`: `ConnectionPerRequest` (a request at work has one connection until it is
answered, nobody else has any), `ListCurrent` (when all is quiet the page shows the
orders as they are), `AnsweredUnlessDrained` (liveness: as long as one connection is
neither lost nor the timer's, everybody is answered whose handler did not throw).
`QueueOfWaiters` is proved beside the first.

`Logs`: `LogsOnce`, `CommittedIsLogged`, `CacheFollowsTable`, `SentToCurrent`, and
`LogsEnd` (liveness).

`BenchQueue`: `OneJobUnlessTogether`, `NodeShared`, `RunOwned` (no sweep takes a job
from a worker that is at it), `ScoredIffDone`, and `JobsEnd` (liveness).

Several have an excuse in them: a history variable that names one kind of event (two
handlers between the same reads and writes, a result after the deadline, a trade during
/initialize, a read of a setting that meets its change, a process that ended half way).
Without it the property does not hold of this code; with it the run shows that, within
its bounds and the faults the model has, nothing else breaks the property. Where the
event is itself a hazard, the property does not catch that hazard, it bounds it:

 - two clicks or two workers at a time (`Bench.pm:17`) are the excuse `together` of
   `OneJobUnlessTogether` and `NodeShared`;
 - the read of a setting that meets its change (`settings.ts:29`, `:46`) is the excuse
   `overlap` of `CacheFollowsTable` and `SentToCurrent`;
 - a trade during /initialize (`index.ts:110`) is the excuse `overlap` of
   `ChartMatchesTable`, and in the history `added` of `CandlesSummarise`;
 - a process that ends in the autocommit UPDATE (`trades.ts:286`) is the excuse `cutOff`
   of `TradesBalanced` and `NoStrandedReserve`;
 - an order whose answer is lost after its COMMIT (`index.ts:288`) is in `upset`, an
   excuse of `ListCurrent`, with reads that failed, answers that crossed and orders that
   /initialize deleted.

## 4. Runs, bounds and why they are enough

| run | instance | shows |
|---|---|---|
| `exchange` | 2 clients, 2 users, 4 books, 4 orders, `LIMIT amount * 1` | the book, the trades and the bank agree, with every deadlock |
| `exchange_faults` | 2 clients, 2 users, 2 orders, every fault, 1 restart, fair | what survives failures; requests are answered, runs end |
| `bank` | 2 users, 2 clients, 3 reservations, 2 s | safety and the honoured commit, around the second of expiry |
| `bank_promise` | 3 users, 2 clients, 6 reservations, fair | refinement; deadlocks are broken |
| `feed` | 3 trades, candles of 1 s and 2 s, 3 s, 2 of /initialize, restart, reload, every fault | cache, table and page |
| `server` | 2 slots, 2 connections, 2 changes of the orders, an error at any statement, 1 restart | connections, the page's list |
| `server_live` | 2 slots, 2 connections, 1 change, an error at any statement, fair | answers |
| `logs` | 2 events, 1 /initialize, 1 restart, every fault, fair | logs and settings |
| `bench` | 2 teams on one machine, 2 handlers, 2 jobs, 2 hosts, 1 lost answer or crash, fair | the job queue |

Two clients and the run are enough for cycles of two and of three; two orders of
one type with one of the other are enough for a target lost to a DELETE. Among the
books are one where a run makes two trades, one it skips a target of, one whose scan is
cut, and one where a run that lost its transaction has two rows to lock while two DELETEs
have or want them: `LimitFactor` is 10 in the code, and 1 makes the limit bite
with a book of four. A lifetime of one second instead of 300 changes
nothing: only the fractions around its end matter. Three candles of one second are
enough for a search that looks at a middle, and a window of two for a chart that
shifts its oldest out; the seconds and the two-second candles share trades as
seconds and minutes do. Two connections are the least at which one can be lost, or be
kept by the timer, and the others still serve: with one the pool is drained at once, a
trade is never told while the timer runs, and both properties would hold for want of
cases. With two slots every connection can also be taken, so that requests queue. The
liveness run has no symmetry and makes four of the six chains (`FewCalls`): a read, an
order with its read, a sign-in with its read, and the /initialize that deletes the user;
the other two (sign-up, /signout) end in the same ways. Two logs are enough for a batch and for
two batches under way, one /initialize for a read that meets its change. Two jobs
and two handlers are enough for every pair of reads and writes; a third party adds
a repetition. `MaxOrders MaxId MaxDeposit MaxTime MaxRestarts MaxTrades MaxEvents
MaxRev MaxLogs MaxInits MaxJobs MaxFaults MaxProcs MaxTries` are the bounds; all
are guards of actions that add something. Clients are symmetric in the safety
runs; liveness runs use no symmetry. `CHECK_DEADLOCK FALSE` because a bounded
instance ends when its bounds are used up.

`exchange_faults` has two orders, a buy the sell can serve or one too large for it, so
that liveness is checked with both clients and every fault: each statement of one trade
meets each failure, each deadlock (that of the autocommit UPDATE with two DELETEs
included) and a process started again. The nested run it checks is the one after that
trade; runs of two trades are in `exchange`, and that `MoneyConserved` and
`TradesBalanced` survive every fault in any book is proved (section 7). It leaves out
`PaidExactlyOnce` and `NoStrandedReserve`: the first does not hold with a crash between
the bank's commit and the database's, the second not with a reservation whose answer is
lost, and nothing in the code tries to make them hold. `OneTradePerOrder` and
`OpenWhileInTransaction` are proved for every set of faults, and not run twice.

## 5. Where documents and code disagree

Three runs are expected to find a violation; each checks one sentence of a document.

| run | sentence | what the code does |
|---|---|---|
| `exchange_cancel_race` | `docs/WEBAPP_SPEC.md:145`, DELETE cancels the order | an order cancelled with answer 200 is traded afterwards: `trades.ts:365` swallows the deadlock that ended the transaction |
| `exchange_one_shot` | `docs/WEBAPP_SPEC.md:222`, trades as early as possible | `index.ts:319` is a `setTimeout`: one run per process |
| `bank_stale_credit` | `docs/ISUBANK_SPEC.md:21`, /check tells whether the user holds the amount | `modifyCredit` writes a sum of an old snapshot to `user.credit` |

`exchange_one_shot` runs under `FairSpec`: every step that can be taken is taken,
and orders that cross still stay.

Other disagreements are modelled as the code has them and have no run of their own:

 - `docs/WEBAPP_SPEC.md:246` cancels an order whose reservation fails: `trades.ts:253`
   tests for an error the client never throws (`ReserveFails`).
 - `docs/WEBAPP_SPEC.md:230` puts the earlier order first: `trades.ts:342` sorts equal
   buys latest first (`ScannedBefore`).
 - `docs/ISUBANK_SPEC.md:41` has /reserve secure the money: in the second of expiry
   /commit (`main.go:397`) accepts what /reserve no longer counts; this is the
   excuse in `CoveredUnlessLate`.
 - `docs/MANUAL.md:27` accepts no benchmark while one waits or runs: two clicks at a
   time are both accepted (`Bench.pm:25-39`, no lock); this is the excuse in
   `OneJobUnlessTogether`. The comment at `Bench.pm:114` promises the same of a
   machine; excuse of `NodeShared`.
 - `docs/MANUAL.md:159` allows no log to be missing: a failed request, a restart and
   an event that is not awaited lose logs (`LogsOnce` says where they go).
 - `store.ts:13` maps the known candle to the new one and drops the result: the last
   candle of the page is the one it was first sent (`updateChartData`). The page
   reads `low` (`Chart.vue:37`), the server sends `lower` (`trades.ts:43`).
 - After a restart /info is never answered until a trade or /initialize
   (`NeverAnswered`, `InfoOfColdCache`); /signout never is (`index.ts:179`).

## 6. Fairness

Strong fairness for each client's request and for the trader: Node's event loop
runs every continuation, MySQL and the bank answer, and InnoDB grants a row lock
in the order of the requests, so a waiter is not overtaken for ever although its
step is disabled again and again. Weak fairness for the timer. None for clients
(nobody has to post), for failures or for restarts. In `Bank`, strong fairness
for each request in progress, and none for the clock. In `Server`, weak fairness
of the pool (its queue is served in order), the timer, each handler and each
delivery; none for requests, for giving up on one, for the end of the matching
run or for a restart. In `Logs`, weak fairness of the timer, of answers and of statements. In
`BenchQueue`, weak fairness of the portal's handlers and of time, strong fairness of
a worker, which polls in an endless loop and needs a handler that is free again and
again; none for teams, lost answers and crashes. `Feed` has no liveness property:
its page stops after the first failure, and no document says otherwise.

## 7. Proofs

`tlapm` checks every leaf of the eight proof modules, with no assumption but those
on the constants (`ExchangeAssumption`, `BankAssumption`, `FeedAssumption`,
`ServerAssumption`, `LogsAssumption`, `BenchAssumption`: bounds are naturals, books,
deposits and trades have their types, markers like the trader differ from what they
mark; what is more is said below). The theorems hold for every set of users, clients,
slots, connections, teams and machines, every book, deposit, price and grain, and, but
for those that say otherwise, every set of faults.

*Sums and folds.* Money is a sum over a set of rows, by the community modules'
`SumFunction`. Their recursion runs over sets; `SumTheorems` shows once, from the
well-foundedness of inclusion among finite sets, that it has a solution
(`IteratesExist`) and only one (`IteratesAgree`), and derives what the proofs cite: the
sum is a number, grows by what is added, does not change under a renaming, splits over
a union (`SumInt SumAdd SumSame SumUnion SumRename`). The folds over sequences, of /initialize over
the trades it read and of the page over the candles it is sent, are taken apart in
the same way in `FeedProofs` (`FoldFrame`).

*Exchange.* `OpenWhileInTransaction` and `OneTradePerOrder` are not inductive.
The second holds even after a swallowed deadlock, when no lock is held any more:
what saves it is that only the trader sets `trade_id`, and that it read every
target as untraded in this very `tryTrade`. `TradeSafety` says this:

 - `RowsInv`: ids at or beyond `nextId` are free, a traded order is closed, and
   what the trader points at are rows;
 - `LockInv`: before the scan is over the trader is in its transaction; while it
   is, it holds the rows of the candidate, the targets and the rest of the scan,
   and they are open; a DELETE that has read its row holds it;
 - `TradeInv`: what is about to be traded is in no trade, locks or not.

`TypeOK /\ TradeSafety` is inductive (`ExchangeInvariant`): the proof has a lemma
per group of actions, first for the types (`StepType`), then for safety. The one
interference that matters is a DELETE closing an order the trader relies on; it
would need the row's lock, which `LockInv` gives to the trader, or the trader is
out of its transaction and only relies on `trade = 0`, which a DELETE keeps.
`ExchangeOneTradePerOrder` follows from the invariant and one step.

*Payments.* `PaymentSafety` relates what a run plans to what three tables say of it,
and is inductive with the invariant above, under every fault (`ExchangePayments`):

 - `PlanInv`: the targets are of the other type and cross the candidate, and their
   amounts with what is still to be found (`rest`) make up the candidate's;
 - `BankInv`: each entry of the bank has an owner and an id of its own, the settled
   ones add up to nothing, and what this run holds reserved adds up to what the rest
   still owes: with `rest = 0` to nothing, one reservation for each order, of its cost;
 - `RecordInv` and `BalanceInv`: the rows that carry a trade's id make up its amount on
   both sides at prices their owners asked for, or nobody carries it: the run is
   writing it outside a transaction, or a process ended there (`cutOff.trades`). The
   excuse is one trade at a time: it names the trade, not the fault.

`MoneyConserved` and `TradesBalanced` are parts of it. `ExchangePaidExactlyOnce` assumes
`CommitsMeet`: the bank does not refuse a commit, its answer is not lost, the process
does not crash between the two commits; each of these three breaks the property.
`PaidInv` adds where in between an order is: settled and not yet closed in the
transaction, or closed outside one and not yet settled. `ExchangeNoStrandedReserve`
assumes `NothingLost`, that no answer to /reserve is lost; then `StrandInv` holds: what
the bank has reserved is known to `tryTrade`, or was known to a process when it ended
(`cutOff.reserves`). Both hypotheses are about faults only: interleavings, deadlocks and
the exit after one, swallowed errors, lapses and failed cancels remain under both, lost
reservations under the first, refused commits and crashes under the second. The four
invariants were checked by TLC on the instance of `exchange` (1,273,772 states) and on its
books and offers with one client, every fault and a restart (2,846,039), `PaidInv` and
`StrandInv` on the first and, without the faults named, on the second (215,379 and
471,190).

*Bank.* `SettleInv` = `TablesOK`, `RowsGuarded`, `SettledOnce`, and `FreshInv`
(an id not given out was never used; the expiry of a reservation follows from
when it was made). `RowsGuarded` is what makes `SettledOnce` inductive: a request
that finishes removes rows that nobody else holds and that are still there.
`BankCommitHonoured` is an action property: a /commit that is turned down at its
COUNT finds a reservation gone or past its second of expiry, which by `FreshInv`
and the arithmetic of the roundings is past its life; one turned down after FOR
UPDATE finds a reservation gone; and one that waits for its rows is never a
deadlock's victim (`NoEarlyVictim`), since it holds no row another waits for.
`MoneyInv` = `SettleInv`, `TypeOK` and `BooksOK`: the tables are finite, and what was
posted is no longer reserved. `BankCoveredUnlessLate` is inductive with it: /reserve
adds what it has just compared with the sums; a commit moves entries from one sum to
the other, those that still counted without changing their total, those that did not
at the price of the excuse. A process may start with
reservations (`Starts`); `BankAssumption` has them covered, as /reserve sees to
(`Taken`). `BankImplementsIsuBank` maps every step: /reserve and the last step of a /commit or a
/cancel are the promised ones, all others stutter. It assumes `MaxTime <= 2 * TTL`, that
no reservation expires, and `Prices = {}`, no /add_credit: `IsuBank` has no clock
and a constant deposit, and after a late commit there is nothing it could have settled.
What holds without these bounds is `CoveredUnlessLate`.

*Feed.* Four invariants, each needing the one before. `FeedInv` relates ids: all that
is in a table, and the page's cursor, is older than the row of an open transaction
(`IdInv`), and the orders an answer carries are those the page will be behind on
(`ToldInv`, whence `FeedMissedOnlyIfSplit`). `CacheInv` says that a trade is known by
its id wherever it is, and that each cache holds the candles of the trades in `added`
(`CachesOf`): one key per time, with the prices of the least and the greatest id, the
least and the greatest price. One trade keeps this (`UpdateSumOf`), hence a fold of
them does, in whatever order they come: `FeedCandlesSummarise`. `OrderInv` is about the
time without `overlap`: ids are in the order of time (`AgeInv`; this needs the order of
`Seeds`), so keys come in ascending order (`KeysInv`), and the cache was given exactly
what is in the table (`GivenInv`). For `FeedChartMatchesTable` the recursive function of
the binary search is shown to exist and to find, on ascending keys, the first not
before the bound, or the last.

`PageInv` is what a page relies on between two answers, each chart being of fixed length
and each answer beginning where an old trade was. `MergeOf` is the lemma about
`updateChartData`: if every time the answer has within the span of the chart is known
to the chart, and every time of the chart from the answer's first on is in the answer,
then the result ascends and has every time of either from its first on. An answer that
begins within the chart is appended (`AppendOne`); one that begins before it has pushed
the whole chart out by the time its last candle is in (`ShiftOne`). `ChartKept` provides
the two premises: the chart has every time of the cache between its ends (`Span`), and
what the cache has after its end is not before the bound the next answer starts from,
neither that of the trade of the cursor nor the one a request under way has read
(`Ahead`). A trade that is settled keeps this since it is as new as all others that are
made (`Latest`). `FeedPageAscending` is a part of it; `FeedPageWithinTable` follows from the
candles being those of trades that are made (`SettledInv`, `Backed`). TLC checked the
four invariants on the instance of `feed` first (1,872,129 states).

*Server.* `PoolInv` = `TypeOK`, `ConnectionPerRequest`, `QueueOfWaiters` and `StageInv`
(a read has no stage between its work and its answer). Neither of the middle two is
inductive alone: a connection given to the head of the queue keeps
`ConnectionPerRequest` because the head waits and so has none, and a request that
goes on keeps `QueueOfWaiters` because one that works is not queued.
`ListCorrect` needs `ListInv`: what the page was told and shows is never newer than the
tables (`KnownInv`), and between a change of the orders and the read that shows it
somebody is on the way to read (`ReadInv`): a request that has made an order, answered
or not, whose answer the page follows with a read, or that read. A failure takes such a
request off that way; that it then counts in `upset` is what each of the steps that
end one (`CommitAnswerLost`, `Restart`, `DeliverFailure`) has to show. TLC checked it on
the instance of `server` (4,010,226 states).

*Logs.* `SettingInv` has two parts beside the types. As long as no read of a setting
met its change (`overlap`), whoever is between its miss and the answer of the table
reads a key that is not cached and will read what stands there (`Calm`): that makes
`CacheFollowsTable` inductive, and bounds from below the values a call carries by
the /initialize that was complete when it began, which gives `SentToCurrent`.
`OnceInv` says of every log where it is; that batches under way are disjoint and no
log is twice in one is what makes the count of `LogsOnce` inductive.

*BenchQueue.* Three layers. `TypesInv` adds to the types who serves whom: a worker
that waits for an answer has one handler (`Served`). `TableInv` adds what handlers
between read and write know: an insert under way means the team has no other job
unless two met (`Inserts`), a `take` means the job waits and its machine runs
nothing (`Takes`), a sweep names running jobs that were too old (`Sweeps`, in the
third layer). `RunsInv` relates ages: a run that started with its job is younger than
the deadline of a run, hence of the sweep (`Owns`), and a score under way belongs to
a job not yet scored (`Scores`). Each excuse enters as a team, machine or job in
`together` or `late`, which only grow.

Model-checked only: liveness, which is out of the prover's reach. Every invariant and
every action property that a passing run checks is a theorem.

## 8. Plan

Done: the exchange and the bank; the candles with the page; the pool with the
handlers; the log client; the portal's queue; their proofs as above. Every safety
property of the runs is proved; what stays with TLC is liveness.

The order is what moves money first, then what loses or shows data, then the
contest's tooling.

## 9. Not modelled

Lock wait timeouts of 50 s (no transaction waits that long in a run that makes
progress); the caches of the top of the book in `orders.ts`, which are written and
never read, both reads being commented out; requests with malformed values, which
end before the first statement or are rolled back with nothing written; `/register`
and `/initialize` of the bank; the log server, which appends; the load generator,
which is a client; the portal's teams, messages and dashboard, single statements;
the ports to other languages, of which this repository deploys none; configuration,
containers and layout. A restart is by an operator: the compose files have no
restart policy.

How much of the code this covers. Of the 10432 lines of JavaScript, TypeScript and
Vue in the repository some 7500 are third-party libraries kept in the tree
(`jquery.tablesorter.combined.js`, two copies of `Chart.Financial.js`, `sprintf.js`,
`strftime.js` and smaller ones) and about a thousand are templates, styles and
tests; what is left, the server and the logic of the page, is less than a quarter
of the whole. The bank, the portal and the worker, in Go and Perl, are modelled as
well.
