-------------------------------- MODULE Feed --------------------------------
(***************************************************************************)
(* How a trade reaches the page: the matching run commits it and adds it   *)
(* to the candlestick cache, /initialize deletes trades and fills the      *)
(* cache again, GET /info answers from both, and the page of               *)
(* webapp/frontend polls /info with the cursor of its last answer.  A step *)
(* is what happens between two awaits.                                     *)
(***************************************************************************)
EXTENDS Candles

CONSTANTS
    Grains,         \* the lengths of a candle (the code: 1, 60 and 3600 s)
    Window,         \* Window[g]: candles the page keeps of its first answer
    Base,           \* BASE_TIME: /initialize deletes what is not older
    Lookback,       \* Lookback[g]: /info without a cursor starts at Base - this
    Seeds,          \* tables a process may start on: sets of older trades
    Price,          \* Price[id]: what the matching run trades next at
    MaxTrades, MaxTime,     \* bounds of the ids and of the clock
    MaxEvents,      \* bound: calls of /initialize, restarts and reloads together
    Faults          \* the failures of the environment that may happen

TradeIds == 1..MaxTrades
Row == [id : TradeIds, at : 0..MaxTime, price : Nat]
FaultNames == {"deadlock", "settle_error", "commit_error", "info_error"}

ASSUME FeedAssumption ==
    /\ Grains \subseteq Nat \ {0} /\ Grains # {} /\ Price \in [TradeIds -> Nat]
    /\ MaxTrades \in Nat /\ MaxTime \in Nat /\ Base \in 0..MaxTime
    /\ Window \in [Grains -> Nat \ {0}] /\ Lookback \in [Grains -> 0..Base]
    /\ \A g \in Grains : Trunc(Base - Lookback[g], g) = Base - Lookback[g]
    /\ \A seed \in Seeds : /\ seed # {} /\ \A r \in seed : r \in Row /\ r.at < Base
                           /\ \A r, s \in seed : r.id = s.id => r = s
                           /\ \A r, s \in seed : r.id <= s.id => r.at <= s.at
    /\ Faults \subseteq FaultNames

VARIABLES
    table,      \* table trade, as committed
    linked,     \* the trades the page's user has an order in, as committed
    nextId,     \* AUTO_INCREMENT of table trade
    now,        \* the clock of the database, in seconds
    trader,     \* where commitReservedOrder is, and the row it inserted
    caches,     \* the candles of each grain
    init,       \* where POST /initialize is, and the rows it read
    info,       \* the /info the page waits for
    page,       \* the page: what the store holds
    \* history:
    added,      \* the trades the cache has been given since its last reset
    filled,     \* /initialize has filled the cache in this process
    overlap,    \* a trade met /initialize, or was cached and never committed
    split,      \* trades inserted outside a transaction
    events      \* calls of /initialize, restarts and reloads so far

dbVars == <<table, linked, nextId, now>>
serverVars == <<trader, caches, init, added, filled, overlap, split>>
vars == <<dbVars, serverVars, info, page, events>>

Ids(rows) == {r.id : r \in rows}
LatestId == Max(Ids(table))
NoRow == [id |-> 0]
NoTrader == [pc |-> "idle", auto |-> FALSE, row |-> NoRow]
NoInit == [pc |-> "idle", rows |-> {}]
NoInfo == [pc |-> "none"]
\* page: mode of the polling loop; the store's info (cursor 0: null) with its
\* charts; told: the traded orders it was sent; clean: no /initialize since load.
NewPage == [mode |-> "ready", cursor |-> 0, told |-> {}, clean |-> TRUE,
            chart |-> [g \in Grains |-> <<>>]]

Init ==
    /\ table \in Seeds /\ linked = Ids(table)
    /\ nextId = Max(Ids(table)) + 1
    /\ now = Base
    /\ trader = NoTrader /\ init = NoInit
    /\ caches = resetCacheTrade(Grains)
    /\ info = NoInfo /\ page = NewPage
    /\ added = {} /\ filled = FALSE /\ overlap = FALSE /\ split = {}
    /\ events = 0
-----------------------------------------------------------------------------
(* The matching run, from the INSERT of a trade to its COMMIT. *)

\* A deadlock swallowed by the loop over the targets has rolled the
\* transaction back: every statement then commits by itself.
TraderInsert(auto) ==
    LET row == [id |-> nextId, at |-> now, price |-> Price[nextId]]
    IN /\ trader.pc = "idle" /\ nextId \in TradeIds
       /\ auto => "deadlock" \in Faults
       /\ trader' = [pc |-> IF auto THEN "update" ELSE "bank", auto |-> auto, row |-> row]
       /\ nextId' = nextId + 1
       /\ table' = IF auto THEN table \cup {row} ELSE table
       /\ split' = IF auto THEN split \cup {row.id} ELSE split
       /\ UNCHANGED <<linked, now, caches, init, added, filled, overlap,
                      info, page, events>>

\* Only an UPDATE that commits by itself is seen before the COMMIT.
TraderUpdate ==
    /\ trader.pc = "update"
    /\ trader' = [trader EXCEPT !.pc = "bank"]
    /\ linked' = linked \cup {trader.row.id}
    /\ UNCHANGED <<table, nextId, now, caches, init, added, filled, overlap,
                   split, info, page, events>>

\* bank.commit has answered: addCacheTrade, before the COMMIT.
TraderSettle ==
    /\ trader.pc = "bank"
    /\ trader' = [trader EXCEPT !.pc = "commit"]
    /\ caches' = addCacheTrade(caches, trader.row)
    /\ added' = added \cup {trader.row}
    /\ overlap' = (overlap \/ init.pc # "idle")
    /\ UNCHANGED <<dbVars, init, filled, split, info, page, events>>

TraderCommit ==
    /\ trader.pc = "commit"
    /\ trader' = NoTrader
    /\ table' = IF trader.auto THEN table ELSE table \cup {trader.row}
    /\ linked' = IF trader.auto THEN linked ELSE linked \cup {trader.row.id}
    /\ overlap' = (overlap \/ init.pc # "idle")
    /\ UNCHANGED <<nextId, now, caches, init, added, filled, split, info, page, events>>

\* COMMIT fails and runTrade rolls back: the cache keeps the trade.
TraderCommitFails ==
    /\ trader.pc = "commit" /\ ~trader.auto /\ "commit_error" \in Faults
    /\ trader' = NoTrader
    /\ overlap' = TRUE
    /\ UNCHANGED <<dbVars, caches, init, added, filled, split, info, page, events>>

Tick == /\ now < MaxTime /\ now' = now + 1
        /\ UNCHANGED <<table, linked, nextId, serverVars, info, page, events>>
-----------------------------------------------------------------------------
(* POST /initialize. *)

\* The DELETE waits for the locks of an open transaction of the run.  The
\* user's orders are older than Base: they stay, with the trade_id they have.
InitDelete ==
    /\ init.pc = "idle" /\ events < MaxEvents
    /\ trader.pc = "idle" \/ trader.auto
    /\ init' = [NoInit EXCEPT !.pc = "deleted"]
    /\ table' = {r \in table : r.at < Base}
    /\ overlap' = (overlap \/ trader.pc # "idle")
    /\ events' = events + 1
    /\ UNCHANGED <<linked, nextId, now, trader, caches, added, filled, split,
                   info, page>>

Outdated ==
    [page EXCEPT !.clean = (page.clean /\ page.cursor = 0 /\ info = NoInfo)]

FillWithoutReset ==                 \* mutant: resetCacheTrade is forgotten
    /\ init.pc = "deleted"
    /\ init' = [init EXCEPT !.pc = "select"]
    /\ added' = {} /\ filled' = FALSE
    /\ page' = Outdated
    /\ UNCHANGED <<dbVars, trader, caches, overlap, split, info, events>>

InitReset ==
    /\ init.pc = "deleted"
    /\ init' = [init EXCEPT !.pc = "select"]
    /\ caches' = resetCacheTrade(Grains)
    /\ added' = {} /\ filled' = FALSE
    /\ page' = Outdated
    /\ UNCHANGED <<dbVars, trader, overlap, split, info, events>>

InitSelect ==
    /\ init.pc = "select"
    /\ init' = [pc |-> "fill", rows |-> table]
    /\ UNCHANGED <<dbVars, trader, caches, added, filled, overlap, split,
                   info, page, events>>

\* SELECT * FROM trade: the rows in the order of the primary key.
InOrder(rows) ==
    CHOOSE s \in [1..Cardinality(rows) -> rows] :
        \A i, j \in DOMAIN s : i < j => s[i].id < s[j].id
InitFill ==
    /\ init.pc = "fill"
    /\ init' = NoInit
    /\ caches' = FoldLeft(addCacheTrade, caches, InOrder(init.rows))
    /\ added' = added \cup init.rows
    /\ filled' = TRUE
    /\ UNCHANGED <<dbVars, trader, overlap, split, info, page, events>>

\* process.exit, after an error of bank.commit or at any other moment: the
\* open transaction is rolled back, the page's request fails.
Restart ==
    /\ \/ events < MaxEvents /\ events' = events + 1
       \/ trader.pc = "bank" /\ "settle_error" \in Faults /\ UNCHANGED events
    /\ trader' = NoTrader /\ init' = NoInit
    /\ caches' = resetCacheTrade(Grains) /\ added' = {} /\ filled' = FALSE
    /\ info' = NoInfo
    /\ page' = [page EXCEPT !.mode = IF info = NoInfo THEN @ ELSE "stopped",
                            !.clean = (@ /\ init.pc # "deleted")]
    /\ overlap' = (overlap \/ (trader.pc = "commit" /\ ~trader.auto))
    /\ UNCHANGED <<dbVars, split>>
-----------------------------------------------------------------------------
(* GET /info, statement by statement, and the page that waits for it. *)

Poll ==
    /\ page.mode = "ready"
    /\ page' = [page EXCEPT !.mode = "waiting"]
    /\ info' = [pc |-> "trade", since |-> -1, cursor |-> 0, orders |-> {}]
    /\ UNCHANGED <<dbVars, serverVars, events>>

\* getTradeById of the cursor: since is the time the charts start from, when
\* the trade is (still) there.
ReadCursorTrade ==
    LET row == {r \in table : r.id = page.cursor}
    IN /\ info.pc = "trade"
       /\ info' = [info EXCEPT !.pc = "latest",
                     !.since = IF row = {} THEN -1 ELSE (CHOOSE r \in row : TRUE).at]
       /\ UNCHANGED <<dbVars, serverVars, page, events>>

ReadLatest ==
    /\ info.pc = "latest"
    /\ info' = [info EXCEPT !.pc = "orders", !.cursor = LatestId]
    /\ UNCHANGED <<dbVars, serverVars, page, events>>

\* getOrdersByUserIdAndLasttradeid, with the cursor of the request.
OrdersPastAnswer ==                 \* mutant: the cursor of the answer
    /\ info.pc = "orders"
    /\ info' = [info EXCEPT !.pc = "charts",
                            !.orders = {i \in linked : i > info.cursor}]
    /\ UNCHANGED <<dbVars, serverVars, page, events>>
ReadOrders ==
    /\ info.pc = "orders"
    /\ info' = [info EXCEPT !.pc = "charts",
                            !.orders = {i \in linked : i > page.cursor}]
    /\ UNCHANGED <<dbVars, serverVars, page, events>>

LowerBound(g, since) ==
    LET floor == Base - Lookback[g]
    IN IF since > floor THEN Trunc(since, g) ELSE floor
Charts(since) == [g \in Grains |-> getCacheCandlestick(caches[g], LowerBound(g, since))]

PushAll(target, received) ==        \* mutant: known times are pushed again
    FoldLeft(LAMBDA chart, data : Tail(Append(chart, data)), target, received)

\* store.ts: a candle of a known time is dropped (the result of map is not
\* used), a new one is pushed and the oldest shifted out.
updateChartData(target, received) ==
    FoldLeft(LAMBDA chart, data :
               IF \E i \in DOMAIN chart : chart[i].t = data.t
               THEN chart ELSE Tail(Append(chart, data)),
             target, received)
Splice(chart, n) == SubSeq(chart, Max({1, Len(chart) - n + 1}), Len(chart))

\* The charts are read from the cache, the answer is sent and the page takes it.
Answer ==
    LET sent == Charts(info.since)
    IN /\ info.pc = "charts" /\ \A g \in Grains : caches[g].keys # <<>>
       /\ page' = [page EXCEPT
             !.mode = "ready", !.cursor = info.cursor, !.told = @ \cup info.orders,
             !.chart = [g \in Grains |-> IF page.cursor = 0
                                         THEN Splice(sent[g], Window[g])
                                         ELSE updateChartData(@[g], sent[g])]]
       /\ info' = NoInfo
       /\ UNCHANGED <<dbVars, serverVars, events>>

\* With no key in the cache getCacheCandlestick throws and nothing is sent.
NeverAnswered ==
    /\ info.pc = "charts" /\ \E g \in Grains : caches[g].keys = <<>>
    /\ info' = NoInfo
    /\ page' = [page EXCEPT !.mode = "hung"]
    /\ UNCHANGED <<dbVars, serverVars, events>>

\* A failed request: updateInfo throws before the setTimeout.
InfoFails ==
    /\ info # NoInfo /\ "info_error" \in Faults
    /\ info' = NoInfo
    /\ page' = [page EXCEPT !.mode = "stopped"]
    /\ UNCHANGED <<dbVars, serverVars, events>>

ReloadBehindRequest ==              \* mutant: the old request still answers
    /\ events < MaxEvents /\ events' = events + 1
    /\ page' = NewPage
    /\ UNCHANGED <<dbVars, serverVars, info>>
Reload ==
    /\ events < MaxEvents /\ events' = events + 1
    /\ info' = NoInfo /\ page' = NewPage
    /\ UNCHANGED <<dbVars, serverVars>>
-----------------------------------------------------------------------------
TraderStep == TraderUpdate \/ TraderSettle \/ TraderCommit \/ TraderCommitFails
InitStep == InitReset \/ InitSelect \/ InitFill
InfoStep == ReadCursorTrade \/ ReadLatest \/ ReadOrders \/ Answer \/ NeverAnswered

Next ==
    \/ \E auto \in BOOLEAN : TraderInsert(auto)
    \/ TraderStep \/ Tick
    \/ InitDelete \/ InitStep
    \/ Restart
    \/ Poll \/ InfoStep \/ InfoFails \/ Reload

Spec == Init /\ [][Next]_vars
-----------------------------------------------------------------------------
(* Properties. *)

\* Types, and what each step of a handler keeps.
TypeOK ==
    /\ table \subseteq Row /\ linked \subseteq TradeIds /\ split \subseteq TradeIds
    /\ nextId \in 1..MaxTrades + 1 /\ now \in Base..MaxTime
    /\ trader.pc \in {"idle", "update", "bank", "commit"} /\ trader.auto \in BOOLEAN
    /\ trader.row \in IF trader.pc = "idle" THEN {NoRow} ELSE Row
    /\ init.pc \in {"idle", "deleted", "select", "fill"} /\ init.rows \subseteq Row
    /\ info.pc \in {"none", "trade", "latest", "orders", "charts"}
    /\ page.mode \in {"ready", "waiting", "stopped", "hung"}
    /\ (page.mode = "waiting") = (info # NoInfo)
    /\ page.cursor \in 0..MaxTrades /\ page.told \subseteq TradeIds
    /\ added \subseteq Row /\ filled \in BOOLEAN /\ overlap \in BOOLEAN

\* The candles, built trade by trade in whatever order the matching run and
\* /initialize give them, are the GROUP BY of those trades, one key each.
CandlesSummarise ==
    \A g \in Grains :
      /\ IsInjective(caches[g].keys)
      /\ ToSet(caches[g].keys) = DOMAIN caches[g].sum
      /\ {Sent(caches[g].sum[k]) : k \in DOMAIN caches[g].sum}
           = getCandlesticData(added, g, 0)

\* Between trades, once /initialize has filled the cache and no trade met it,
\* /info sends for every time it may ask for what the query over the table
\* returns, in its order, after at most one older candle: the binary search
\* stops at the last key, never before the bound by more.
Ascending(chart) == \A i, j \in DOMAIN chart : i < j => chart[i].t < chart[j].t
Quiet == filled /\ ~overlap /\ trader.pc = "idle" /\ init.pc = "idle"
ChartMatchesTable ==
    Quiet => \A g \in Grains : \A since \in -1..MaxTime :
      LET chart == getCacheCandlestick(caches[g], LowerBound(g, since))
          rows == getCandlesticData(table, g, LowerBound(g, since))
      IN /\ Ascending(chart)
         /\ \/ ToSet(chart) = rows
            \/ rows = {} /\ Len(chart) = 1

\* The page's charts stay in the order of time, one candle each, although the
\* answers overlap and every new candle shifts the oldest out.  Excused: since
\* the page was loaded /initialize has run, or a trade was not what it seemed.
Excused == ~page.clean \/ overlap \/ init.pc = "deleted"
PageAscending == Excused \/ \A g \in Grains : Ascending(page.chart[g])

\* No candle on the page claims a trade that was not made: its range lies
\* within the range of the trades of its time, with the one that is settled
\* and about to be committed.
Settled == table \cup (IF trader.pc = "commit" THEN {trader.row} ELSE {})
PageWithinTable ==
    Excused \/ \A g \in Grains : \A i \in DOMAIN page.chart[g] :
      \E c \in getCandlesticData(Settled, g, 0) :
        /\ c.t = page.chart[g][i].t
        /\ c.l <= page.chart[g][i].l /\ page.chart[g][i].h <= c.h

\* Every traded order up to the page's cursor has been sent to it, unless its
\* trade was inserted outside a transaction: then the cursor may pass the
\* trade before the UPDATE that makes its orders traded.
MissedOnlyIfSplit ==
    \A i \in linked \ split : i <= page.cursor => i \in page.told
=============================================================================
