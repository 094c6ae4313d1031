----------------------------- MODULE FeedProofs -----------------------------
(***************************************************************************)
(* Theorems about the candlestick cache, /info and the page, for every set *)
(* of grains, every price, clock and number of trades.                     *)
(***************************************************************************)
EXTENDS Feed, SumTheorems

InfoPcs == {"trade", "latest", "orders", "charts"}
Trader == [pc : {"idle", "update", "bank", "commit"}, auto : BOOLEAN, row : Row \cup {NoRow}]
Asked == [pc : InfoPcs, since : -1..MaxTime, cursor : 0..MaxTrades, orders : SUBSET TradeIds]

\* The records of the handlers and of the page.
ShapeInv ==
    /\ trader \in Trader /\ (trader.pc = "idle" => trader = NoTrader)
    /\ trader.pc # "idle" => trader.row \in Row
    /\ trader.pc = "update" => trader.auto
    /\ init \in [pc : {"idle", "deleted", "select", "fill"}, rows : SUBSET Row]
    /\ info \in Asked \cup {NoInfo}
    /\ page = [mode |-> page.mode, cursor |-> page.cursor, told |-> page.told,
               clean |-> page.clean, chart |-> page.chart]
    /\ page.clean \in BOOLEAN /\ events \in Nat

\* Nothing in the tables or at the page is as new as the row of an open
\* transaction; the trades before Base stay.
Open == trader.pc # "idle" /\ ~trader.auto
Bound == IF Open THEN trader.row.id ELSE nextId
IdInv ==
    /\ \A r \in table : r.id < Bound
    /\ \A i \in linked : i < Bound
    /\ page.cursor < Bound
    /\ info.pc \in {"orders", "charts"} => info.cursor < Bound
    /\ trader.pc # "idle" => trader.row.id + 1 = nextId
    /\ \E r \in table : r.at < Base

\* What the answer under way will tell the page.
ToldInv ==
    /\ trader.pc # "idle" /\ trader.auto => trader.row.id \in split
    /\ info.pc = "charts" =>
         \A i \in linked \ split : page.cursor < i /\ i <= info.cursor => i \in info.orders
    /\ MissedOnlyIfSplit
FeedInv == TypeOK /\ ShapeInv /\ IdInv /\ ToldInv
-----------------------------------------------------------------------------
(* Sets of rows. *)

LEMMA TopExists ==
    ASSUME NEW S \in SUBSET Int, IsFiniteSet(S), S # {}
    PROVE  /\ Max(S) \in S /\ \A x \in S : Max(S) >= x
           /\ Min(S) \in S /\ \A x \in S : Min(S) <= x
<1> DEFINE G == {T \in SUBSET S : T = {} \/ \E x, y \in T : \A z \in T : x >= z /\ y <= z}
<1>1. {} \in G
  OBVIOUS
<1>2. ASSUME NEW T \in SUBSET S, T # {}, \A U \in SUBSET T : U # T => U \in G
      PROVE  T \in G
  <2> DEFINE e == Pick(T)
             U == T \ {e}
  <2>1. e \in T
    BY <1>2, PickIn
  <2>2. U \in G
    BY <1>2, <2>1
  <2>3. CASE U = {}
    <3>1. T = {e} /\ e \in Int
      BY <2>1, <2>3
    <3> HIDE DEF e
    <3>2. \A z \in T : e >= z /\ e <= z
      BY <3>1
    <3> QED
      BY <2>1, <3>2
  <2>4. CASE U # {}
    <3>1. PICK x \in U, y \in U : \A z \in U : x >= z /\ y <= z
      BY <2>2, <2>4
    <3> DEFINE hi == IF x >= e THEN x ELSE e
               lo == IF y <= e THEN y ELSE e
    <3>2. x \in Int /\ y \in Int /\ e \in Int /\ \A z \in T : z \in Int /\ (z = e \/ z \in U)
      BY <2>1, <3>1
    <3>3. hi \in T /\ lo \in T
      BY <2>1, <3>1
    <3> HIDE DEF e, U
    <3>4. \A z \in T : hi >= z /\ lo <= z
      BY <3>1, <3>2
    <3> QED
      BY <3>3, <3>4
  <2> QED
    BY <2>3, <2>4
<1>3. G = SUBSET S
  <2>1. G \in SUBSET (SUBSET S)
    OBVIOUS
  <2>2. \A T \in SUBSET S : T # {} /\ (\A U \in SUBSET T : U # T => U \in G) => T \in G
    BY <1>2
  <2> HIDE DEF G
  <2> QED
    BY <1>1, <2>1, <2>2, SetInduction
<1>4. \E x, y \in S : \A z \in S : x >= z /\ y <= z
  BY <1>3
<1> QED
  BY <1>4 DEF Max, Min

\* A table is finite: its ids are keys.
LEMMA IdsFinite ==
    ASSUME NEW rows \in SUBSET Row
    PROVE  IsFiniteSet(Ids(rows)) /\ Ids(rows) \subseteq TradeIds
<1>1. Ids(rows) \subseteq 1..MaxTrades
  BY DEF Ids, Row, TradeIds
<1>2. IsFiniteSet(1..MaxTrades)
  BY FeedAssumption, FS_Interval
<1> QED
  BY <1>1, <1>2, FS_Subset DEF TradeIds

LEMMA LatestIdIn ==
    ASSUME NEW rows \in SUBSET Row, rows # {}
    PROVE  /\ Max(Ids(rows)) \in Ids(rows) /\ Max(Ids(rows)) \in TradeIds
           /\ \A r \in rows : r.id <= Max(Ids(rows))
<1>1. IsFiniteSet(Ids(rows)) /\ Ids(rows) \subseteq TradeIds /\ Ids(rows) # {}
  BY IdsFinite DEF Ids
<1>2. TradeIds \subseteq Int
  BY FeedAssumption DEF TradeIds
<1>3. /\ Max(Ids(rows)) \in Ids(rows)
      /\ \A x \in Ids(rows) : Max(Ids(rows)) >= x
  BY <1>1, <1>2, TopExists
<1>4. \A r \in rows : r.id \in Ids(rows)
  BY DEF Ids
<1> QED
  BY <1>1, <1>2, <1>3, <1>4
-----------------------------------------------------------------------------
LEMMA InitFeed == Init => FeedInv
<1> SUFFICES ASSUME Init PROVE FeedInv
  OBVIOUS
<1>1. /\ table \in SUBSET Row /\ table # {} /\ \A r \in table : r.at < Base
      /\ MaxTrades \in Nat /\ MaxTime \in Nat /\ Base \in 0..MaxTime
  BY FeedAssumption DEF Init
<1>2. /\ Max(Ids(table)) \in 1..MaxTrades
      /\ \A r \in table : r.id \in 1..MaxTrades /\ r.id <= Max(Ids(table))
  BY <1>1, LatestIdIn DEF TradeIds, Row
<1>3. nextId \in 1..MaxTrades + 1 /\ nextId = Max(Ids(table)) + 1
  BY <1>1, <1>2 DEF Init
<1>4. linked \subseteq TradeIds /\ \A i \in linked : i <= Max(Ids(table))
  BY <1>1, <1>2, IdsFinite DEF Init, Ids
<1>5. page = NewPage /\ page.cursor = 0 /\ page.told = {} /\ page.mode = "ready"
  BY DEF Init, NewPage
<1>6. /\ trader = NoTrader /\ trader.pc = "idle" /\ trader.auto = FALSE /\ trader.row = NoRow
      /\ info = NoInfo /\ info.pc = "none" /\ init.pc = "idle" /\ init.rows = {}
  BY DEF Init, NoTrader, NoInfo, NoInit
<1>7. TypeOK
  <2>1. now \in Base..MaxTime
    BY <1>1 DEF Init
  <2>2. added = {} /\ filled = FALSE /\ overlap = FALSE /\ split = {}
    BY DEF Init
  <2>3. (page.mode = "waiting") = (info # NoInfo)
    BY <1>5, <1>6
  <2>4. page.cursor \in 0..MaxTrades /\ page.told \subseteq TradeIds
    BY <1>1, <1>5
  <2>5. trader.row \in IF trader.pc = "idle" THEN {NoRow} ELSE Row
    BY <1>6
  <2> QED
    BY <1>1, <1>3, <1>4, <1>5, <1>6, <2>1, <2>2, <2>3, <2>4, <2>5 DEF TypeOK
<1>8. ShapeInv
  <2>1. trader \in Trader
    BY <1>6 DEF Trader, NoTrader
  <2>2. init \in [pc : {"idle", "deleted", "select", "fill"}, rows : SUBSET Row]
    BY DEF Init, NoInit
  <2>3. events \in Nat
    BY DEF Init
  <2> QED
    BY <1>5, <1>6, <2>1, <2>2, <2>3 DEF ShapeInv, NewPage
<1>9. IdInv
  <2>1. Bound = Max(Ids(table)) + 1
    BY <1>3, <1>6 DEF Bound, Open
  <2>2. PICK r \in table : r.at < Base
    BY <1>1
  <2>3. \A s \in table : s.id < Bound
    BY <1>2, <2>1
  <2>4. \A i \in linked : i < Bound
    BY <1>2, <1>4, <2>1 DEF TradeIds
  <2>5. page.cursor < Bound
    BY <1>2, <1>5, <2>1
  <2> QED
    BY <1>6, <2>2, <2>3, <2>4, <2>5 DEF IdInv
<1>10. ToldInv
  <2>1. \A i \in linked : ~(i <= page.cursor)
    BY <1>4, <1>5 DEF TradeIds
  <2> QED
    BY <1>6, <2>1 DEF ToldInv, MissedOnlyIfSplit
<1> QED
  BY <1>7, <1>8, <1>9, <1>10 DEF FeedInv

-----------------------------------------------------------------------------
(* The steps. *)

LEMMA RecordUpdates ==
    /\ \A t \in Trader : \A pc \in {"idle", "update", "bank", "commit"} :
         /\ [t EXCEPT !.pc = pc] \in Trader
         /\ [t EXCEPT !.pc = pc].pc = pc /\ [t EXCEPT !.pc = pc].row = t.row
         /\ [t EXCEPT !.pc = pc].auto = t.auto
    /\ NoTrader \in Trader /\ NoTrader.pc = "idle" /\ NoTrader.row = NoRow
    /\ NoTrader.auto = FALSE
    /\ NoInit \in [pc : {"idle", "deleted", "select", "fill"}, rows : SUBSET Row]
    /\ NoInit.pc = "idle" /\ NoInit.rows = {} /\ NoInfo.pc = "none" /\ NoInfo \notin Asked
    /\ NewPage.mode = "ready" /\ NewPage.cursor = 0 /\ NewPage.told = {}
    /\ NewPage.clean = TRUE
<1>1. NoInfo \notin Asked
  BY DEF NoInfo, Asked, InfoPcs
<1> QED
  BY <1>1 DEF Trader, NoTrader, NoInit, NoInfo, NewPage

\* What a step of the trader has to see to.
TraderShape ==
    /\ trader \in Trader /\ (trader.pc = "idle" => trader = NoTrader)
    /\ trader.pc # "idle" => trader.row \in Row
    /\ trader.pc = "update" => trader.auto
TraderKeeps ==
    /\ table' \subseteq Row /\ linked' \subseteq TradeIds /\ split' \subseteq TradeIds
    /\ nextId' \in 1..MaxTrades + 1 /\ now' \in Base..MaxTime
    /\ added' \subseteq Row /\ overlap' \in BOOLEAN
    /\ UNCHANGED <<filled, init, info, page, events>>

LEMMA TraderFrame ==
    ASSUME FeedInv, TraderShape', TraderKeeps
    PROVE  TypeOK' /\ ShapeInv'
<1>1. trader'.pc \in {"idle", "update", "bank", "commit"} /\ trader'.auto \in BOOLEAN
  BY DEF TraderShape, Trader
<1>2. trader'.row \in IF trader'.pc = "idle" THEN {NoRow} ELSE Row
  BY RecordUpdates DEF TraderShape
<1>3. TypeOK'
  <2> USE DEF FeedInv, TypeOK, TraderKeeps
  <2>1. init'.pc \in {"idle", "deleted", "select", "fill"} /\ init'.rows \subseteq Row
    OBVIOUS
  <2>2. /\ info'.pc \in {"none", "trade", "latest", "orders", "charts"}
        /\ page'.mode \in {"ready", "waiting", "stopped", "hung"}
        /\ (page'.mode = "waiting") = (info' # NoInfo)
        /\ page'.cursor \in 0..MaxTrades /\ page'.told \subseteq TradeIds
    OBVIOUS
  <2> QED
    BY <1>1, <1>2, <2>1, <2>2
<1>4. ShapeInv'
  BY DEF FeedInv, ShapeInv, TraderShape, TraderKeeps
<1> QED
  BY <1>3, <1>4

LEMMA TraderTypes ==
    ASSUME FeedInv, \/ \E auto \in BOOLEAN : TraderInsert(auto)
                    \/ TraderStep \/ Tick
    PROVE  TypeOK' /\ ShapeInv'
<1> SUFFICES TraderShape' /\ TraderKeeps
  BY TraderFrame
<1>0. TraderShape
  BY DEF FeedInv, ShapeInv, TraderShape
<1>t. /\ table \subseteq Row /\ linked \subseteq TradeIds /\ split \subseteq TradeIds
      /\ nextId \in 1..MaxTrades + 1 /\ now \in Base..MaxTime
      /\ added \subseteq Row /\ overlap \in BOOLEAN
  BY DEF FeedInv, TypeOK
<1>1. ASSUME NEW auto \in BOOLEAN, TraderInsert(auto) PROVE TraderShape' /\ TraderKeeps
  <2> DEFINE row == [id |-> nextId, at |-> now, price |-> Price[nextId]]
  <2>1. row \in Row /\ nextId \in TradeIds /\ nextId + 1 \in 1..MaxTrades + 1
    <3>1. now \in 0..MaxTime /\ nextId \in 1..MaxTrades /\ MaxTrades \in Nat
      BY <1>1, <1>t, FeedAssumption DEF TraderInsert, TradeIds
    <3>2. Price[nextId] \in Nat
      BY <3>1, FeedAssumption DEF TradeIds
    <3> QED
      BY <3>1, <3>2 DEF Row, TradeIds
  <2>2. trader' = [pc |-> IF auto THEN "update" ELSE "bank", auto |-> auto, row |-> row]
    BY <1>1 DEF TraderInsert
  <2>3. /\ nextId' = nextId + 1 /\ table' \in {table, table \cup {row}}
        /\ split' \in {split, split \cup {nextId}}
        /\ UNCHANGED <<linked, now, caches, init, added, filled, overlap, info, page, events>>
    BY <1>1 DEF TraderInsert
  <2> HIDE DEF row
  <2>4. TraderShape'
    BY <2>1, <2>2 DEF TraderShape, Trader
  <2>5. TraderKeeps
    BY <1>t, <2>1, <2>3 DEF TraderKeeps
  <2> QED
    BY <2>4, <2>5
<1>2. CASE TraderUpdate
  <2>1. trader.row.id \in TradeIds /\ trader.pc = "update"
    BY <1>0, <1>2 DEF TraderUpdate, TraderShape, Row
  <2>2. TraderShape'
    BY <1>0, <1>2, <2>1, RecordUpdates DEF TraderUpdate, TraderShape
  <2>3. TraderKeeps
    BY <1>t, <1>2, <2>1 DEF TraderUpdate, TraderKeeps
  <2> QED
    BY <2>2, <2>3
<1>3. CASE TraderSettle
  <2>1. trader.row \in Row /\ trader.pc = "bank"
    BY <1>0, <1>3 DEF TraderSettle, TraderShape
  <2>2. TraderShape'
    BY <1>0, <1>3, <2>1, RecordUpdates DEF TraderSettle, TraderShape
  <2>3. TraderKeeps
    BY <1>t, <1>3, <2>1 DEF TraderSettle, TraderKeeps, dbVars
  <2> QED
    BY <2>2, <2>3
<1>4. CASE TraderCommit
  <2>1. trader.row.id \in TradeIds /\ trader.row \in Row
    BY <1>0, <1>4 DEF TraderCommit, TraderShape, Row
  <2>2. TraderShape'
    BY <1>4, RecordUpdates DEF TraderCommit, TraderShape
  <2>3. TraderKeeps
    BY <1>t, <1>4, <2>1 DEF TraderCommit, TraderKeeps
  <2> QED
    BY <2>2, <2>3
<1>5. CASE TraderCommitFails
  <2>1. TraderShape'
    BY <1>5, RecordUpdates DEF TraderCommitFails, TraderShape
  <2>2. TraderKeeps
    BY <1>t, <1>5 DEF TraderCommitFails, TraderKeeps, dbVars
  <2> QED
    BY <2>1, <2>2
<1>6. CASE Tick
  <2>1. now' \in Base..MaxTime
    BY <1>t, <1>6, FeedAssumption DEF Tick
  <2>2. TraderShape'
    BY <1>0, <1>6 DEF Tick, serverVars, TraderShape
  <2>3. TraderKeeps
    BY <1>t, <1>6, <2>1 DEF Tick, serverVars, TraderKeeps
  <2> QED
    BY <2>2, <2>3
<1> QED
  BY <1>1, <1>2, <1>3, <1>4, <1>5, <1>6 DEF TraderStep

LEMMA InitTypes ==
    ASSUME FeedInv, InitDelete \/ InitStep \/ Restart \/ Reload
    PROVE  TypeOK' /\ ShapeInv'
<1> USE RecordUpdates DEF FeedInv, TypeOK, ShapeInv
<1>1. CASE InitDelete
  <2>1. init' = [pc |-> "deleted", rows |-> {}]
    BY <1>1 DEF InitDelete, NoInit
  <2>2. init' \in [pc : {"idle", "deleted", "select", "fill"}, rows : SUBSET Row]
        /\ init'.pc = "deleted" /\ init'.rows = {}
    BY <2>1
  <2>3. /\ table' \subseteq table /\ overlap' \in BOOLEAN /\ events' = events + 1
        /\ UNCHANGED <<linked, nextId, now, trader, caches, added, filled, split, info, page>>
    BY <1>1 DEF InitDelete
  <2>4. TypeOK'
    BY <2>2, <2>3
  <2>5. ShapeInv'
    BY <2>2, <2>3
  <2> QED
    BY <2>4, <2>5
<1>2. CASE InitReset
  <2>1. init' \in [pc : {"idle", "deleted", "select", "fill"}, rows : SUBSET Row]
    BY <1>2 DEF InitReset
  <2>2. /\ page'.mode = page.mode /\ page'.cursor = page.cursor /\ page'.told = page.told
        /\ page'.chart = page.chart /\ page'.clean \in BOOLEAN
        /\ page' = [mode |-> page'.mode, cursor |-> page'.cursor, told |-> page'.told,
                    clean |-> page'.clean, chart |-> page'.chart]
    BY <1>2 DEF InitReset, Outdated
  <2>3. /\ UNCHANGED <<table, linked, nextId, now, trader, overlap, split, info, events>>
        /\ added' = {} /\ filled' = FALSE
    BY <1>2 DEF InitReset, dbVars
  <2>4. (page'.mode = "waiting") = (info' # NoInfo)
    BY <2>2, <2>3
  <2>5. ShapeInv'
    BY <2>1, <2>2, <2>3
  <2> QED
    BY <2>1, <2>2, <2>3, <2>4, <2>5
<1>3. CASE InitSelect
  <2>1. /\ init' \in [pc : {"idle", "deleted", "select", "fill"}, rows : SUBSET Row]
        /\ init'.pc = "fill" /\ init'.rows = table
    BY <1>3 DEF InitSelect
  <2> QED
    BY <1>3, <2>1 DEF InitSelect, dbVars
<1>4. CASE InitFill
  BY <1>4 DEF InitFill, dbVars
<1>5. CASE Restart
  <2>1. /\ page'.cursor = page.cursor /\ page'.told = page.told
        /\ page'.chart = page.chart /\ page'.clean \in BOOLEAN
        /\ page'.mode = IF info = NoInfo THEN page.mode ELSE "stopped"
        /\ page' = [mode |-> page'.mode, cursor |-> page'.cursor, told |-> page'.told,
                    clean |-> page'.clean, chart |-> page'.chart]
    BY <1>5 DEF Restart
  <2>2. events' \in Nat
    BY <1>5 DEF Restart
  <2>3. (page'.mode = "waiting") = (info' # NoInfo)
    BY <1>5, <2>1 DEF Restart
  <2>4. page'.mode \in {"ready", "waiting", "stopped", "hung"}
    BY <2>1
  <2>5. overlap' \in BOOLEAN
    BY <1>5 DEF Restart
  <2> QED
    BY <1>5, <2>1, <2>2, <2>3, <2>4, <2>5 DEF Restart, dbVars
<1>6. CASE Reload
  <2>1. page' = NewPage /\ info' = NoInfo /\ events' = events + 1
        /\ UNCHANGED <<dbVars, serverVars>>
    BY <1>6 DEF Reload
  <2>2. NewPage = [mode |-> NewPage.mode, cursor |-> NewPage.cursor, told |-> NewPage.told,
                   clean |-> NewPage.clean, chart |-> NewPage.chart]
    BY DEF NewPage
  <2>3. 0 \in 0..MaxTrades
    BY FeedAssumption
  <2>4. /\ page'.mode = "ready" /\ page'.cursor = 0 /\ page'.told = {}
        /\ page'.clean = TRUE
        /\ page' = [mode |-> page'.mode, cursor |-> page'.cursor, told |-> page'.told,
                    clean |-> page'.clean, chart |-> page'.chart]
    BY <2>1, <2>2
  <2>5. UNCHANGED <<table, linked, nextId, now, trader, init, added, filled, overlap, split>>
    BY <2>1 DEF dbVars, serverVars
  <2>6. (page'.mode = "waiting") = (info' # NoInfo)
    BY <2>1, <2>4
  <2>7. ShapeInv'
    <3>1. info' = NoInfo /\ events' \in Nat
      BY <2>1
    <3> QED
      BY <2>4, <2>5, <3>1
  <2> QED
    BY <2>1, <2>3, <2>4, <2>5, <2>6, <2>7
<1> QED
  BY <1>1, <1>2, <1>3, <1>4, <1>5, <1>6 DEF InitStep

\* An answer to the statement of the cursor: a time of the table, or none.
LEMMA SinceType ==
    ASSUME FeedInv
    PROVE  LET row == {r \in table : r.id = page.cursor}
           IN  (IF row = {} THEN -1 ELSE (CHOOSE r \in row : TRUE).at) \in -1..MaxTime
<1> DEFINE row == {r \in table : r.id = page.cursor}
<1>1. ASSUME row # {} PROVE (CHOOSE r \in row : TRUE) \in Row
  <2>1. row \subseteq Row
    BY DEF FeedInv, TypeOK
  <2> HIDE DEF row
  <2> QED
    BY <1>1, <2>1
<1> HIDE DEF row
<1>2. ASSUME row # {} PROVE (CHOOSE r \in row : TRUE).at \in 0..MaxTime
  BY <1>1, <1>2 DEF Row
<1>3. MaxTime \in Nat
  BY FeedAssumption
<1>4. (IF row = {} THEN -1 ELSE (CHOOSE r \in row : TRUE).at) \in -1..MaxTime
  BY <1>2, <1>3
<1> QED
  BY <1>4 DEF row

LEMMA AskedUpdates ==
    ASSUME NEW q \in Asked, NEW pc \in InfoPcs
    PROVE  /\ \A n \in -1..MaxTime :
                LET r == [q EXCEPT !.pc = pc, !.since = n]
                IN  r \in Asked /\ r.pc = pc /\ r.since = n /\ r.cursor = q.cursor
                    /\ r.orders = q.orders
           /\ \A n \in 0..MaxTrades :
                LET r == [q EXCEPT !.pc = pc, !.cursor = n]
                IN  r \in Asked /\ r.pc = pc /\ r.since = q.since /\ r.cursor = n
                    /\ r.orders = q.orders
           /\ \A o \in SUBSET TradeIds :
                LET r == [q EXCEPT !.pc = pc, !.orders = o]
                IN  r \in Asked /\ r.pc = pc /\ r.since = q.since /\ r.cursor = q.cursor
                    /\ r.orders = o
  BY DEF Asked

LEMMA InfoTypes ==
    ASSUME FeedInv, Poll \/ InfoStep \/ InfoFails
    PROVE  TypeOK' /\ ShapeInv'
<1> USE RecordUpdates DEF FeedInv, TypeOK, ShapeInv, dbVars, serverVars
<1>0. ASSUME info.pc \in InfoPcs PROVE info \in Asked
  BY <1>0 DEF InfoPcs
<1>1. CASE Poll
  <2>1. 0 \in 0..MaxTrades /\ -1 \in -1..MaxTime
    BY FeedAssumption
  <2>2. info' \in Asked /\ info'.pc = "trade"
    BY <1>1, <2>1 DEF Poll, Asked, InfoPcs
  <2>3. /\ page'.mode = "waiting" /\ page'.cursor = page.cursor /\ page'.told = page.told
        /\ page'.clean = page.clean
        /\ page' = [mode |-> page'.mode, cursor |-> page'.cursor, told |-> page'.told,
                    clean |-> page'.clean, chart |-> page'.chart]
    BY <1>1 DEF Poll
  <2>4. (page'.mode = "waiting") = (info' # NoInfo)
    BY <2>2, <2>3
  <2> QED
    BY <1>1, <2>2, <2>3, <2>4 DEF Poll, InfoPcs, Asked
<1>2. ASSUME UNCHANGED <<dbVars, serverVars, page, events>>, info \in Asked, info' \in Asked
      PROVE  TypeOK' /\ ShapeInv'
  BY <1>2 DEF InfoPcs, Asked
<1>3. CASE ReadCursorTrade
  <2>1. info \in Asked /\ "latest" \in InfoPcs
    BY <1>0, <1>3 DEF ReadCursorTrade, InfoPcs
  <2>2. info' \in Asked
    <3> DEFINE row == {r \in table : r.id = page.cursor}
               since == IF row = {} THEN -1 ELSE (CHOOSE r \in row : TRUE).at
    <3>1. since \in -1..MaxTime
      BY SinceType
    <3>2. info' = [info EXCEPT !.pc = "latest", !.since = since]
      BY <1>3 DEF ReadCursorTrade
    <3>3. \A n \in -1..MaxTime : [info EXCEPT !.pc = "latest", !.since = n] \in Asked
      BY ONLY <2>1, AskedUpdates
    <3> HIDE DEF since
    <3> QED
      BY ONLY <3>1, <3>2, <3>3
  <2> QED
    BY <1>2, <1>3, <2>1, <2>2 DEF ReadCursorTrade
<1>4. CASE ReadLatest
  <2>1. info \in Asked /\ "orders" \in InfoPcs
    BY <1>0, <1>4 DEF ReadLatest, InfoPcs
  <2>2. LatestId \in 0..MaxTrades
    <3>1. table # {} /\ MaxTrades \in Nat
      BY FeedAssumption DEF IdInv
    <3> QED
      BY <3>1, LatestIdIn DEF LatestId, TradeIds
  <2>3. info' \in Asked
    <3>1. info' = [info EXCEPT !.pc = "orders", !.cursor = LatestId]
      BY <1>4 DEF ReadLatest
    <3>2. \A n \in 0..MaxTrades : [info EXCEPT !.pc = "orders", !.cursor = n] \in Asked
      BY ONLY <2>1, AskedUpdates
    <3> QED
      BY ONLY <2>2, <3>1, <3>2
  <2> QED
    BY <1>2, <1>4, <2>1, <2>3 DEF ReadLatest
<1>5. CASE ReadOrders
  <2>1. info \in Asked /\ "charts" \in InfoPcs
    BY <1>0, <1>5 DEF ReadOrders, InfoPcs
  <2>2. {i \in linked : i > page.cursor} \in SUBSET TradeIds
    OBVIOUS
  <2>3. info' \in Asked
    <3>1. info' = [info EXCEPT !.pc = "charts", !.orders = {i \in linked : i > page.cursor}]
      BY <1>5 DEF ReadOrders
    <3>2. \A o \in SUBSET TradeIds : [info EXCEPT !.pc = "charts", !.orders = o] \in Asked
      BY ONLY <2>1, AskedUpdates
    <3> QED
      BY ONLY <2>2, <3>1, <3>2
  <2> QED
    BY <1>2, <1>5, <2>1, <2>3 DEF ReadOrders
<1>6. CASE Answer
  <2>1. info \in Asked
    BY <1>0, <1>6 DEF Answer, InfoPcs
  <2>2. info.cursor \in 0..MaxTrades /\ info.orders \subseteq TradeIds
    BY <2>1 DEF Asked
  <2>3. /\ page'.mode = "ready" /\ page'.cursor = info.cursor
        /\ page'.told = page.told \cup info.orders /\ page'.clean = page.clean
        /\ page' = [mode |-> page'.mode, cursor |-> page'.cursor, told |-> page'.told,
                    clean |-> page'.clean, chart |-> page'.chart]
    BY <1>6 DEF Answer
  <2>4. info' = NoInfo /\ UNCHANGED <<dbVars, serverVars, events>>
    BY <1>6 DEF Answer
  <2> QED
    BY <2>2, <2>3, <2>4
<1>7. CASE NeverAnswered \/ InfoFails
  <2>1. /\ page'.mode \in {"hung", "stopped"} /\ page'.cursor = page.cursor
        /\ page'.told = page.told /\ page'.clean = page.clean
        /\ page' = [mode |-> page'.mode, cursor |-> page'.cursor, told |-> page'.told,
                    clean |-> page'.clean, chart |-> page'.chart]
    BY <1>7 DEF NeverAnswered, InfoFails
  <2>2. info' = NoInfo /\ UNCHANGED <<dbVars, serverVars, events>>
    BY <1>7 DEF NeverAnswered, InfoFails
  <2> QED
    BY <2>1, <2>2
<1> QED
  BY <1>1, <1>3, <1>4, <1>5, <1>6, <1>7 DEF InfoStep

\* The ids: what an open transaction has inserted is newer than all that others see.
LEMMA StepIds ==
    ASSUME FeedInv, TypeOK', ShapeInv', [Next]_vars
    PROVE  IdInv' /\ Bound <= Bound'
<1> USE RecordUpdates DEF FeedInv, IdInv, Bound, Open
<1>1. /\ nextId \in Nat /\ page.cursor \in Nat /\ table \subseteq Row
      /\ \A r \in Row : r.id \in Nat
      /\ linked \subseteq Nat /\ (trader.pc # "idle" => trader.row \in Row)
      /\ trader.auto \in BOOLEAN
      /\ (info.pc \in {"orders", "charts"} => info.cursor \in Nat)
      /\ MaxTrades \in Nat
  <2>1. MaxTrades \in Nat /\ \A r \in Row : r.id \in Nat
    BY FeedAssumption DEF Row, TradeIds
  <2>2. /\ nextId \in Nat /\ page.cursor \in Nat /\ table \subseteq Row /\ linked \subseteq Nat
        /\ trader.auto \in BOOLEAN
    BY <2>1 DEF TypeOK, TradeIds
  <2>3. info.pc \in {"orders", "charts"} => info.cursor \in Nat
    BY <2>1 DEF ShapeInv, Asked
  <2> QED
    BY <2>1, <2>2, <2>3 DEF ShapeInv
<1>2. Bound \in Nat
  BY <1>1
<1>3. ASSUME NEW auto \in BOOLEAN, TraderInsert(auto) PROVE IdInv' /\ Bound <= Bound'
  <2> DEFINE row == [id |-> nextId, at |-> now, price |-> Price[nextId]]
  <2>1. /\ trader'.pc # "idle" /\ trader'.auto = auto /\ trader'.row = row /\ row.id = nextId
        /\ nextId' = nextId + 1 /\ trader.pc = "idle"
        /\ table' = IF auto THEN table \cup {row} ELSE table
        /\ UNCHANGED <<linked, info, page>>
    BY <1>3 DEF TraderInsert
  <2> HIDE DEF row
  <2>2. Bound = nextId /\ Bound' = IF auto THEN nextId + 1 ELSE nextId
    BY <2>1
  <2>3. \A r \in table' : r.id < Bound'
    BY <1>1, <2>1, <2>2
  <2>4. \E r \in table' : r.at < Base
    BY <2>1
  <2> QED
    BY <1>1, <2>1, <2>2, <2>3, <2>4
<1>4. CASE TraderUpdate \/ TraderSettle
  <2>1. /\ trader'.pc # "idle" /\ trader'.auto = trader.auto /\ trader'.row = trader.row
        /\ trader.pc # "idle" /\ UNCHANGED <<table, nextId, info, page>>
        /\ (linked' = linked \/ (trader.pc = "update" /\ linked' = linked \cup {trader.row.id}))
    <3>1. CASE TraderUpdate
      BY <3>1 DEF TraderUpdate, ShapeInv
    <3>2. CASE TraderSettle
      BY <3>2 DEF TraderSettle, ShapeInv, dbVars
    <3> QED
      BY <1>4, <3>1, <3>2
  <2>2. trader.pc = "update" => trader.auto
    BY DEF ShapeInv
  <2> QED
    BY <1>1, <2>1, <2>2
<1>5. CASE TraderCommit
  <2>1. /\ trader'.pc = "idle" /\ trader.pc # "idle"
        /\ \A r \in table' : r \in table \/ r = trader.row
        /\ \A i \in linked' : i \in linked \/ i = trader.row.id
        /\ table \subseteq table' /\ UNCHANGED <<nextId, info, page>>
    BY <1>5 DEF TraderCommit
  <2>2. Bound' = nextId /\ trader.row.id < nextId /\ Bound <= nextId
    BY <1>1, <2>1
  <2> QED
    BY <1>1, <1>2, <2>1, <2>2
<1>6. ASSUME UNCHANGED <<linked, nextId>>, trader' \in {trader, NoTrader},
             table' \subseteq table, \A r \in table : r.at < Base => r \in table',
             page'.cursor \in {0, page.cursor} \/ (page'.cursor = info.cursor
                                                   /\ info.pc \in {"orders", "charts"}),
             info'.pc \in {"orders", "charts"} => info'.cursor = info.cursor
                                                   /\ info.pc \in {"orders", "charts"}
      PROVE  IdInv' /\ Bound <= Bound'
  <2>1. Bound <= Bound'
    BY <1>1, <1>6
  <2>2. Bound' \in Nat /\ 0 < Bound
    BY <1>1, <1>2, <1>6
  <2> QED
    BY <1>1, <1>2, <1>6, <2>1, <2>2
<1>7. CASE TraderCommitFails \/ Tick \/ UNCHANGED vars
  <2>1. UNCHANGED <<table, linked, nextId, info, page>> /\ trader' \in {trader, NoTrader}
    BY <1>7 DEF TraderCommitFails, Tick, vars, dbVars, serverVars
  <2> QED
    BY <1>6, <2>1
<1>8. CASE InitDelete \/ InitStep
  <2>1. /\ UNCHANGED <<linked, nextId, info, trader>> /\ page'.cursor = page.cursor
        /\ table' \subseteq table /\ \A r \in table : r.at < Base => r \in table'
    BY <1>8 DEF InitDelete, InitStep, InitReset, InitSelect, InitFill, Outdated, dbVars, ShapeInv
  <2> QED
    BY <1>6, <2>1
<1>9. CASE Restart \/ Reload
  <2>1. /\ UNCHANGED <<linked, nextId, table>> /\ trader' \in {trader, NoTrader}
        /\ info' = NoInfo /\ page'.cursor \in {0, page.cursor}
    <3>1. CASE Restart
      BY <3>1 DEF Restart, dbVars, ShapeInv
    <3>2. CASE Reload
      BY <3>2 DEF Reload, dbVars, serverVars, NewPage
    <3> QED
      BY <1>9, <3>1, <3>2
  <2> QED
    BY <1>6, <2>1
<1>10. CASE Poll \/ ReadCursorTrade \/ ReadOrders \/ NeverAnswered \/ InfoFails
  <2>1. UNCHANGED <<linked, nextId, table, trader>> /\ page'.cursor = page.cursor
    BY <1>10 DEF Poll, ReadCursorTrade, ReadOrders, NeverAnswered, InfoFails, dbVars,
                 serverVars, ShapeInv
  <2>2. info'.pc \in {"orders", "charts"} => /\ info'.cursor = info.cursor
                                             /\ info.pc \in {"orders", "charts"}
    <3>1. CASE ReadOrders
      <4>1. info \in Asked /\ {i \in linked : i > page.cursor} \in SUBSET TradeIds
        BY <3>1 DEF ReadOrders, ShapeInv, TypeOK
      <4> QED
        BY <3>1, <4>1 DEF ReadOrders, Asked
    <3>2. CASE ReadCursorTrade
      <4>1. info \in Asked
        BY <3>2 DEF ReadCursorTrade, ShapeInv
      <4>2. info'.pc = "latest"
        BY <3>2, <4>1 DEF ReadCursorTrade, Asked
      <4> QED
        BY <4>2
    <3>3. CASE Poll
      BY <3>3 DEF Poll
    <3>4. CASE NeverAnswered \/ InfoFails
      BY <3>4 DEF NeverAnswered, InfoFails
    <3> QED
      BY <1>10, <3>1, <3>2, <3>3, <3>4
  <2> QED
    BY <1>6, <2>1, <2>2
<1>11. CASE Answer
  <2>1. /\ UNCHANGED <<linked, nextId, table, trader>> /\ page'.cursor = info.cursor
        /\ info.pc = "charts" /\ info' = NoInfo
    BY <1>11 DEF Answer, dbVars, serverVars, ShapeInv
  <2> QED
    BY <1>6, <2>1
<1>12. CASE ReadLatest
  <2>1. UNCHANGED <<linked, nextId, table, trader, page>> /\ info'.cursor = LatestId
    BY <1>12, AskedUpdates DEF ReadLatest, dbVars, serverVars, ShapeInv, Asked
  <2>2. \E r \in table : r.id = LatestId
    <3>1. table \in SUBSET Row /\ table # {}
      BY <1>1
    <3>2. LatestId \in Ids(table)
      BY <3>1, LatestIdIn DEF LatestId
    <3> QED
      BY <3>2 DEF Ids
  <2>3. LatestId < Bound
    BY <2>2
  <2> QED
    BY <1>2, <2>1, <2>3
<1> QED
  BY <1>3, <1>4, <1>5, <1>7, <1>8, <1>9, <1>10, <1>11, <1>12
     DEF Next, TraderStep, InfoStep
\* What the page has been told: an id that becomes traded is either newer than
\* the cursor of the answer under way, or split.
LEMMA StepTold ==
    ASSUME FeedInv, TypeOK', ShapeInv', IdInv', [Next]_vars
    PROVE  ToldInv'
<1> USE RecordUpdates DEF FeedInv, ToldInv, MissedOnlyIfSplit
<1>1. /\ page.cursor \in Nat /\ \A r \in Row : r.id \in Nat
      /\ linked \subseteq Nat /\ (trader.pc # "idle" => trader.row \in Row)
      /\ (info.pc \in {"orders", "charts"} => info.cursor \in Nat)
  <2>1. MaxTrades \in Nat /\ \A r \in Row : r.id \in Nat
    BY FeedAssumption DEF Row, TradeIds
  <2>2. page.cursor \in Nat /\ linked \subseteq Nat
    BY <2>1 DEF TypeOK, TradeIds
  <2>3. info.pc \in {"orders", "charts"} => info.cursor \in Nat
    BY <2>1 DEF ShapeInv, Asked
  <2> QED
    BY <2>1, <2>2, <2>3 DEF ShapeInv
<1>2. ASSUME NEW auto \in BOOLEAN, TraderInsert(auto) PROVE ToldInv'
  <2>1. /\ trader'.auto = auto /\ trader'.row.id = nextId /\ split \subseteq split'
        /\ (auto => nextId \in split') /\ UNCHANGED <<linked, info, page>>
    BY <1>2 DEF TraderInsert
  <2> QED
    BY <2>1
<1>3. CASE TraderUpdate
  <2>1. /\ trader'.auto = trader.auto /\ trader'.row = trader.row /\ trader.pc = "update"
        /\ linked' = linked \cup {trader.row.id} /\ UNCHANGED <<split, info, page>>
    BY <1>3 DEF TraderUpdate, ShapeInv
  <2>2. trader.row.id \in split
    BY <2>1 DEF ShapeInv
  <2>3. linked' \ split' = linked \ split
    BY <2>1, <2>2
  <2> QED
    BY <2>1, <2>2, <2>3
<1>4. CASE TraderCommit
  <2>1. /\ trader'.pc = "idle" /\ trader.pc # "idle" /\ UNCHANGED <<split, info, page>>
        /\ linked' = IF trader.auto THEN linked ELSE linked \cup {trader.row.id}
    BY <1>4 DEF TraderCommit
  <2>2. ~trader.auto => /\ page.cursor < trader.row.id
                        /\ info.pc = "charts" => info.cursor < trader.row.id
    BY <2>1 DEF IdInv, Bound, Open
  <2>3. trader.row.id \in Nat
    BY <1>1, <2>1
  <2> QED
    BY <1>1, <2>1, <2>2, <2>3
<1>5. CASE TraderSettle \/ TraderCommitFails \/ Tick \/ UNCHANGED vars
  <2>1. /\ UNCHANGED <<linked, split, info, page>>
        /\ trader'.pc = "idle" \/ (/\ trader'.row = trader.row /\ trader'.auto = trader.auto
                                   /\ trader.pc # "idle")
    <3>1. CASE TraderSettle
      BY <3>1 DEF TraderSettle, dbVars, ShapeInv
    <3>2. CASE TraderCommitFails
      BY <3>2 DEF TraderCommitFails, dbVars
    <3>3. CASE Tick \/ UNCHANGED vars
      BY <3>3 DEF Tick, vars, dbVars, serverVars, ShapeInv
    <3> QED
      BY <1>5, <3>1, <3>2, <3>3
  <2> QED
    BY <2>1
<1>6. CASE InitDelete \/ InitStep
  <2>1. /\ UNCHANGED <<linked, split, info, trader>>
        /\ page'.cursor = page.cursor /\ page'.told = page.told
    BY <1>6 DEF InitDelete, InitStep, InitReset, InitSelect, InitFill, Outdated, dbVars, ShapeInv
  <2> QED
    BY <2>1
<1>7. CASE Restart \/ Reload
  <2>1. /\ UNCHANGED <<linked, split>> /\ trader' \in {trader, NoTrader} /\ info' = NoInfo
        /\ \/ page'.cursor = page.cursor /\ page'.told = page.told
           \/ page'.cursor = 0
    <3>1. CASE Restart
      BY <3>1 DEF Restart, dbVars, ShapeInv
    <3>2. CASE Reload
      BY <3>2 DEF Reload, dbVars, serverVars
    <3> QED
      BY <1>7, <3>1, <3>2
  <2>2. \A i \in linked : i > 0
    BY FeedAssumption DEF TypeOK, TradeIds
  <2> QED
    BY <1>1, <2>1, <2>2
<1>8. CASE Poll \/ ReadCursorTrade \/ ReadLatest \/ NeverAnswered \/ InfoFails
  <2>1. /\ UNCHANGED <<linked, split, trader>>
        /\ page'.cursor = page.cursor /\ page'.told = page.told
    BY <1>8 DEF Poll, ReadCursorTrade, ReadLatest, NeverAnswered, InfoFails, dbVars,
                serverVars, ShapeInv
  <2>2. info'.pc # "charts"
    <3>1. CASE Poll
      BY <3>1 DEF Poll
    <3>2. CASE ReadCursorTrade
      <4>1. info \in Asked
        BY <3>2 DEF ReadCursorTrade, ShapeInv
      <4> QED
        BY <3>2, <4>1 DEF ReadCursorTrade, Asked
    <3>3. CASE ReadLatest
      <4>1. info \in Asked
        BY <3>3 DEF ReadLatest, ShapeInv
      <4> QED
        BY <3>3, <4>1 DEF ReadLatest, Asked
    <3>4. CASE NeverAnswered \/ InfoFails
      BY <3>4 DEF NeverAnswered, InfoFails
    <3> QED
      BY <1>8, <3>1, <3>2, <3>3, <3>4
  <2> QED
    BY <2>1, <2>2
<1>9. CASE ReadOrders
  <2>1. /\ UNCHANGED <<linked, split, trader, page>>
        /\ info'.orders = {i \in linked : i > page.cursor}
    BY <1>9 DEF ReadOrders, dbVars, serverVars, ShapeInv, Asked
  <2> QED
    BY <1>1, <2>1
<1>10. CASE Answer
  <2>1. /\ UNCHANGED <<linked, split, trader>> /\ page'.cursor = info.cursor
        /\ page'.told = page.told \cup info.orders /\ info' = NoInfo /\ info.pc = "charts"
    BY <1>10 DEF Answer, dbVars, serverVars, ShapeInv
  <2>2. \A i \in linked \ split : i <= page'.cursor => i \in page'.told
    BY <1>1, <2>1
  <2> QED
    BY <2>1, <2>2
<1> QED
  BY <1>2, <1>3, <1>4, <1>5, <1>6, <1>7, <1>8, <1>9, <1>10
     DEF Next, TraderStep, InfoStep

LEMMA StepFeed == FeedInv /\ [Next]_vars => FeedInv'
<1> SUFFICES ASSUME FeedInv, [Next]_vars PROVE FeedInv'
  OBVIOUS
<1>1. TypeOK' /\ ShapeInv'
  <2>1. CASE UNCHANGED vars
    BY <2>1 DEF FeedInv, TypeOK, ShapeInv, vars, dbVars, serverVars
  <2> QED
    BY <2>1, TraderTypes, InitTypes, InfoTypes DEF Next
<1>2. IdInv'
  BY <1>1, StepIds
<1>3. ToldInv'
  BY <1>1, <1>2, StepTold
<1> QED
  BY <1>1, <1>2, <1>3 DEF FeedInv

LEMMA FeedInvariant == Spec => []FeedInv
  BY InitFeed, StepFeed, PTL DEF Spec

\* The tables, the handlers, the cache's history and the page keep their types.
THEOREM FeedTypeOK == Spec => []TypeOK
  BY FeedInvariant, PTL DEF FeedInv

\* Every traded order behind the page's cursor has been told to the page: while
\* a transaction is open the cursor cannot pass its row.  What can be missed is
\* a trade whose INSERT was seen before the UPDATE of its orders.
THEOREM FeedMissedOnlyIfSplit == Spec => []MissedOnlyIfSplit
<1>1. FeedInv => MissedOnlyIfSplit
  BY DEF FeedInv, ToldInv
<1> QED
  BY <1>1, FeedInvariant, PTL
-----------------------------------------------------------------------------
(* A fold over a sequence: the library's recursion over the sets of positions. *)

\* A set of numbers that has 0 and with each number the next has all of them.
LEMMA CountUp ==
    ASSUME NEW n \in Nat, NEW G \in SUBSET (0..n), 0 \in G,
           \A k \in 1..n : k - 1 \in G => k \in G
    PROVE  G = 0..n
<1> DEFINE H == (0..n) \ G
<1>1. SUFFICES ASSUME H # {} PROVE FALSE
  OBVIOUS
<1>2. H \in SUBSET Int /\ IsFiniteSet(H)
  <2>1. IsFiniteSet(0..n)
    BY FS_Interval
  <2> QED
    BY <2>1, FS_Subset
<1>3. Min(H) \in H /\ \A x \in H : Min(H) <= x
  <2> HIDE DEF H
  <2> QED
    BY <1>1, <1>2, TopExists
<1>4. PICK m \in H : \A x \in H : m <= x
  BY <1>3
<1>5. m \in 1..n /\ m - 1 \in 0..n /\ m - 1 \notin H
  BY <1>4
<1> QED
  BY <1>4, <1>5

FoldStep(op, base, g, s) == IF s = {} THEN base ELSE op[<<g[s \ {Max(s)}], Max(s)>>]
FoldOver(op, base, g, S) == g = [s \in SUBSET S |-> FoldStep(op, base, g, s)]

LEMMA MaxIn ==
    ASSUME NEW n \in Nat, NEW s \in SUBSET (1..n), s # {}
    PROVE  Max(s) \in s /\ s \ {Max(s)} \in SUBSET s /\ s \ {Max(s)} # s
<1>1. IsFiniteSet(s) /\ s \in SUBSET Int
  <2>1. IsFiniteSet(1..n)
    BY FS_Interval
  <2>2. IsFiniteSet(s)
    BY <2>1, FS_Subset
  <2> QED
    BY <2>2
<1> QED
  BY <1>1, TopExists

LEMMA FoldsAgree ==
    ASSUME NEW n \in Nat, NEW op, NEW base, NEW S \in SUBSET (1..n), NEW T \in SUBSET S,
           NEW g, NEW h, FoldOver(op, base, g, S), FoldOver(op, base, h, T)
    PROVE  g[T] = h[T]
<1> DEFINE G == {U \in SUBSET T : g[U] = h[U]}
<1>1. {} \in G
  BY DEF FoldOver, FoldStep
<1>2. ASSUME NEW U \in SUBSET T, U # {}, \A V \in SUBSET U : V # U => V \in G
      PROVE  U \in G
  <2>1. U \ {Max(U)} \in SUBSET U /\ U \ {Max(U)} # U
    BY <1>2, MaxIn
  <2>2. g[U \ {Max(U)}] = h[U \ {Max(U)}]
    BY <1>2, <2>1
  <2>3. g[U] = FoldStep(op, base, g, U) /\ h[U] = FoldStep(op, base, h, U)
    BY DEF FoldOver
  <2> QED
    BY <1>2, <2>2, <2>3 DEF FoldStep
<1>3. IsFiniteSet(T)
  <2>1. IsFiniteSet(1..n) /\ T \in SUBSET (1..n)
    BY FS_Interval
  <2> QED
    BY <2>1, FS_Subset
<1>4. G = SUBSET T
  <2>1. G \in SUBSET (SUBSET T)
    OBVIOUS
  <2>2. \A U \in SUBSET T : U # {} /\ (\A V \in SUBSET U : V # U => V \in G) => U \in G
    BY <1>2
  <2> HIDE DEF G
  <2> QED
    BY <1>1, <1>3, <2>1, <2>2, SetInduction
<1> QED
  BY <1>4

LEMMA FoldExists ==
    ASSUME NEW n \in Nat, NEW op, NEW base
    PROVE  \E g : FoldOver(op, base, g, 1..n)
<1> DEFINE S == 1..n
           G == {T \in SUBSET S : \E g : FoldOver(op, base, g, T)}
<1>1. {} \in G
  <2> DEFINE g == [s \in SUBSET {} |-> base]
  <2>1. g = [s \in SUBSET {} |-> FoldStep(op, base, g, s)]
    BY DEF FoldStep
  <2> QED
    BY <2>1 DEF FoldOver
<1>2. ASSUME NEW T \in SUBSET S, T # {}, \A U \in SUBSET T : U # T => U \in G
      PROVE  T \in G
  <2> DEFINE ofSet(U) == CHOOSE g : FoldOver(op, base, g, U)
             low == [V \in SUBSET T |-> ofSet(V)[V]]
             g0 == [U \in SUBSET T |-> FoldStep(op, base, low, U)]
  <2>1. ASSUME NEW U \in SUBSET T, U # T PROVE FoldOver(op, base, ofSet(U), U)
    <3>1. \E g : FoldOver(op, base, g, U)
      BY <1>2, <2>1
    <3> QED
      BY <3>1
  <2>2. ASSUME NEW U \in SUBSET T, U # T PROVE low[U] = g0[U]
    <3>1. FoldOver(op, base, ofSet(U), U)
      BY <2>1, <2>2
    <3>2. ofSet(U)[U] = FoldStep(op, base, ofSet(U), U)
      BY <3>1 DEF FoldOver
    <3>3. CASE U = {}
      BY <3>2, <3>3 DEF FoldStep
    <3>4. CASE U # {}
      <4> DEFINE V == U \ {Max(U)}
      <4>1. V \in SUBSET U /\ V \in SUBSET T /\ V # T
        BY <2>2, <3>4, MaxIn
      <4>2. FoldOver(op, base, ofSet(V), V)
        BY <2>1, <4>1
      <4>3. ofSet(U)[V] = ofSet(V)[V]
        <5> HIDE DEF ofSet
        <5>1. U \in SUBSET (1..n) /\ V \in SUBSET U
          BY <4>1
        <5> HIDE DEF V
        <5> QED
          BY <3>1, <4>2, <5>1, FoldsAgree
      <4>4. low[V] = ofSet(V)[V] /\ low[U] = ofSet(U)[U]
        BY <4>1
      <4> HIDE DEF ofSet, low
      <4>5. g0[U] = FoldStep(op, base, low, U)
        OBVIOUS
      <4> QED
        BY <3>2, <3>4, <4>3, <4>4, <4>5 DEF FoldStep
    <3> QED
      BY <3>3, <3>4
  <2>3. ASSUME NEW U \in SUBSET T PROVE g0[U] = FoldStep(op, base, g0, U)
    <3>1. CASE U = {}
      BY <3>1 DEF FoldStep
    <3>2. CASE U # {}
      <4> DEFINE V == U \ {Max(U)}
      <4>1. V \in SUBSET T /\ V # T
        BY <3>2, MaxIn
      <4>2. low[V] = g0[V]
        BY <2>2, <4>1
      <4>3. g0[U] = FoldStep(op, base, low, U)
        OBVIOUS
      <4> HIDE DEF g0, low
      <4> QED
        BY <3>2, <4>2, <4>3 DEF FoldStep
    <3> QED
      BY <3>1, <3>2
  <2> HIDE DEF low
  <2>4. g0 = [U \in SUBSET T |-> g0[U]]
    OBVIOUS
  <2> HIDE DEF g0
  <2>5. g0 = [U \in SUBSET T |-> FoldStep(op, base, g0, U)]
    BY <2>3, <2>4
  <2> QED
    BY <2>5 DEF FoldOver
<1>3. G = SUBSET S
  <2>1. G \in SUBSET (SUBSET S)
    OBVIOUS
  <2>2. IsFiniteSet(S)
    BY FS_Interval
  <2>3. \A T \in SUBSET S : T # {} /\ (\A U \in SUBSET T : U # T => U \in G) => T \in G
    BY <1>2
  <2> HIDE DEF G, S
  <2> QED
    BY <1>1, <2>1, <2>2, <2>3, SetInduction
<1> QED
  BY <1>3

\* With an operation on a set of values the results are values.
LEMMA FoldValues ==
    ASSUME NEW n \in Nat, NEW V, NEW base \in V, NEW op \in [V \X (1..n) -> V]
    PROVE  \E g \in [SUBSET (1..n) -> V] : FoldOver(op, base, g, 1..n)
<1>1. PICK g : FoldOver(op, base, g, 1..n)
  BY FoldExists
<1> DEFINE S == 1..n
           G == {T \in SUBSET S : g[T] \in V}
<1>2. {} \in G
  BY <1>1 DEF FoldOver, FoldStep
<1>3. ASSUME NEW T \in SUBSET S, T # {}, \A U \in SUBSET T : U # T => U \in G
      PROVE  T \in G
  <2>1. Max(T) \in S /\ T \ {Max(T)} \in SUBSET T /\ T \ {Max(T)} # T
    BY <1>3, MaxIn
  <2>2. g[T \ {Max(T)}] \in V
    BY <1>3, <2>1
  <2>3. g[T] = FoldStep(op, base, g, T)
    BY <1>1 DEF FoldOver
  <2> QED
    BY <1>3, <2>1, <2>2, <2>3 DEF FoldStep
<1>4. G = SUBSET S
  <2>1. G \in SUBSET (SUBSET S)
    OBVIOUS
  <2>2. IsFiniteSet(S)
    BY FS_Interval
  <2>3. \A T \in SUBSET S : T # {} /\ (\A U \in SUBSET T : U # T => U \in G) => T \in G
    BY <1>3
  <2> HIDE DEF G, S
  <2> QED
    BY <1>2, <2>1, <2>2, <2>3, SetInduction
<1>5. g \in [SUBSET (1..n) -> V]
  BY <1>1, <1>4 DEF FoldOver
<1> QED
  BY <1>1, <1>5

\* What the recursion gives for the sets 1..k, one position after the other.
FoldsBy(it, at, V, base, n) ==
    /\ it[{}] = base
    /\ \A T \in SUBSET (1..n) : T # {} /\ it[T \ {Max(T)}] \in V
                                  => it[T] = at[<<it[T \ {Max(T)}], Max(T)>>]
StepsBy(h, at, V, base, n) ==
    h \in [0..n -> V] /\ h[0] = base /\ \A k \in 1..n : h[k] = at[<<h[k - 1], k>>]
Follows(it, at, V, base, n) == \E h : StepsBy(h, at, V, base, n) /\ h[n] = it[1..n]

LEMMA FoldFrame ==
    ASSUME NEW n \in Nat, NEW V, NEW base \in V, NEW at \in [V \X (1..n) -> V], NEW it,
           FoldsBy(it, at, V, base, n)
    PROVE  Follows(it, at, V, base, n)
<1> USE DEF FoldsBy, StepsBy
<1> DEFINE h == [k \in 0..n |-> it[1..k]]
           G == {k \in 0..n : it[1..k] \in V}
<1>1. 1..0 = {} /\ it[1..0] = base /\ 0 \in G
  OBVIOUS
<1>2. ASSUME NEW k \in 1..n, k - 1 \in G
      PROVE  it[1..k] = at[<<it[1..(k - 1)], k>>] /\ k \in G
  <2>1. k \in 1..k /\ (1..k) \ {k} = 1..(k - 1) /\ 1..k \in SUBSET (1..n) /\ k \in 0..n
    OBVIOUS
  <2>2. Max(1..k) = k
    <3>1. \A y \in 1..k : k >= y
      OBVIOUS
    <3>2. ASSUME NEW x \in 1..k, \A y \in 1..k : x >= y PROVE x = k
      <4>1. x >= k
        BY <2>1, <3>2
      <4> QED
        BY <4>1
    <3> QED
      BY <2>1, <3>1, <3>2 DEF Max
  <2>3. it[1..(k - 1)] \in V
    BY <1>2
  <2>4. it[1..k] = at[<<it[1..(k - 1)], k>>]
    BY <2>1, <2>2, <2>3
  <2> QED
    BY <2>1, <2>3, <2>4
<1>3. G = 0..n
  <2>1. G \in SUBSET (0..n) /\ \A k \in 1..n : k - 1 \in G => k \in G
    BY <1>2
  <2> HIDE DEF G
  <2> QED
    BY <1>1, <2>1, CountUp
<1>4. \A k \in 0..n : it[1..k] \in V
  BY <1>3
<1>5. h \in [0..n -> V] /\ h[0] = base /\ h[n] = it[1..n]
  BY <1>1, <1>4
<1>6. ASSUME NEW k \in 1..n PROVE h[k] = at[<<h[k - 1], k>>]
  <2>1. k \in 0..n /\ k - 1 \in 0..n /\ k - 1 \in G
    BY <1>3
  <2>2. h[k] = it[1..k] /\ h[k - 1] = it[1..(k - 1)]
    BY <2>1
  <2> QED
    BY <1>2, <2>1, <2>2
<1> HIDE DEF h
<1> QED
  BY <1>5, <1>6 DEF Follows

Fill(cs, seq) == FoldLeft(addCacheTrade, cs, seq)
ClosedUnderAdd(V, rows) == \A v \in V : \A r \in rows : addCacheTrade(v, r) \in V
StepsOfFill(h, V, base, seq, n) ==
    /\ h \in [0..n -> V] /\ h[0] = base
    /\ \A k \in 1..n : h[k] = addCacheTrade(h[k - 1], seq[k])
    /\ h[n] = Fill(base, seq)

\* The trades of a sequence added to the caches one by one.
LEMMA FillSteps ==
    ASSUME NEW V, NEW base \in V, NEW rows, NEW n \in Nat, NEW seq \in [1..n -> rows],
           ClosedUnderAdd(V, rows)
    PROVE  \E h : StepsOfFill(h, V, base, seq, n)
<1> USE DEF ClosedUnderAdd
<1> DEFINE S == 1..n
           at == [p \in V \X S |-> addCacheTrade(p[1], seq[p[2]])]
           Folds(g) == g = [s \in SUBSET S |->
                              IF s = {} THEN base
                              ELSE addCacheTrade(g[s \ {Max(s)}], seq[Max(s)])]
           it == CHOOSE g : Folds(g)
<1>1. at \in [V \X S -> V]
  OBVIOUS
<1>2. \A v \in V : \A k \in S : at[<<v, k>>] = addCacheTrade(v, seq[k])
  OBVIOUS
<1>3. \E g \in [SUBSET S -> V] : Folds(g)
  <2>1. PICK g \in [SUBSET S -> V] : FoldOver(at, base, g, S)
    <3> HIDE DEF at
    <3> QED
      BY <1>1, FoldValues
  <2>2. \A s \in SUBSET S : g[s] = IF s = {} THEN base
                                   ELSE addCacheTrade(g[s \ {Max(s)}], seq[Max(s)])
    <3>1. \A s \in SUBSET S : s # {} => Max(s) \in S /\ g[s \ {Max(s)}] \in V
      BY <2>1, MaxIn
    <3> HIDE DEF at
    <3> QED
      BY <1>2, <2>1, <3>1 DEF FoldOver, FoldStep
  <2> QED
    BY <2>1, <2>2
<1>4. Folds(it)
  BY <1>3
<1>5. it[S] = Fill(base, seq)
  BY DEF Fill, FoldLeft, MapThenFoldSet
<1>6. it[{}] = base
  <2> HIDE DEF it
  <2> QED
    BY <1>4
<1>7. ASSUME NEW T \in SUBSET S, T # {}, it[T \ {Max(T)}] \in V
      PROVE  it[T] = at[<<it[T \ {Max(T)}], Max(T)>>]
  <2>1. it[T] = addCacheTrade(it[T \ {Max(T)}], seq[Max(T)])
    <3> HIDE DEF it
    <3> QED
      BY <1>4, <1>7
  <2>2. Max(T) \in S
    BY <1>7, MaxIn
  <2> HIDE DEF it, at
  <2> QED
    BY <1>2, <1>7, <2>1, <2>2
<1> HIDE DEF it, at
<1>8. FoldsBy(it, at, V, base, n)
  BY <1>6, <1>7 DEF FoldsBy
<1>f. Follows(it, at, V, base, n)
  BY <1>1, <1>8, FoldFrame
<1>9. PICK h : StepsBy(h, at, V, base, n) /\ h[n] = it[1..n]
  BY <1>f DEF Follows
<1>10. \A k \in 1..n : h[k - 1] \in V
  BY <1>9 DEF StepsBy
<1> QED
  BY <1>2, <1>5, <1>9, <1>10 DEF StepsOfFill, StepsBy
-----------------------------------------------------------------------------
(* A candle and the trades of its time. *)

Candle == [t : Int, open : Int, close : Int, h : Int, l : Int, minId : Int, maxId : Int]
Cache == [keys : Seq(Int), sum : UNION {[K -> Candle] : K \in SUBSET Int}]
Group(rows, g, k) == {r \in rows : Trunc(r.at, g) = k}
Keyed(rows) == \A r, s \in rows : r.id = s.id => r = s

CandleOf(c, group, k) ==
    /\ c \in Candle /\ c.t = k
    /\ \E r \in group : r.id = c.minId /\ r.price = c.open
    /\ \E r \in group : r.id = c.maxId /\ r.price = c.close
    /\ \E r \in group : r.price = c.h
    /\ \E r \in group : r.price = c.l
    /\ \A r \in group : /\ c.minId <= r.id /\ r.id <= c.maxId
                        /\ c.l <= r.price /\ r.price <= c.h

\* The cache of one grain holds the candles of these trades.
CacheOf(c, rows, g) ==
    /\ c \in Cache /\ IsInjective(c.keys) /\ ToSet(c.keys) = DOMAIN c.sum
    /\ DOMAIN c.sum = {Trunc(r.at, g) : r \in rows}
    /\ \A k \in DOMAIN c.sum : CandleOf(c.sum[k], Group(rows, g, k), k)

LEMMA RowTypes ==
    /\ \A r \in Row : r.id \in Int /\ r.at \in Int /\ r.price \in Int
    /\ \A r \in Row : \A g \in Grains : Trunc(r.at, g) \in Int
<1>1. \A r \in Row : r.id \in Int /\ r.at \in Int /\ r.price \in Int
  BY FeedAssumption DEF Row, TradeIds
<1>2. \A g \in Grains : g \in Nat \ {0}
  BY FeedAssumption
<1> QED
  BY <1>1, <1>2 DEF Trunc

LEMMA MinMaxPair ==
    ASSUME NEW a \in Int, NEW b \in Int
    PROVE  /\ Min({a, b}) = IF a <= b THEN a ELSE b
           /\ Max({a, b}) = IF a >= b THEN a ELSE b
  BY DEF Min, Max

\* The first trade of a time makes its candle.
LEMMA NewCandleOf ==
    ASSUME NEW r \in Row, NEW k \in Int
    PROVE  CandleOf(NewCandle(k, r), {r}, k)
  BY RowTypes DEF CandleOf, NewCandle, Candle

\* Every further trade extends it, whichever side of the others its id is.
LEMMA ExtendCandle ==
    ASSUME NEW group \in SUBSET Row, NEW r \in Row, NEW k, NEW c, CandleOf(c, group, k)
    PROVE  CandleOf(Extend(c, r), group \cup {r}, k)
<1> DEFINE d == Extend(c, r)
<1>1. \A s \in group \cup {r} : s.id \in Int /\ s.price \in Int
  BY RowTypes
<1>2. /\ c \in Candle /\ c.t = k /\ c.minId \in Int /\ c.maxId \in Int /\ c.l \in Int
      /\ c.h \in Int /\ c.open \in Int /\ c.close \in Int
  BY DEF CandleOf, Candle
<1>3. /\ d.t = c.t
      /\ d.open = IF r.id < c.minId THEN r.price ELSE c.open
      /\ d.close = IF r.id > c.maxId THEN r.price ELSE c.close
      /\ d.minId = Min({c.minId, r.id}) /\ d.maxId = Max({c.maxId, r.id})
      /\ d.l = Min({c.l, r.price}) /\ d.h = Max({c.h, r.price})
  BY <1>2 DEF Extend, Candle
<1>4. /\ d.minId = (IF c.minId <= r.id THEN c.minId ELSE r.id)
      /\ d.maxId = (IF c.maxId >= r.id THEN c.maxId ELSE r.id)
      /\ d.l = (IF c.l <= r.price THEN c.l ELSE r.price)
      /\ d.h = (IF c.h >= r.price THEN c.h ELSE r.price)
  BY <1>1, <1>2, <1>3, MinMaxPair
<1>5. d \in Candle
  <2>1. \A open, close, minId, maxId, l, h \in Int :
          [c EXCEPT !.open = open, !.close = close, !.minId = minId, !.maxId = maxId,
                    !.l = l, !.h = h] \in Candle
    BY <1>2 DEF Candle
  <2>2. d = [c EXCEPT !.open = d.open, !.close = d.close, !.minId = d.minId,
                      !.maxId = d.maxId, !.l = d.l, !.h = d.h]
    BY <1>2, <1>3 DEF Extend
  <2>3. /\ d.open \in Int /\ d.close \in Int /\ d.minId \in Int /\ d.maxId \in Int
        /\ d.l \in Int /\ d.h \in Int
    <3> HIDE DEF d
    <3> QED
      BY <1>1, <1>2, <1>3, <1>4
  <2> HIDE DEF d
  <2>4. [c EXCEPT !.open = d.open, !.close = d.close, !.minId = d.minId,
                  !.maxId = d.maxId, !.l = d.l, !.h = d.h] \in Candle
    BY <2>1, <2>3
  <2> QED
    BY <2>2, <2>4
<1> HIDE DEF d
<1>6. \E s \in group \cup {r} : s.id = d.minId /\ s.price = d.open
  BY <1>1, <1>2, <1>3, <1>4 DEF CandleOf
<1>7. \E s \in group \cup {r} : s.id = d.maxId /\ s.price = d.close
  BY <1>1, <1>2, <1>3, <1>4 DEF CandleOf
<1>8. (\E s \in group \cup {r} : s.price = d.h) /\ (\E s \in group \cup {r} : s.price = d.l)
  BY <1>1, <1>2, <1>4 DEF CandleOf
<1>9. \A s \in group \cup {r} : /\ d.minId <= s.id /\ s.id <= d.maxId
                                /\ d.l <= s.price /\ s.price <= d.h
  BY <1>1, <1>2, <1>4 DEF CandleOf
<1>10. CandleOf(d, group \cup {r}, k)
  BY <1>2, <1>3, <1>5, <1>6, <1>7, <1>8, <1>9 DEF CandleOf
<1> QED
  BY <1>10 DEF d

\* updateSum keeps the cache of a grain the candles of its trades.
LEMMA UpdateSumOf ==
    ASSUME NEW g \in Grains, NEW rows \in SUBSET Row, NEW r \in Row, NEW c,
           CacheOf(c, rows, g)
    PROVE  CacheOf(updateSum(Trunc(r.at, g), c, r), rows \cup {r}, g)
<1> DEFINE key == Trunc(r.at, g)
           d == updateSum(key, c, r)
           all == rows \cup {r}
<1>1. key \in Int
  BY RowTypes
<1>2. /\ c.keys \in Seq(Int) /\ c.sum \in [DOMAIN c.sum -> Candle] /\ DOMAIN c.sum \subseteq Int
      /\ c = [keys |-> c.keys, sum |-> c.sum]
  BY DEF CacheOf, Cache
<1>3. {Trunc(s.at, g) : s \in all} = (DOMAIN c.sum) \cup {key}
  BY DEF CacheOf
<1>4. \A k : Group(all, g, k) = IF k = key THEN Group(rows, g, k) \cup {r} ELSE Group(rows, g, k)
  BY DEF Group
<1>5. CASE key \in DOMAIN c.sum
  <2>1. /\ d.keys = c.keys /\ DOMAIN d.sum = DOMAIN c.sum
        /\ d = [keys |-> d.keys, sum |-> d.sum]
        /\ d.sum = [k \in DOMAIN c.sum |-> IF k = key THEN Extend(c.sum[k], r) ELSE c.sum[k]]
    BY <1>2, <1>5 DEF updateSum
  <2>2. CandleOf(Extend(c.sum[key], r), Group(rows, g, key) \cup {r}, key)
    <3>1. CandleOf(c.sum[key], Group(rows, g, key), key) /\ Group(rows, g, key) \in SUBSET Row
      BY <1>5 DEF CacheOf, Group
    <3> QED
      BY <3>1, ExtendCandle
  <2>3. \A k \in DOMAIN d.sum : CandleOf(d.sum[k], Group(all, g, k), k)
    <3> HIDE DEF d, key, all
    <3> QED
      BY <1>4, <1>5, <2>1, <2>2 DEF CacheOf
  <2>4. d \in Cache
    <3>1. \A k \in DOMAIN d.sum : d.sum[k] \in Candle
      BY <2>3 DEF CandleOf
    <3>2. d.sum \in [DOMAIN c.sum -> Candle]
      <4> HIDE DEF d
      <4> QED
        BY <2>1, <3>1
    <3> HIDE DEF d
    <3> QED
      BY <1>2, <2>1, <3>2 DEF Cache
  <2> HIDE DEF d, key, all
  <2> QED
    BY <1>3, <1>5, <2>1, <2>3, <2>4 DEF CacheOf, d, key, all
<1>6. CASE key \notin DOMAIN c.sum
  <2>1. /\ d.keys = Append(c.keys, key)
        /\ d = [keys |-> d.keys, sum |-> d.sum]
        /\ d.sum = [k \in DOMAIN c.sum \cup {key} |->
                      IF k = key THEN NewCandle(key, r) ELSE c.sum[k]]
    BY <1>6 DEF updateSum
  <2>2. CandleOf(NewCandle(key, r), {r}, key)
    BY <1>1, NewCandleOf
  <2>3. Group(all, g, key) = {r}
    <3>1. \A s \in rows : Trunc(s.at, g) # key
      BY <1>6 DEF CacheOf
    <3> QED
      BY <3>1 DEF Group
  <2>4. \A k \in DOMAIN d.sum : CandleOf(d.sum[k], Group(all, g, k), k)
    <3> HIDE DEF d, key, all
    <3> QED
      BY <1>4, <1>6, <2>1, <2>2, <2>3 DEF CacheOf
  <2>5. d \in Cache
    <3>1. \A k \in DOMAIN d.sum : d.sum[k] \in Candle
      BY <2>4 DEF CandleOf
    <3>2. d.sum \in [DOMAIN c.sum \cup {key} -> Candle] /\ DOMAIN c.sum \cup {key} \in SUBSET Int
      <4> HIDE DEF d, key
      <4> QED
        BY <1>1, <1>2, <2>1, <3>1
    <3>3. d.keys \in Seq(Int)
      <4> HIDE DEF d, key
      <4> QED
        BY <1>1, <1>2, <2>1
    <3> HIDE DEF d
    <3> QED
      BY <2>1, <3>2, <3>3 DEF Cache
  <2>6. IsInjective(d.keys) /\ ToSet(d.keys) = (DOMAIN c.sum) \cup {key}
    <3>1. /\ DOMAIN d.keys = 1..Len(c.keys) + 1 /\ d.keys[Len(c.keys) + 1] = key
          /\ \A i \in 1..Len(c.keys) : d.keys[i] = c.keys[i]
          /\ DOMAIN c.keys = 1..Len(c.keys) /\ Len(c.keys) \in Nat
      <4> HIDE DEF d, key
      <4> QED
        BY <1>1, <1>2, <2>1
    <3>2. \A i \in 1..Len(c.keys) : c.keys[i] \in DOMAIN c.sum
      BY <3>1 DEF CacheOf, ToSet
    <3>3. \A i, j \in 1..Len(c.keys) : c.keys[i] = c.keys[j] => i = j
      BY <3>1 DEF CacheOf, IsInjective
    <3> HIDE DEF d, key, all
    <3>4. \A i \in DOMAIN d.keys : i \in 1..Len(c.keys) \/ i = Len(c.keys) + 1
      BY <3>1
    <3>5. IsInjective(d.keys)
      BY <1>6, <3>1, <3>2, <3>3, <3>4 DEF IsInjective
    <3>6. \A k \in DOMAIN c.sum : \E i \in 1..Len(c.keys) : c.keys[i] = k
      BY <3>1 DEF CacheOf, ToSet
    <3>7. ToSet(d.keys) = (DOMAIN c.sum) \cup {key}
      <4>1. \A i \in 1..Len(c.keys) : i \in DOMAIN d.keys
        BY <3>1
      <4>2. Len(c.keys) + 1 \in DOMAIN d.keys
        BY <3>1
      <4>3. \A i \in DOMAIN d.keys : d.keys[i] \in (DOMAIN c.sum) \cup {key}
        BY <3>1, <3>2, <3>4
      <4>4. \A k \in (DOMAIN c.sum) \cup {key} : \E i \in DOMAIN d.keys : d.keys[i] = k
        BY <3>1, <3>6, <4>1, <4>2
      <4> QED
        BY <4>3, <4>4 DEF ToSet
    <3> QED
      BY <3>5, <3>7
  <2> HIDE DEF d, key, all
  <2> QED
    BY <1>3, <2>1, <2>4, <2>5, <2>6 DEF CacheOf, d, key, all
<1> QED
  BY <1>5, <1>6

CachesOf(cs, rows) == cs \in [Grains -> Cache] /\ \A g \in Grains : CacheOf(cs[g], rows, g)

LEMMA AddTradeOf ==
    ASSUME NEW rows \in SUBSET Row, NEW r \in Row, NEW cs, CachesOf(cs, rows)
    PROVE  CachesOf(addCacheTrade(cs, r), rows \cup {r})
<1> DEFINE ds == addCacheTrade(cs, r)
<1>1. ds = [g \in Grains |-> updateSum(Trunc(r.at, g), cs[g], r)]
  BY DEF CachesOf, addCacheTrade
<1>2. \A g \in Grains : CacheOf(ds[g], rows \cup {r}, g)
  BY <1>1, UpdateSumOf DEF CachesOf
<1> HIDE DEF ds
<1>3. ds \in [Grains -> Cache]
  BY <1>1, <1>2 DEF CacheOf
<1> QED
  BY <1>2, <1>3 DEF CachesOf, ds

LEMMA ResetOf == CachesOf(resetCacheTrade(Grains), {})
<1> DEFINE c == [keys |-> <<>>, sum |-> <<>>]
<1>1. c \in Cache
  <2>1. <<>> \in [{} -> Candle] /\ {} \in SUBSET Int
    OBVIOUS
  <2>2. <<>> \in Seq(Int)
    OBVIOUS
  <2>3. <<>> \in UNION {[K -> Candle] : K \in SUBSET Int}
    BY <2>1, Zenon
  <2> QED
    BY <2>2, <2>3 DEF Cache
<1>2. IsInjective(c.keys) /\ ToSet(c.keys) = DOMAIN c.sum /\ DOMAIN c.sum = {}
  BY DEF IsInjective, ToSet
<1>3. \A g \in Grains : CacheOf(c, {}, g)
  BY <1>1, <1>2 DEF CacheOf
<1> QED
  BY <1>1, <1>3 DEF CachesOf, resetCacheTrade

\* The candle that is sent is the row of the query.
LEMMA SentIsSummary ==
    ASSUME NEW rows \in SUBSET Row, Keyed(rows), NEW g \in Grains, NEW k, NEW c,
           CandleOf(c, Group(rows, g, k), k)
    PROVE  Sent(c) = Summary(rows, g, k)
<1> DEFINE group == Group(rows, g, k)
           first == CHOOSE r \in group : \A s \in group : r.id <= s.id
           last == CHOOSE r \in group : \A s \in group : r.id >= s.id
           prices == {r.price : r \in group}
<1>1. \A s \in group : s.id \in Int /\ s.price \in Int /\ s \in rows
  BY RowTypes DEF Group
<1>2. /\ \E r \in group : r.id = c.minId /\ r.price = c.open
      /\ \E r \in group : r.id = c.maxId /\ r.price = c.close
      /\ \E r \in group : r.price = c.h
      /\ \E r \in group : r.price = c.l
      /\ \A r \in group : /\ c.minId <= r.id /\ r.id <= c.maxId
                          /\ c.l <= r.price /\ r.price <= c.h
  BY DEF CandleOf
<1> HIDE DEF group
<1>3. first.price = c.open
  <2>1. PICK r \in group : r.id = c.minId /\ r.price = c.open
    BY <1>2
  <2>2. \A s \in group : r.id <= s.id
    BY <1>2, <2>1
  <2>3. first \in group /\ \A s \in group : first.id <= s.id
    BY <2>2
  <2> HIDE DEF first
  <2>4. first.id = r.id
    BY <1>1, <2>1, <2>2, <2>3
  <2> QED
    BY <1>1, <2>1, <2>3, <2>4 DEF Keyed
<1>4. last.price = c.close
  <2>1. PICK r \in group : r.id = c.maxId /\ r.price = c.close
    BY <1>2
  <2>2. \A s \in group : r.id >= s.id
    BY <1>1, <1>2, <2>1
  <2>3. last \in group /\ \A s \in group : last.id >= s.id
    BY <2>2
  <2> HIDE DEF last
  <2>4. last.id = r.id
    BY <1>1, <2>1, <2>2, <2>3
  <2> QED
    BY <1>1, <2>1, <2>3, <2>4 DEF Keyed
<1>5. Max(prices) = c.h /\ Min(prices) = c.l
  <2>1. \A p \in prices : p \in Int /\ c.l <= p /\ p <= c.h
    BY <1>1, <1>2
  <2>2. c.h \in prices /\ c.l \in prices
    BY <1>2
  <2> HIDE DEF prices
  <2>3. ASSUME NEW x \in prices, \A y \in prices : x >= y PROVE x = c.h
    <3>1. x >= c.h /\ x <= c.h
      BY <2>1, <2>2, <2>3
    <3> QED
      BY <2>1, <2>2, <3>1
  <2>4. ASSUME NEW x \in prices, \A y \in prices : x <= y PROVE x = c.l
    <3>1. x <= c.l /\ x >= c.l
      BY <2>1, <2>2, <2>4
    <3> QED
      BY <2>1, <2>2, <3>1
  <2>5. (\A y \in prices : c.h >= y) /\ (\A y \in prices : c.l <= y)
    BY <2>1, <2>2
  <2> QED
    BY <2>2, <2>3, <2>4, <2>5 DEF Max, Min
<1>6. Summary(rows, g, k) = [t |-> k, open |-> first.price, close |-> last.price,
                             h |-> Max(prices), l |-> Min(prices)]
  BY DEF Summary, group, Group
<1>7. Sent(c) = [t |-> k, open |-> c.open, close |-> c.close, h |-> c.h, l |-> c.l]
  BY DEF Sent, CandleOf
<1> HIDE DEF first, last, prices
<1> QED
  BY <1>3, <1>4, <1>5, <1>6, <1>7

LEMMA CachesSummarise ==
    ASSUME NEW rows \in SUBSET Row, Keyed(rows), NEW cs, CachesOf(cs, rows), NEW g \in Grains
    PROVE  /\ IsInjective(cs[g].keys) /\ ToSet(cs[g].keys) = DOMAIN cs[g].sum
           /\ {Sent(cs[g].sum[k]) : k \in DOMAIN cs[g].sum} = getCandlesticData(rows, g, 0)
<1> DEFINE c == cs[g]
<1>1. CacheOf(c, rows, g)
  BY DEF CachesOf
<1> HIDE DEF c
<1>2. \A k \in DOMAIN c.sum : Sent(c.sum[k]) = Summary(rows, g, k)
  BY <1>1, SentIsSummary DEF CacheOf
<1>3. {q \in rows : q.at >= 0} = rows
  BY DEF Row
<1>4. getCandlesticData(rows, g, 0) = {Summary(rows, g, Trunc(r.at, g)) : r \in rows}
  BY <1>3 DEF getCandlesticData
<1>5. \A k \in DOMAIN c.sum : \E r \in rows : k = Trunc(r.at, g)
  BY <1>1 DEF CacheOf
<1>6. \A r \in rows : Trunc(r.at, g) \in DOMAIN c.sum
  BY <1>1 DEF CacheOf
<1>7. {Sent(c.sum[k]) : k \in DOMAIN c.sum} = getCandlesticData(rows, g, 0)
  BY <1>2, <1>4, <1>5, <1>6
<1> QED
  BY <1>1, <1>7 DEF CacheOf, c

-----------------------------------------------------------------------------
(* ORDER BY id, and the fill. *)

LEMMA RowsFinite ==
    ASSUME NEW rows \in SUBSET Row, Keyed(rows)
    PROVE  IsFiniteSet(rows)
<1>1. [r \in rows |-> r.id] \in Injection(rows, TradeIds)
  BY DEF Injection, IsInjective, Keyed, Row
<1>2. IsFiniteSet(TradeIds)
  BY FeedAssumption, FS_Interval DEF TradeIds
<1> QED
  BY <1>1, <1>2, FS_Injection

InIdOrder(s) == \A i, j \in DOMAIN s : i < j => s[i].id < s[j].id

LEMMA OrderExists ==
    ASSUME NEW rows \in SUBSET Row, Keyed(rows)
    PROVE  \E s \in [1..Cardinality(rows) -> rows] : InIdOrder(s)
<1> DEFINE G == {T \in SUBSET rows : \E s \in [1..Cardinality(T) -> T] : InIdOrder(s)}
<1>1. {} \in G
  <2>1. Cardinality({}) = 0 /\ 1..0 = {}
    BY FS_EmptySet
  <2>2. [i \in {} |-> 0] \in [1..Cardinality({}) -> {}] /\ InIdOrder([i \in {} |-> 0])
    BY <2>1 DEF InIdOrder
  <2> QED
    BY <2>2
<1>2. ASSUME NEW T \in SUBSET rows, T # {}, \A U \in SUBSET T : U # T => U \in G
      PROVE  T \in G
  <2>1. IsFiniteSet(T)
    BY RowsFinite, FS_Subset
  <2>2. PICK r \in T : r.id = Max(Ids(T))
    BY <1>2, LatestIdIn DEF Ids
  <2>3. \A q \in T : q.id <= r.id /\ q.id \in Int /\ r.id \in Int
    BY <1>2, <2>2, LatestIdIn, RowTypes
  <2> DEFINE U == T \ {r}
             m == Cardinality(T)
  <2>4. Cardinality(U) = m - 1 /\ m \in Nat /\ m # 0
    BY <2>1, <2>2, FS_RemoveElement, FS_CardinalityType, FS_EmptySet
  <2>5. PICK s \in [1..Cardinality(U) -> U] : InIdOrder(s)
    BY <1>2, <2>2
  <2> DEFINE t == [i \in 1..m |-> IF i = m THEN r ELSE s[i]]
  <2> HIDE DEF m
  <2>6. \A i \in 1..m : i # m => i \in 1..Cardinality(U)
    BY <2>4
  <2>7. t \in [1..m -> T]
    BY <2>2, <2>5, <2>6
  <2>8. ASSUME NEW i \in 1..m, NEW j \in 1..m, i < j PROVE t[i].id < t[j].id
    <3>1. i # m /\ i \in 1..Cardinality(U) /\ t[i] = s[i] /\ s[i] \in U
      <4>1. i # m
        BY <2>4, <2>8
      <4>2. i \in 1..Cardinality(U)
        BY <2>6, <4>1
      <4> HIDE DEF U
      <4> QED
        BY <2>5, <4>1, <4>2
    <3>2. CASE j = m
      <4>1. t[j] = r /\ s[i] # r /\ s[i].id <= r.id
        BY <2>3, <3>1, <3>2
      <4>2. s[i].id # r.id
        BY <2>2, <3>1, <4>1 DEF Keyed
      <4> QED
        BY <2>3, <3>1, <4>1, <4>2
    <3>3. CASE j # m
      BY <2>5, <2>6, <2>8, <3>1, <3>3 DEF InIdOrder
    <3> QED
      BY <3>2, <3>3
  <2>9. InIdOrder(t)
    BY <2>7, <2>8 DEF InIdOrder
  <2> HIDE DEF t
  <2> QED
    BY <2>7, <2>9 DEF m
<1>3. G = SUBSET rows
  <2>1. G \in SUBSET (SUBSET rows) /\ IsFiniteSet(rows)
    BY RowsFinite
  <2>2. \A T \in SUBSET rows : T # {} /\ (\A U \in SUBSET T : U # T => U \in G) => T \in G
    BY <1>2
  <2> HIDE DEF G
  <2> QED
    BY <1>1, <2>1, <2>2, SetInduction
<1> QED
  BY <1>3

LEMMA InOrderOf ==
    ASSUME NEW rows \in SUBSET Row, Keyed(rows)
    PROVE  LET s == InOrder(rows)
           IN /\ Cardinality(rows) \in Nat /\ s \in [1..Cardinality(rows) -> rows]
              /\ InIdOrder(s)
              /\ \A r \in rows : \E i \in 1..Cardinality(rows) : s[i] = r
<1> DEFINE s == InOrder(rows)
           n == Cardinality(rows)
<1>1. n \in Nat /\ IsFiniteSet(rows)
  BY RowsFinite, FS_CardinalityType
<1>2. s \in [1..n -> rows] /\ InIdOrder(s)
  BY OrderExists DEF InOrder, InIdOrder
<1> HIDE DEF s, n
<1>3. s \in Injection(1..n, rows)
  <2>1. ASSUME NEW i \in 1..n, NEW j \in 1..n, s[i] = s[j] PROVE i = j
    <3>1. s[i].id \in Int
      BY <1>2, RowTypes
    <3>2. ~(i < j) /\ ~(j < i)
      BY <1>2, <2>1, <3>1 DEF InIdOrder
    <3> QED
      BY <3>2
  <2> QED
    BY <1>2, <2>1 DEF Injection, IsInjective
<1>4. Cardinality(1..n) = n
  BY <1>1, FS_Interval
<1>5. s \in Surjection(1..n, rows)
  BY <1>1, <1>3, <1>4, FS_Injection DEF n
<1> QED
  BY <1>1, <1>2, <1>5 DEF Surjection, s, n

FilledCaches == {v \in [Grains -> Cache] : \E X \in SUBSET Row : CachesOf(v, X)}

LEMMA FillRuns ==
    ASSUME NEW old \in SUBSET Row, NEW cs, CachesOf(cs, old),
           NEW rows \in SUBSET Row, Keyed(rows)
    PROVE  \E h : StepsOfFill(h, FilledCaches, cs, InOrder(rows), Cardinality(rows))
<1> DEFINE seq == InOrder(rows)
           n == Cardinality(rows)
<1>1. n \in Nat /\ seq \in [1..n -> rows]
  BY InOrderOf
<1>2. cs \in FilledCaches
  BY DEF CachesOf, FilledCaches
<1>3. ClosedUnderAdd(FilledCaches, rows)
  <2>1. ASSUME NEW v \in FilledCaches, NEW r \in rows
        PROVE  addCacheTrade(v, r) \in FilledCaches
    <3>1. PICK X \in SUBSET Row : CachesOf(v, X)
      BY DEF FilledCaches
    <3>2. CachesOf(addCacheTrade(v, r), X \cup {r}) /\ X \cup {r} \in SUBSET Row
      BY <3>1, AddTradeOf
    <3> QED
      BY <3>2 DEF CachesOf, FilledCaches
  <2> QED
    BY <2>1 DEF ClosedUnderAdd
<1> HIDE DEF seq, n
<1>4. \E h : StepsOfFill(h, FilledCaches, cs, seq, n)
  BY <1>1, <1>2, <1>3, FillSteps
<1> QED
  BY <1>4 DEF seq, n

\* /initialize adds the rows it read to what the caches hold.
LEMMA FillOf ==
    ASSUME NEW old \in SUBSET Row, NEW cs, CachesOf(cs, old),
           NEW rows \in SUBSET Row, Keyed(rows)
    PROVE  CachesOf(Fill(cs, InOrder(rows)), old \cup rows)
<1> DEFINE seq == InOrder(rows)
           n == Cardinality(rows)
<1>1. n \in Nat /\ seq \in [1..n -> rows] /\ \A r \in rows : \E i \in 1..n : seq[i] = r
  BY InOrderOf
<1>2. \E h : StepsOfFill(h, FilledCaches, cs, seq, n)
  BY FillRuns
<1> HIDE DEF seq, n
<1>4. PICK h :
        /\ h[0] = cs /\ \A k \in 1..n : h[k] = addCacheTrade(h[k - 1], seq[k])
        /\ h[n] = Fill(cs, seq)
  BY <1>2 DEF StepsOfFill
<1> DEFINE upTo(k) == old \cup {seq[i] : i \in 1..k}
           G == {k \in 0..n : CachesOf(h[k], upTo(k))}
<1>5. 0 \in G
  <2>1. 1..0 = {} /\ 0 \in 0..n
    BY <1>1
  <2>2. upTo(0) = old
    BY <2>1
  <2> QED
    BY <1>4, <2>1, <2>2
<1>6. ASSUME NEW k \in 1..n, k - 1 \in G PROVE k \in G
  <2>1. k \in 0..n /\ 1..k = (1..(k - 1)) \cup {k} /\ 1..k \subseteq 1..n
    BY <1>1
  <2>2. upTo(k) = upTo(k - 1) \cup {seq[k]}
    BY <2>1
  <2>3. upTo(k - 1) \in SUBSET Row /\ seq[k] \in Row
    BY <1>1, <2>1
  <2>4. CachesOf(h[k - 1], upTo(k - 1))
    BY <1>6
  <2> HIDE DEF upTo
  <2>5. CachesOf(addCacheTrade(h[k - 1], seq[k]), upTo(k - 1) \cup {seq[k]})
    BY <2>3, <2>4, AddTradeOf
  <2> QED
    BY <1>4, <2>1, <2>2, <2>5
<1>7. n \in G
  <2>1. G \in SUBSET (0..n) /\ \A k \in 1..n : k - 1 \in G => k \in G
    BY <1>6
  <2> HIDE DEF G
  <2>2. G = 0..n
    BY <1>1, <1>5, <2>1, CountUp
  <2> QED
    BY <1>1, <2>2
<1>8. upTo(n) = old \cup rows
  BY <1>1
<1> QED
  BY <1>4, <1>7, <1>8 DEF seq

-----------------------------------------------------------------------------
(* The candles are those of the trades the cache was given. *)

\* A trade is known by its id wherever it is.
Seen == table \cup added \cup init.rows \cup (IF trader.pc = "idle" THEN {} ELSE {trader.row})
CacheInv ==
    /\ Keyed(Seen) /\ \A r \in Seen : r.id < nextId
    /\ CachesOf(caches, added)

LEMMA InitCache == Init => CacheInv
<1> SUFFICES ASSUME Init PROVE CacheInv
  OBVIOUS
<1>1. table \in Seeds /\ Seen = table
  BY DEF Init, Seen, NoInit, NoTrader
<1>2. table \in SUBSET Row /\ table # {} /\ Keyed(table)
  BY <1>1, FeedAssumption DEF Keyed
<1>3. \A r \in table : r.id < nextId
  <2>1. \A r \in table : r.id <= Max(Ids(table)) /\ r.id \in Int
    BY <1>2, LatestIdIn, RowTypes
  <2>2. Max(Ids(table)) \in Int
    BY <1>2, LatestIdIn, FeedAssumption DEF TradeIds
  <2> QED
    BY <2>1, <2>2 DEF Init
<1>4. CachesOf(caches, added)
  BY ResetOf DEF Init
<1> QED
  BY <1>1, <1>2, <1>3, <1>4 DEF CacheInv

LEMMA StepCache == FeedInv /\ CacheInv /\ [Next]_vars => CacheInv'
<1> SUFFICES ASSUME FeedInv, CacheInv, [Next]_vars PROVE CacheInv'
  OBVIOUS
<1> USE RecordUpdates
<1>1. /\ Keyed(Seen) /\ \A r \in Seen : r.id < nextId
      /\ CachesOf(caches, added)
  BY DEF CacheInv
<1>2. /\ added \in SUBSET Row /\ init.rows \in SUBSET Row /\ table \in SUBSET Row
      /\ (trader.pc # "idle" => trader.row \in Row) /\ nextId \in Nat
  BY FeedAssumption DEF FeedInv, TypeOK, ShapeInv
<1>3. \A r \in Seen : r.id \in Int
  BY <1>2, RowTypes DEF Seen
<1>4. ASSUME Seen' \subseteq Seen, nextId' = nextId
      PROVE  Keyed(Seen') /\ \A r \in Seen' : r.id < nextId'
  BY <1>1, <1>4 DEF Keyed
<1>5. ASSUME NEW auto \in BOOLEAN, TraderInsert(auto) PROVE CacheInv'
  <2> DEFINE row == [id |-> nextId, at |-> now, price |-> Price[nextId]]
  <2>1. Seen' \subseteq Seen \cup {row} /\ row.id = nextId /\ nextId' = nextId + 1
        /\ UNCHANGED <<caches, added>>
    BY <1>5 DEF TraderInsert, Seen
  <2> HIDE DEF row
  <2>2. Keyed(Seen')
    BY <1>1, <1>3, <2>1 DEF Keyed
  <2>3. \A r \in Seen' : r.id < nextId'
    BY <1>1, <1>2, <1>3, <2>1
  <2> QED
    BY <1>1, <2>1, <2>2, <2>3 DEF CacheInv
<1>6. CASE TraderSettle
  <2>1. /\ caches' = addCacheTrade(caches, trader.row) /\ added' = added \cup {trader.row}
        /\ trader.row \in Row /\ Seen' \subseteq Seen /\ nextId' = nextId
    BY <1>2, <1>6 DEF TraderSettle, dbVars, Seen
  <2>2. CachesOf(caches', added')
    BY <1>1, <1>2, <2>1, AddTradeOf
  <2> QED
    BY <1>4, <2>1, <2>2 DEF CacheInv
<1>7. CASE InitReset \/ Restart
  <2>1. /\ caches' = resetCacheTrade(Grains) /\ added' = {}
        /\ Seen' \subseteq Seen /\ nextId' = nextId
    <3>1. CASE InitReset
      <4>1. init'.rows = init.rows
        BY <3>1 DEF InitReset, FeedInv, ShapeInv
      <4> QED
        BY <3>1, <4>1 DEF InitReset, dbVars, Seen
    <3>2. CASE Restart
      BY <3>2 DEF Restart, dbVars, Seen
    <3> QED
      BY <1>7, <3>1, <3>2
  <2> QED
    BY <1>4, <2>1, ResetOf DEF CacheInv
<1>8. CASE InitFill
  <2>1. /\ caches' = Fill(caches, InOrder(init.rows)) /\ added' = added \cup init.rows
        /\ Seen' \subseteq Seen /\ nextId' = nextId
    BY <1>8 DEF InitFill, dbVars, Seen, Fill
  <2>2. Keyed(init.rows)
    BY <1>1 DEF Keyed, Seen
  <2>3. CachesOf(caches', added')
    BY <1>1, <1>2, <2>1, <2>2, FillOf
  <2> QED
    BY <1>4, <2>1, <2>3 DEF CacheInv
<1>9. CASE TraderUpdate \/ TraderCommit \/ TraderCommitFails
  <2>1. Seen' \subseteq Seen /\ UNCHANGED <<nextId, caches, added>>
    <3>1. CASE TraderUpdate
      <4>1. trader'.row = trader.row
        BY <3>1 DEF TraderUpdate, FeedInv, ShapeInv
      <4> QED
        BY <3>1, <4>1 DEF TraderUpdate, Seen
    <3>2. CASE TraderCommit
      BY <3>2 DEF TraderCommit, Seen
    <3>3. CASE TraderCommitFails
      BY <3>3 DEF TraderCommitFails, dbVars, Seen
    <3> QED
      BY <1>9, <3>1, <3>2, <3>3
  <2> QED
    BY <1>1, <1>4, <2>1 DEF CacheInv
<1>10. CASE InitDelete \/ InitSelect
  <2>1. Seen' \subseteq Seen /\ UNCHANGED <<nextId, caches, added>>
    BY <1>10 DEF InitDelete, InitSelect, NoInit, dbVars, Seen
  <2> QED
    BY <1>1, <1>4, <2>1 DEF CacheInv
<1>11. CASE Tick \/ Poll \/ InfoStep \/ InfoFails \/ Reload \/ UNCHANGED vars
  <2>1. UNCHANGED <<table, nextId, trader, init, caches, added>>
    BY <1>11 DEF Tick, Poll, InfoStep, InfoFails, Reload, vars, dbVars, serverVars,
                 ReadCursorTrade, ReadLatest, ReadOrders, Answer, NeverAnswered
  <2>2. Seen' = Seen
    BY <2>1 DEF Seen
  <2> QED
    BY <1>1, <1>4, <2>1, <2>2 DEF CacheInv
<1> QED
  BY <1>5, <1>6, <1>7, <1>8, <1>9, <1>10, <1>11 DEF Next, TraderStep, InitStep

LEMMA CacheInvariant == Spec => [](FeedInv /\ CacheInv)
<1>1. Init => FeedInv /\ CacheInv
  BY InitFeed, InitCache
<1>2. FeedInv /\ CacheInv /\ [Next]_vars => (FeedInv /\ CacheInv)'
  BY StepFeed, StepCache
<1> QED
  BY <1>1, <1>2, PTL DEF Spec

\* In every state of the server, whatever the order in which the matching run
\* and /initialize gave the trades, the candles are the GROUP BY of the trades
\* the cache was given, each under one key.
THEOREM FeedCandlesSummarise == Spec => []CandlesSummarise
<1>1. FeedInv /\ CacheInv => CandlesSummarise
  <2> SUFFICES ASSUME FeedInv, CacheInv PROVE CandlesSummarise
    OBVIOUS
  <2>1. added \in SUBSET Row /\ Keyed(added) /\ CachesOf(caches, added)
    BY DEF FeedInv, TypeOK, CacheInv, Keyed, Seen
  <2> QED
    BY <2>1, CachesSummarise DEF CandlesSummarise
<1> QED
  BY <1>1, CacheInvariant, PTL

-----------------------------------------------------------------------------
(* Times and their candles. *)

LEMMA DivMod ==
    ASSUME NEW t \in Int, NEW g \in Nat \ {0}
    PROVE  /\ t = g * (t \div g) + (t % g) /\ t % g \in Int /\ 0 <= t % g /\ t % g < g
           /\ t \div g \in Int
  OBVIOUS

LEMMA NextMultiple ==
    ASSUME NEW q \in Int, NEW p \in Int, NEW g \in Nat \ {0}, q > p
    PROVE  g * q >= g * p + g
<1>1. PICK d \in Nat : q = p + 1 + d
  <2>1. q - p - 1 \in Nat /\ q = p + 1 + (q - p - 1)
    OBVIOUS
  <2> QED
    BY <2>1
<1>2. g * (p + 1 + d) = g * p + g + g * d
  OBVIOUS
<1>3. g * d >= 0 /\ g * d \in Int /\ g * p \in Int
  OBVIOUS
<1> QED
  BY <1>1, <1>2, <1>3

\* Later times have no earlier candle.
LEMMA TruncMonotone ==
    ASSUME NEW s \in Int, NEW t \in Int, s <= t, NEW g \in Nat \ {0}
    PROVE  Trunc(s, g) <= Trunc(t, g)
<1> USE DEF Trunc
<1>1. /\ s = g * (s \div g) + (s % g) /\ s % g \in Int /\ 0 <= s % g /\ s % g < g
      /\ s \div g \in Int
  BY DivMod
<1>2. /\ t = g * (t \div g) + (t % g) /\ t % g \in Int /\ 0 <= t % g /\ t % g < g
      /\ t \div g \in Int
  BY DivMod
<1>3. CASE s \div g > t \div g
  <2>1. g * (s \div g) >= g * (t \div g) + g
    BY <1>1, <1>2, <1>3, NextMultiple
  <2> QED
    BY <1>1, <1>2, <2>1
<1>4. CASE s \div g <= t \div g
  <2>1. g * (s \div g) <= g * (t \div g)
    <3>1. CASE s \div g = t \div g
      BY <3>1
    <3>2. CASE s \div g < t \div g
      BY <1>1, <1>2, <3>2, NextMultiple
    <3> QED
      BY <1>1, <1>2, <1>4, <3>1, <3>2
  <2> QED
    BY <1>1, <1>2, <2>1
<1> QED
  BY <1>1, <1>2, <1>3, <1>4

LEMMA TruncTwice ==
    ASSUME NEW t \in Int, NEW g \in Nat \ {0}
    PROVE  /\ Trunc(t, g) \in Int /\ Trunc(t, g) <= t
           /\ Trunc(Trunc(t, g), g) = Trunc(t, g)
<1> DEFINE u == t - (t % g)
<1>1. /\ t = g * (t \div g) + (t % g) /\ t % g \in Int /\ 0 <= t % g /\ t % g < g
      /\ t \div g \in Int
  BY DivMod
<1>2. /\ u = g * (u \div g) + (u % g) /\ u % g \in Int /\ 0 <= u % g /\ u % g < g
      /\ u \div g \in Int
  BY <1>1, DivMod
<1>3. u = g * (t \div g)
  BY <1>1
<1> HIDE DEF u
<1>4. ~(u \div g > t \div g)
  BY <1>1, <1>2, <1>3, NextMultiple
<1>5. ~(u \div g < t \div g)
  BY <1>1, <1>2, <1>3, NextMultiple
<1>6. u \div g = t \div g
  BY <1>1, <1>2, <1>4, <1>5
<1>7. u % g = 0
  BY <1>1, <1>2, <1>3, <1>6
<1> QED
  BY <1>1, <1>2, <1>7 DEF u, Trunc

\* Where /info starts is the time of a candle.
LEMMA BoundIsCandle ==
    ASSUME NEW g \in Grains, NEW since \in Int
    PROVE  LowerBound(g, since) \in Int /\ Trunc(LowerBound(g, since), g) = LowerBound(g, since)
<1>1. g \in Nat \ {0} /\ Base - Lookback[g] \in Int
      /\ Trunc(Base - Lookback[g], g) = Base - Lookback[g]
  BY FeedAssumption
<1> QED
  BY <1>1, TruncTwice DEF LowerBound

\* A trade is not older than the bound when its candle is not.
LEMMA PastBound ==
    ASSUME NEW g \in Grains, NEW b \in Int, Trunc(b, g) = b, NEW t \in Int
    PROVE  t >= b <=> Trunc(t, g) >= b
<1>1. g \in Nat \ {0}
  BY FeedAssumption
<1>2. Trunc(t, g) \in Int /\ Trunc(t, g) <= t
  BY <1>1, TruncTwice
<1>3. t >= b => Trunc(b, g) <= Trunc(t, g)
  BY <1>1, TruncMonotone
<1> QED
  BY <1>2, <1>3
-----------------------------------------------------------------------------
(* The binary search. *)

KeysAscend(keys) == \A i, j \in DOMAIN keys : i < j => keys[i] < keys[j]

\* The first position after lower that is not before the bound, or upper.
IsFirst(p, keys, b, lower, upper) ==
    /\ p \in (lower + 1)..upper /\ (p = upper \/ keys[p] >= b)
    /\ \A q \in (lower + 1)..(p - 1) : keys[q] < b

LEMMA FirstExists ==
    ASSUME NEW n \in Nat, NEW keys \in [1..n -> Int], NEW b \in Int,
           NEW lower \in 0..n, NEW upper \in 0..n, upper > lower
    PROVE  \E p : IsFirst(p, keys, b, lower, upper)
<1> DEFINE P == {p \in (lower + 1)..upper : p = upper \/ keys[p] >= b}
<1>1. P \in SUBSET Int /\ P # {}
  <2>1. upper \in P
    OBVIOUS
  <2> QED
    BY <2>1
<1>2. IsFiniteSet(P)
  <2>1. P \in SUBSET ((lower + 1)..upper) /\ IsFiniteSet((lower + 1)..upper)
    BY FS_Interval
  <2> HIDE DEF P
  <2> QED
    BY <2>1, FS_Subset
<1>3. PICK p \in P : \A q \in P : p <= q
  <2> HIDE DEF P
  <2> QED
    BY <1>1, <1>2, TopExists
<1>4. ASSUME NEW q \in (lower + 1)..(p - 1) PROVE keys[q] < b
  <2>1. q \notin P /\ q \in (lower + 1)..upper /\ q \in 1..n
    BY <1>3
  <2> QED
    BY <2>1
<1>5. p \in (lower + 1)..upper /\ (p = upper \/ keys[p] >= b)
  BY <1>3
<1> HIDE DEF P
<1> QED
  BY <1>4, <1>5 DEF IsFirst

LEMMA FirstUnique ==
    ASSUME NEW n \in Nat, NEW keys \in [1..n -> Int], NEW b \in Int,
           NEW lower \in 0..n, NEW upper \in 0..n,
           NEW p, IsFirst(p, keys, b, lower, upper),
           NEW r, IsFirst(r, keys, b, lower, upper)
    PROVE  p = r
<1> USE DEF IsFirst
<1>1. ~(p < r)
  <2>1. SUFFICES ASSUME p < r PROVE FALSE
    OBVIOUS
  <2>2. keys[p] < b /\ p # upper /\ keys[p] \in Int
    BY <2>1
  <2> QED
    BY <2>2
<1>2. ~(r < p)
  <2>1. SUFFICES ASSUME r < p PROVE FALSE
    OBVIOUS
  <2>2. keys[r] < b /\ r # upper /\ keys[r] \in Int
    BY <2>1
  <2> QED
    BY <2>2
<1> QED
  BY <1>1, <1>2

\* The half that the search takes has it.
LEMMA FirstHalves ==
    ASSUME NEW n \in Nat, NEW keys \in [1..n -> Int], KeysAscend(keys), NEW b \in Int,
           NEW lower \in 0..n, NEW upper \in 0..n, NEW mid \in 0..n,
           lower < mid, mid < upper,
           NEW p, IsFirst(p, keys, b, IF keys[mid] < b THEN mid ELSE lower,
                                      IF keys[mid] < b THEN upper ELSE mid)
    PROVE  IsFirst(p, keys, b, lower, upper)
<1>1. CASE keys[mid] < b
  <2>1. IsFirst(p, keys, b, mid, upper)
    BY <1>1
  <2>2. ASSUME NEW q \in (lower + 1)..(p - 1) PROVE keys[q] < b
    <3>1. q \in 1..n /\ keys[q] \in Int /\ keys[mid] \in Int /\ mid \in 1..n
      BY <2>1 DEF IsFirst
    <3>2. CASE q <= mid
      <4>1. keys[q] <= keys[mid]
        BY <3>1, <3>2 DEF KeysAscend
      <4> QED
        BY <1>1, <3>1, <4>1
    <3>3. CASE q > mid
      BY <2>1, <3>3 DEF IsFirst
    <3> QED
      BY <3>1, <3>2, <3>3
  <2> QED
    BY <2>1, <2>2 DEF IsFirst
<1>2. CASE ~(keys[mid] < b)
  <2>1. IsFirst(p, keys, b, lower, mid)
    BY <1>2
  <2>2. keys[mid] >= b
    BY <1>2
  <2> QED
    BY <2>1, <2>2 DEF IsFirst
<1> QED
  BY <1>1, <1>2

\* findMinKeyPos: the first key not before the bound, or the last one.
Ranges(n) == (0..n) \X (0..n)
Mid(range) == (range[2] + range[1]) \div 2
Search(f, keys, b, n) ==
    f = [range \in Ranges(n) |->
           IF range[2] - range[1] <= 1 THEN range[2]
           ELSE IF keys[Mid(range)] < b THEN f[<<Mid(range), range[2]>>]
                                        ELSE f[<<range[1], Mid(range)>>]]

LEMMA SearchExists ==
    ASSUME NEW n \in Nat, NEW keys \in [1..n -> Int], KeysAscend(keys), NEW b \in Int
    PROVE  \E f : Search(f, keys, b, n)
<1> DEFINE first(range) == CHOOSE p : IsFirst(p, keys, b, range[1], range[2])
           f == [range \in Ranges(n) |->
                   IF range[2] - range[1] <= 1 THEN range[2] ELSE first(range)]
<1>1. ASSUME NEW range \in Ranges(n), range[2] > range[1]
      PROVE  IsFirst(f[range], keys, b, range[1], range[2])
  <2>1. range[1] \in 0..n /\ range[2] \in 0..n
    BY DEF Ranges
  <2>2. IsFirst(first(range), keys, b, range[1], range[2])
    BY <1>1, <2>1, FirstExists
  <2> HIDE DEF first
  <2>3. CASE range[2] - range[1] <= 1
    <3>1. range[2] = range[1] + 1 /\ f[range] = range[2]
      BY <1>1, <2>1, <2>3
    <3> QED
      BY <2>1, <2>2, <3>1 DEF IsFirst
  <2>4. CASE ~(range[2] - range[1] <= 1)
    BY <2>2, <2>4
  <2> QED
    BY <2>3, <2>4
<1>2. ASSUME NEW range \in Ranges(n), ~(range[2] - range[1] <= 1)
      PROVE  f[range] = IF keys[Mid(range)] < b THEN f[<<Mid(range), range[2]>>]
                                                ELSE f[<<range[1], Mid(range)>>]
  <2> DEFINE mid == Mid(range)
             lo == IF keys[mid] < b THEN mid ELSE range[1]
             up == IF keys[mid] < b THEN range[2] ELSE mid
  <2>1. range[1] \in 0..n /\ range[2] \in 0..n
    BY DEF Ranges
  <2>2. mid \in 0..n /\ range[1] < mid /\ mid < range[2]
    BY <1>2, <2>1 DEF Mid
  <2> HIDE DEF f, mid
  <2>3. lo \in 0..n /\ up \in 0..n /\ lo < up
    BY <2>1, <2>2
  <2>4. IsFirst(f[<<lo, up>>], keys, b, lo, up)
    <3> HIDE DEF lo, up
    <3>1. <<lo, up>> \in Ranges(n)
      BY <2>3 DEF Ranges
    <3> QED
      BY <1>1, <2>3, <3>1
  <2>5. IsFirst(f[<<lo, up>>], keys, b, range[1], range[2])
    BY <2>1, <2>2, <2>4, FirstHalves
  <2>6. IsFirst(f[range], keys, b, range[1], range[2])
    BY <1>1, <1>2, <2>1
  <2>7. f[range] = f[<<lo, up>>]
    <3> DEFINE p == f[range]
               r == f[<<lo, up>>]
               from == range[1]
               to == range[2]
    <3>1. from \in 0..n /\ to \in 0..n
      BY <2>1
    <3>2. IsFirst(p, keys, b, from, to) /\ IsFirst(r, keys, b, from, to)
      BY <2>5, <2>6
    <3> HIDE DEF p, r, from, to
    <3>3. p = r
      BY <3>1, <3>2, FirstUnique
    <3> QED
      BY <3>3 DEF p, r
  <2> QED
    BY <2>7 DEF mid
<1>3. \A range \in Ranges(n) :
        f[range] = IF range[2] - range[1] <= 1 THEN range[2]
                   ELSE IF keys[Mid(range)] < b THEN f[<<Mid(range), range[2]>>]
                                                ELSE f[<<range[1], Mid(range)>>]
  <2>1. ASSUME NEW range \in Ranges(n), range[2] - range[1] <= 1 PROVE f[range] = range[2]
    <3> HIDE DEF first
    <3> QED
      BY <2>1
  <2> HIDE DEF f
  <2> QED
    BY <1>2, <2>1
<1>4. f = [range \in Ranges(n) |-> f[range]]
  <2> HIDE DEF first
  <2> QED
    OBVIOUS
<1> HIDE DEF f
<1>5. Search(f, keys, b, n)
  BY <1>3, <1>4 DEF Search
<1> QED
  BY <1>5

LEMMA SearchHalves ==
    ASSUME NEW n \in Nat, NEW keys \in [1..n -> Int], KeysAscend(keys), NEW b \in Int,
           NEW f, Search(f, keys, b, n), NEW range \in Ranges(n), ~(range[2] - range[1] <= 1)
    PROVE  \E lo, up \in 0..n :
             /\ lo < up /\ up - lo < range[2] - range[1] /\ f[range] = f[<<lo, up>>]
             /\ \A p : IsFirst(p, keys, b, lo, up) => IsFirst(p, keys, b, range[1], range[2])
<1> DEFINE mid == Mid(range)
<1>1. range[1] \in 0..n /\ range[2] \in 0..n
  BY DEF Ranges
<1>2. mid \in 0..n /\ range[1] < mid /\ mid < range[2]
  <2> DEFINE from == range[1]
             to == range[2]
  <2>1. from \in 0..n /\ to \in 0..n /\ ~(to - from <= 1) /\ mid = (to + from) \div 2
    BY <1>1 DEF Mid
  <2> HIDE DEF from, to, mid
  <2>2. mid \in 0..n /\ from < mid /\ mid < to
    BY <2>1
  <2> QED
    BY <2>2 DEF from, to
<1>3. f[range] = IF keys[mid] < b THEN f[<<mid, range[2]>>] ELSE f[<<range[1], mid>>]
  BY DEF Search
<1> HIDE DEF mid
<1>4. CASE keys[mid] < b
  <2>1. \A p : IsFirst(p, keys, b, mid, range[2]) => IsFirst(p, keys, b, range[1], range[2])
    <3>1. ASSUME NEW p, IsFirst(p, keys, b, mid, range[2])
          PROVE  IsFirst(p, keys, b, range[1], range[2])
      <4> DEFINE from == range[1]
                 to == range[2]
      <4>1. /\ from \in 0..n /\ to \in 0..n /\ from < mid /\ mid < to
            /\ IsFirst(p, keys, b, IF keys[mid] < b THEN mid ELSE from,
                                   IF keys[mid] < b THEN to ELSE mid)
        BY <1>1, <1>2, <1>4, <3>1
      <4> HIDE DEF from, to
      <4>2. IsFirst(p, keys, b, from, to)
        BY <1>2, <4>1, FirstHalves
      <4> QED
        BY <4>2 DEF from, to
    <3> QED
      BY <3>1
  <2>2. f[range] = f[<<mid, range[2]>>]
    BY <1>3, <1>4
  <2>3. range[2] - mid < range[2] - range[1]
    BY <1>1, <1>2
  <2> QED
    BY <1>1, <1>2, <2>1, <2>2, <2>3
<1>5. CASE ~(keys[mid] < b)
  <2>1. \A p : IsFirst(p, keys, b, range[1], mid) => IsFirst(p, keys, b, range[1], range[2])
    BY <1>1, <1>2, <1>5, FirstHalves
  <2>2. f[range] = f[<<range[1], mid>>]
    BY <1>3, <1>5
  <2>3. mid - range[1] < range[2] - range[1]
    BY <1>1, <1>2
  <2> QED
    BY <1>1, <1>2, <2>1, <2>2, <2>3
<1> QED
  BY <1>4, <1>5

LEMMA SearchFinds ==
    ASSUME NEW n \in Nat, NEW keys \in [1..n -> Int], KeysAscend(keys), NEW b \in Int,
           NEW f, Search(f, keys, b, n), NEW range \in Ranges(n), range[2] > range[1]
    PROVE  IsFirst(f[range], keys, b, range[1], range[2])
<1> DEFINE Found(r) == r[2] > r[1] => IsFirst(f[r], keys, b, r[1], r[2])
           G == {k \in 0..n : \A r \in Ranges(n) : r[2] - r[1] <= k => Found(r)}
<1>1. \A r \in Ranges(n) : r[1] \in 0..n /\ r[2] \in 0..n
  BY DEF Ranges
<1>2. 0 \in G
  <2>1. \A r \in Ranges(n) : r[2] - r[1] <= 0 => ~(r[2] > r[1])
    BY <1>1
  <2> QED
    BY <2>1
<1>3. ASSUME NEW k \in 1..n, k - 1 \in G PROVE k \in G
  <2>1. SUFFICES ASSUME NEW r \in Ranges(n), r[2] - r[1] <= k, r[2] > r[1]
                 PROVE  IsFirst(f[r], keys, b, r[1], r[2])
    OBVIOUS
  <2>2. f[r] = IF r[2] - r[1] <= 1 THEN r[2]
               ELSE IF keys[Mid(r)] < b THEN f[<<Mid(r), r[2]>>]
                                        ELSE f[<<r[1], Mid(r)>>]
    BY DEF Search
  <2>3. CASE r[2] - r[1] <= 1
    <3>1. f[r] = r[2] /\ r[2] = r[1] + 1
      BY <1>1, <2>1, <2>2, <2>3
    <3> QED
      BY <1>1, <3>1 DEF IsFirst
  <2>4. CASE ~(r[2] - r[1] <= 1)
    <3>1. PICK lo \in 0..n, up \in 0..n :
            /\ lo < up /\ up - lo < r[2] - r[1] /\ f[r] = f[<<lo, up>>]
            /\ \A p : IsFirst(p, keys, b, lo, up) => IsFirst(p, keys, b, r[1], r[2])
      BY <2>4, SearchHalves
    <3>2. <<lo, up>> \in Ranges(n) /\ <<lo, up>>[1] = lo /\ <<lo, up>>[2] = up
      BY DEF Ranges
    <3>3. up - lo <= k - 1
      <4>1. r[1] \in 0..n /\ r[2] \in 0..n
        BY <1>1
      <4> QED
        BY <2>1, <3>1, <4>1
    <3>4. \A s \in Ranges(n) : s[2] - s[1] <= k - 1 => Found(s)
      BY <1>3
    <3>5. Found(<<lo, up>>)
      BY <3>2, <3>3, <3>4
    <3> QED
      BY <3>1, <3>2, <3>5
  <2> QED
    BY <2>3, <2>4
<1>4. n \in G
  <2>1. G \in SUBSET (0..n) /\ \A k \in 1..n : k - 1 \in G => k \in G
    BY <1>3
  <2> HIDE DEF G
  <2>2. G = 0..n
    BY <1>2, <2>1, CountUp
  <2> QED
    BY <2>2
<1>5. Found(range)
  <2>1. range[2] - range[1] <= n
    BY <1>1
  <2> QED
    BY <1>4, <2>1
<1> QED
  BY <1>5

LEMMA MinKeyPos ==
    ASSUME NEW keys \in Seq(Int), keys # <<>>, KeysAscend(keys), NEW b \in Int
    PROVE  IsFirst(findMinKeyPos(keys, b), keys, b, 0, Len(keys))
<1> DEFINE n == Len(keys)
           f == CHOOSE h : Search(h, keys, b, n)
<1>1. n \in Nat /\ n > 0 /\ keys \in [1..n -> Int]
  OBVIOUS
<1>2. Search(f, keys, b, n)
  <2> HIDE DEF n
  <2> QED
    BY <1>1, SearchExists
<1>3. findMinKeyPos(keys, b) = f[<<0, n>>]
  BY DEF findMinKeyPos, Search, Ranges, Mid
<1> HIDE DEF f, n
<1>4. <<0, n>> \in Ranges(n) /\ <<0, n>>[1] = 0 /\ <<0, n>>[2] = n
  BY <1>1 DEF Ranges
<1>5. IsFirst(f[<<0, n>>], keys, b, 0, n)
  BY <1>1, <1>2, <1>4, SearchFinds
<1> QED
  BY <1>3, <1>5 DEF n

\* What /info sends of a cache with its keys in order.
LEMMA ChartIsQuery ==
    ASSUME NEW rows \in SUBSET Row, Keyed(rows), rows # {}, NEW g \in Grains,
           NEW c, CacheOf(c, rows, g), KeysAscend(c.keys), NEW b \in Int, Trunc(b, g) = b
    PROVE  LET chart == getCacheCandlestick(c, b)
               query == getCandlesticData(rows, g, b)
           IN Ascending(chart) /\ (ToSet(chart) = query \/ (query = {} /\ Len(chart) = 1))
<1> DEFINE keys == c.keys
           n == Len(keys)
           pos == findMinKeyPos(keys, b)
           m == n - pos + 1
           chart == getCacheCandlestick(c, b)
           query == getCandlesticData(rows, g, b)
<1>1. /\ keys \in Seq(Int) /\ n \in Nat /\ DOMAIN keys = 1..n /\ keys \in [1..n -> Int]
      /\ ToSet(keys) = DOMAIN c.sum
  BY DEF CacheOf, Cache
<1>2. keys # <<>>
  <2>1. PICK r \in rows : TRUE
    OBVIOUS
  <2>2. Trunc(r.at, g) \in ToSet(keys)
    BY <1>1, <2>1 DEF CacheOf
  <2> QED
    BY <1>1, <2>2 DEF ToSet
<1>3. IsFirst(pos, keys, b, 0, n)
  BY <1>1, <1>2, MinKeyPos
<1>4. /\ pos \in 1..n /\ (pos = n \/ keys[pos] >= b)
      /\ \A q \in 1..(pos - 1) : keys[q] < b
  <2> HIDE DEF keys, n, pos
  <2> QED
    BY <1>3 DEF IsFirst
<1>5. m \in 1..n
  <2> HIDE DEF keys, n, pos
  <2> QED
    BY <1>1, <1>4
<1>6. chart = [i \in 1..m |-> Sent(c.sum[keys[pos + i - 1]])]
  BY DEF getCacheCandlestick
<1>7. query = {Summary(rows, g, Trunc(r.at, g)) : r \in {q \in rows : q.at >= b}}
  BY DEF getCandlesticData
<1> HIDE DEF keys, n, pos, m, chart, query
<1>8. \A i \in 1..m : pos + i - 1 \in pos..n /\ pos + i - 1 \in 1..n
  BY <1>1, <1>4, <1>5 DEF m
<1>9. \A p \in pos..n : p - pos + 1 \in 1..m /\ p = pos + (p - pos + 1) - 1 /\ p \in 1..n
  BY <1>1, <1>4, <1>5 DEF m
<1>10. \A p \in 1..n : keys[p] \in DOMAIN c.sum /\ keys[p] \in Int
  BY <1>1 DEF ToSet
<1>11. \A k \in DOMAIN c.sum : Sent(c.sum[k]) = Summary(rows, g, k) /\ Sent(c.sum[k]).t = k
  <2>1. \A k \in DOMAIN c.sum : CandleOf(c.sum[k], Group(rows, g, k), k)
    BY DEF CacheOf
  <2>2. \A k \in DOMAIN c.sum : Sent(c.sum[k]) = Summary(rows, g, k)
    BY <2>1, SentIsSummary
  <2> QED
    BY <2>1, <2>2 DEF CandleOf, Sent
<1>12. \A i \in 1..m : chart[i] = Summary(rows, g, keys[pos + i - 1])
                       /\ chart[i].t = keys[pos + i - 1]
  BY <1>6, <1>8, <1>10, <1>11
<1>13. Ascending(chart)
  <2>1. ASSUME NEW i \in 1..m, NEW j \in 1..m, i < j PROVE chart[i].t < chart[j].t
    <3>1. pos + i - 1 < pos + j - 1
      BY <1>4, <2>1
    <3>2. keys[pos + i - 1] < keys[pos + j - 1]
      BY <1>1, <1>8, <3>1 DEF KeysAscend, keys
    <3> QED
      BY <1>12, <3>2
  <2>2. DOMAIN chart = 1..m
    BY <1>6
  <2> QED
    BY <2>1, <2>2 DEF Ascending
<1>14. ToSet(chart) = {Summary(rows, g, keys[p]) : p \in pos..n}
  <2>1. DOMAIN chart = 1..m
    BY <1>6
  <2>2. \A i \in 1..m : \E p \in pos..n : chart[i] = Summary(rows, g, keys[p])
    BY <1>8, <1>12
  <2>3. \A p \in pos..n : \E i \in 1..m : chart[i] = Summary(rows, g, keys[p])
    BY <1>9, <1>12
  <2>4. ToSet(chart) = {chart[i] : i \in 1..m}
    BY <2>1 DEF ToSet
  <2> QED
    BY <2>2, <2>3, <2>4
<1>15. \A p \in 1..n : \E r \in rows : keys[p] = Trunc(r.at, g)
  BY <1>10 DEF CacheOf
<1>16. \A r \in rows : \E p \in 1..n : keys[p] = Trunc(r.at, g)
  <2>1. \A r \in rows : Trunc(r.at, g) \in ToSet(keys)
    BY <1>1 DEF CacheOf
  <2> QED
    BY <1>1, <2>1 DEF ToSet
<1>17. \A r \in rows : r.at >= b <=> Trunc(r.at, g) >= b
  BY RowTypes, PastBound
<1>18. query = {Summary(rows, g, keys[p]) : p \in {q \in 1..n : keys[q] >= b}}
  <2>1. \A r \in rows : r.at >= b => \E p \in 1..n : keys[p] >= b /\ keys[p] = Trunc(r.at, g)
    BY <1>16, <1>17
  <2>2. \A p \in 1..n : keys[p] >= b => \E r \in rows : r.at >= b /\ keys[p] = Trunc(r.at, g)
    BY <1>15, <1>17
  <2> QED
    BY <1>7, <2>1, <2>2
<1>19. CASE keys[pos] >= b
  <2>1. ASSUME NEW q \in 1..n PROVE keys[q] >= b <=> q \in pos..n
    <3>1. CASE q < pos
      <4>1. keys[q] < b
        BY <1>4, <3>1
      <4> QED
        BY <1>4, <1>10, <3>1, <4>1
    <3>2. CASE q = pos
      BY <1>4, <1>19, <3>2
    <3>3. CASE q > pos
      <4>1. keys[pos] < keys[q]
        BY <1>1, <1>4, <3>3 DEF KeysAscend, keys
      <4> QED
        BY <1>4, <1>10, <1>19, <3>3, <4>1
    <3> QED
      BY <1>4, <3>1, <3>2, <3>3
  <2>2. {q \in 1..n : keys[q] >= b} = pos..n
    BY <1>9, <2>1
  <2> QED
    BY <1>13, <1>14, <1>18, <2>2 DEF chart, query
<1>20. CASE ~(keys[pos] >= b)
  <2>1. pos = n /\ keys[n] < b
    BY <1>4, <1>10, <1>20
  <2>2. \A q \in 1..n : ~(keys[q] >= b)
    BY <1>4, <1>10, <2>1
  <2>3. query = {}
    BY <1>18, <2>2
  <2>4. Len(chart) = 1
    <3>1. m = 1
      BY <1>1, <2>1 DEF m
    <3> QED
      BY <1>6, <3>1
  <2> QED
    BY <1>13, <2>3, <2>4 DEF chart, query
<1> QED
  BY <1>19, <1>20
-----------------------------------------------------------------------------
(* While no trade meets /initialize the keys are in the order of time. *)

SortedOf(cs, rows) == CachesOf(cs, rows) /\ \A g \in Grains : KeysAscend(cs[g].keys)

LEMMA AddTradeSorted ==
    ASSUME NEW rows \in SUBSET Row, NEW r \in Row, \A s \in rows : s.at <= r.at,
           NEW cs, SortedOf(cs, rows)
    PROVE  SortedOf(addCacheTrade(cs, r), rows \cup {r})
<1>1. CachesOf(addCacheTrade(cs, r), rows \cup {r})
  BY AddTradeOf DEF SortedOf
<1>2. ASSUME NEW g \in Grains PROVE KeysAscend(addCacheTrade(cs, r)[g].keys)
  <2> DEFINE c == cs[g]
             key == Trunc(r.at, g)
             d == updateSum(key, c, r)
  <2>1. addCacheTrade(cs, r)[g] = d
    BY DEF addCacheTrade, SortedOf, CachesOf
  <2>2. CacheOf(c, rows, g) /\ KeysAscend(c.keys) /\ c \in Cache /\ c.keys \in Seq(Int)
    BY DEF SortedOf, CachesOf, CacheOf, Cache
  <2>3. key \in Int /\ \A s \in rows : Trunc(s.at, g) <= key /\ Trunc(s.at, g) \in Int
    <3>1. g \in Nat \ {0}
      BY FeedAssumption
    <3> QED
      BY <3>1, RowTypes, TruncMonotone
  <2> HIDE DEF c, key
  <2>4. CASE key \in DOMAIN c.sum
    <3>1. d.keys = c.keys
      BY <2>2, <2>4 DEF updateSum, Cache
    <3> QED
      BY <2>1, <2>2, <3>1
  <2>5. CASE key \notin DOMAIN c.sum
    <3>1. d.keys = Append(c.keys, key)
      BY <2>5 DEF updateSum
    <3>2. \A k \in DOMAIN c.sum : k < key
      BY <2>2, <2>3, <2>5 DEF CacheOf
    <3>3. \A i \in 1..Len(c.keys) : c.keys[i] \in DOMAIN c.sum
      <4>1. DOMAIN c.keys = 1..Len(c.keys)
        BY <2>2
      <4> QED
        BY <2>2, <4>1 DEF CacheOf, ToSet
    <3> HIDE DEF d
    <3>4. /\ DOMAIN d.keys = 1..Len(c.keys) + 1 /\ d.keys[Len(c.keys) + 1] = key
          /\ \A i \in 1..Len(c.keys) : d.keys[i] = c.keys[i]
          /\ DOMAIN c.keys = 1..Len(c.keys) /\ Len(c.keys) \in Nat
      BY <2>2, <2>3, <3>1
    <3>5. ASSUME NEW i \in DOMAIN d.keys, NEW j \in DOMAIN d.keys, i < j
          PROVE  d.keys[i] < d.keys[j]
      <4>1. i \in 1..Len(c.keys) /\ (j \in 1..Len(c.keys) \/ j = Len(c.keys) + 1)
        BY <3>4, <3>5
      <4> QED
        BY <2>2, <3>2, <3>3, <3>4, <3>5, <4>1 DEF KeysAscend
    <3> QED
      BY <2>1, <3>5 DEF KeysAscend
  <2> QED
    BY <2>4, <2>5
<1> QED
  BY <1>1, <1>2 DEF SortedOf

LEMMA ResetSorted == SortedOf(resetCacheTrade(Grains), {})
  BY ResetOf DEF SortedOf, resetCacheTrade, KeysAscend

\* The rows of the table in the order of their ids are in the order of time.
InTime(rows) == \A r, s \in rows : r.id <= s.id => r.at <= s.at

LEMMA FillSorted ==
    ASSUME NEW cs, SortedOf(cs, {}), NEW rows \in SUBSET Row, Keyed(rows), InTime(rows)
    PROVE  SortedOf(Fill(cs, InOrder(rows)), rows)
<1> DEFINE seq == InOrder(rows)
           n == Cardinality(rows)
<1>1. /\ n \in Nat /\ seq \in [1..n -> rows] /\ InIdOrder(seq)
      /\ \A r \in rows : \E i \in 1..n : seq[i] = r
  BY InOrderOf
<1>2. \E h : StepsOfFill(h, FilledCaches, cs, seq, n)
  <2>1. {} \in SUBSET Row /\ CachesOf(cs, {})
    BY DEF SortedOf
  <2> QED
    BY <2>1, FillRuns
<1> HIDE DEF seq, n
<1>3. PICK h :
        /\ h[0] = cs /\ \A k \in 1..n : h[k] = addCacheTrade(h[k - 1], seq[k])
        /\ h[n] = Fill(cs, seq)
  BY <1>2 DEF StepsOfFill
<1> DEFINE upTo(k) == {seq[i] : i \in 1..k}
           G == {k \in 0..n : SortedOf(h[k], upTo(k))}
<1>4. 0 \in G
  <2>1. 1..0 = {} /\ 0 \in 0..n
    BY <1>1
  <2>2. upTo(0) = {}
    BY <2>1
  <2> QED
    BY <1>3, <2>1, <2>2
<1>5. ASSUME NEW k \in 1..n, k - 1 \in G PROVE k \in G
  <2>1. k \in 0..n /\ 1..k = (1..(k - 1)) \cup {k} /\ 1..k \subseteq 1..n
    BY <1>1
  <2>2. upTo(k) = upTo(k - 1) \cup {seq[k]}
    BY <2>1
  <2>3. upTo(k - 1) \in SUBSET Row /\ seq[k] \in Row /\ SortedOf(h[k - 1], upTo(k - 1))
    BY <1>1, <1>5, <2>1
  <2>4. \A s \in upTo(k - 1) : s.at <= seq[k].at
    <3>1. ASSUME NEW i \in 1..(k - 1) PROVE seq[i].at <= seq[k].at
      <4>1. i \in 1..n /\ i < k /\ DOMAIN seq = 1..n
        BY <1>1, <2>1
      <4>2. seq[i].id < seq[k].id
        BY <1>1, <4>1 DEF InIdOrder
      <4>3. seq[i] \in rows /\ seq[k] \in rows /\ seq[i].id <= seq[k].id
        BY <1>1, <4>1, <4>2, RowTypes
      <4> QED
        BY <4>3 DEF InTime
    <3> QED
      BY <3>1
  <2> HIDE DEF upTo
  <2>5. SortedOf(addCacheTrade(h[k - 1], seq[k]), upTo(k - 1) \cup {seq[k]})
    BY <2>3, <2>4, AddTradeSorted
  <2> QED
    BY <1>3, <2>1, <2>2, <2>5
<1>6. n \in G
  <2>1. G \in SUBSET (0..n) /\ \A k \in 1..n : k - 1 \in G => k \in G
    BY <1>5
  <2> HIDE DEF G
  <2>2. G = 0..n
    BY <1>1, <1>4, <2>1, CountUp
  <2> QED
    BY <1>1, <2>2
<1>7. upTo(n) = rows
  BY <1>1
<1> QED
  BY <1>3, <1>6, <1>7 DEF seq

-----------------------------------------------------------------------------
(* As long as no trade met /initialize: what the caches were given. *)

AgeInv == InTime(Seen) /\ \A r \in Seen : r.at <= now
KeysInv == ~overlap => \A g \in Grains : KeysAscend(caches[g].keys)

\* All trades, but for one that is inserted outside a transaction and not cached.
Covers(rows) ==
    \/ rows = table
    \/ trader.auto /\ trader.pc \in {"update", "bank"} /\ rows = table \ {trader.row}
GivenInv ==
    ~overlap =>
      /\ trader.pc # "idle" /\ trader.auto => trader.row \in table
      /\ init.pc # "idle" => trader.pc # "commit"
      /\ init.pc \in {"select", "fill"} => added = {}
      /\ init.pc = "fill" => Covers(init.rows)
      /\ filled /\ init.pc = "idle" =>
           IF trader.pc = "commit" THEN added = table \cup {trader.row} ELSE Covers(added)
OrderInv == AgeInv /\ KeysInv /\ GivenInv

LEMMA InitOrder == Init => OrderInv
<1> SUFFICES ASSUME Init PROVE OrderInv
  OBVIOUS
<1>1. table \in Seeds /\ Seen = table /\ now = Base
  BY DEF Init, Seen, NoInit, NoTrader
<1>2. AgeInv
  <2>1. \A r \in table : r.at < Base /\ r.at \in Int /\ Base \in Int
    BY <1>1, FeedAssumption, RowTypes
  <2> QED
    BY <1>1, <2>1, FeedAssumption DEF AgeInv, InTime
<1>3. KeysInv
  BY ResetSorted DEF Init, KeysInv, SortedOf
<1>4. GivenInv
  BY DEF Init, GivenInv, NoTrader, NoInit
<1> QED
  BY <1>2, <1>3, <1>4 DEF OrderInv

LEMMA StepAge ==
    ASSUME FeedInv, CacheInv, OrderInv, [Next]_vars
    PROVE  AgeInv'
<1> USE RecordUpdates
<1>1. /\ added \in SUBSET Row /\ init.rows \in SUBSET Row /\ table \in SUBSET Row
      /\ (trader.pc # "idle" => trader.row \in Row) /\ nextId \in Int /\ now \in Int
  BY FeedAssumption DEF FeedInv, TypeOK, ShapeInv
<1>2. \A r \in Seen : r.id \in Int /\ r.at \in Int /\ r.id < nextId /\ r.at <= now
  BY <1>1, RowTypes DEF Seen, CacheInv, OrderInv, AgeInv
<1>3. ASSUME Seen' \subseteq Seen, now' \in Int, now <= now' PROVE AgeInv'
  <2>1. InTime(Seen')
    BY <1>3 DEF OrderInv, AgeInv, InTime
  <2>2. \A r \in Seen' : r.at <= now'
    BY <1>1, <1>2, <1>3
  <2> QED
    BY <2>1, <2>2 DEF AgeInv
<1>4. ASSUME NEW auto \in BOOLEAN, TraderInsert(auto) PROVE AgeInv'
  <2> DEFINE row == [id |-> nextId, at |-> now, price |-> Price[nextId]]
  <2>1. Seen' \subseteq Seen \cup {row} /\ row.id = nextId /\ row.at = now /\ now' = now
    BY <1>4 DEF TraderInsert, Seen
  <2> HIDE DEF row
  <2>2. InTime(Seen')
    BY <1>1, <1>2, <2>1 DEF OrderInv, AgeInv, InTime
  <2>3. \A r \in Seen' : r.at <= now'
    BY <1>1, <1>2, <2>1
  <2> QED
    BY <2>2, <2>3 DEF AgeInv
<1>5. CASE Tick
  <2>1. Seen' = Seen /\ now' = now + 1
    BY <1>5 DEF Tick, serverVars, Seen
  <2> QED
    BY <1>1, <1>3, <2>1
<1>6. CASE TraderStep \/ InitDelete \/ InitStep \/ Restart
  <2>1. now' = now
    BY <1>6 DEF TraderStep, TraderUpdate, TraderSettle, TraderCommit, TraderCommitFails,
                InitDelete, InitStep, InitReset, InitSelect, InitFill, Restart, dbVars
  <2>2. Seen' \subseteq Seen
    <3>1. CASE TraderUpdate
      <4>1. trader'.row = trader.row
        BY <3>1 DEF TraderUpdate, FeedInv, ShapeInv
      <4> QED
        BY <3>1, <4>1 DEF TraderUpdate, Seen
    <3>2. CASE TraderSettle
      BY <3>2 DEF TraderSettle, dbVars, Seen, FeedInv, ShapeInv
    <3>3. CASE TraderCommit
      BY <3>3 DEF TraderCommit, Seen
    <3>4. CASE TraderCommitFails
      BY <3>4 DEF TraderCommitFails, dbVars, Seen
    <3>5. CASE InitDelete \/ InitSelect
      BY <3>5 DEF InitDelete, InitSelect, NoInit, dbVars, Seen
    <3>6. CASE InitReset
      <4>1. init'.rows = init.rows
        BY <3>6 DEF InitReset, FeedInv, ShapeInv
      <4> QED
        BY <3>6, <4>1 DEF InitReset, dbVars, Seen
    <3>7. CASE InitFill
      BY <3>7 DEF InitFill, dbVars, Seen
    <3>8. CASE Restart
      BY <3>8 DEF Restart, dbVars, Seen
    <3> QED
      BY <1>6, <3>1, <3>2, <3>3, <3>4, <3>5, <3>6, <3>7, <3>8 DEF TraderStep, InitStep
  <2> QED
    BY <1>1, <1>3, <2>1, <2>2
<1>7. CASE Poll \/ InfoStep \/ InfoFails \/ Reload \/ UNCHANGED vars
  <2>1. UNCHANGED <<table, now, trader, init, added>>
    BY <1>7 DEF Poll, InfoStep, InfoFails, Reload, vars, dbVars, serverVars,
                ReadCursorTrade, ReadLatest, ReadOrders, Answer, NeverAnswered
  <2>2. Seen' = Seen
    BY <2>1 DEF Seen
  <2> QED
    BY <1>1, <1>3, <2>1, <2>2
<1> QED
  BY <1>4, <1>5, <1>6, <1>7 DEF Next

LEMMA StepKeys ==
    ASSUME FeedInv, CacheInv, OrderInv, [Next]_vars
    PROVE  KeysInv'
<1> SUFFICES ASSUME ~overlap' PROVE \A g \in Grains : KeysAscend(caches'[g].keys)
  BY DEF KeysInv
<1>1. \/ caches' = caches /\ ~overlap
      \/ TraderSettle \/ InitReset \/ InitFill \/ Restart
  <2>1. CASE \E auto \in BOOLEAN : TraderInsert(auto)
    BY <2>1 DEF TraderInsert
  <2>2. CASE TraderUpdate \/ TraderCommit \/ TraderCommitFails \/ Tick
    BY <2>2 DEF TraderUpdate, TraderCommit, TraderCommitFails, Tick, serverVars
  <2>3. CASE InitDelete \/ InitSelect
    BY <2>3 DEF InitDelete, InitSelect
  <2>4. CASE Poll \/ InfoStep \/ InfoFails \/ Reload \/ UNCHANGED vars
    BY <2>4 DEF Poll, InfoStep, InfoFails, Reload, vars, serverVars, ReadCursorTrade,
                ReadLatest, ReadOrders, Answer, NeverAnswered
  <2> QED
    BY <2>1, <2>2, <2>3, <2>4 DEF Next, TraderStep, InitStep
<1>2. CASE caches' = caches /\ ~overlap
  BY <1>2 DEF OrderInv, KeysInv
<1>3. CASE InitReset \/ Restart
  BY <1>3, ResetSorted DEF InitReset, Restart, SortedOf
<1>4. ~overlap => SortedOf(caches, added)
  BY DEF OrderInv, KeysInv, CacheInv, SortedOf
<1>5. CASE TraderSettle
  <2>1. /\ caches' = addCacheTrade(caches, trader.row) /\ ~overlap
        /\ trader.row \in Row /\ trader.row \in Seen /\ trader.pc # "idle"
    BY <1>5 DEF TraderSettle, FeedInv, ShapeInv, Seen
  <2>2. added \in SUBSET Row /\ added \subseteq Seen
    BY DEF FeedInv, TypeOK, Seen
  <2>3. \A s \in added : s.at <= trader.row.at
    <3>1. trader.row.id + 1 = nextId /\ nextId \in Int /\ trader.row.id \in Int
      BY <2>1, FeedAssumption, RowTypes DEF FeedInv, IdInv, TypeOK
    <3>2. \A s \in added : s.id \in Int /\ s.id < nextId
      BY <2>2, RowTypes DEF CacheInv
    <3>3. \A s \in added : s.id <= trader.row.id
      BY <3>1, <3>2
    <3> QED
      BY <2>1, <2>2, <3>3 DEF OrderInv, AgeInv, InTime
  <2>4. SortedOf(caches', added \cup {trader.row})
    BY <1>4, <2>1, <2>2, <2>3, AddTradeSorted
  <2> QED
    BY <2>4 DEF SortedOf
<1>6. CASE InitFill
  <2>1. /\ caches' = Fill(caches, InOrder(init.rows)) /\ ~overlap /\ init.pc = "fill"
        /\ init.rows \in SUBSET Row
    BY <1>6 DEF InitFill, Fill, FeedInv, TypeOK
  <2>2. Keyed(init.rows) /\ InTime(init.rows)
    BY DEF CacheInv, OrderInv, AgeInv, Keyed, InTime, Seen
  <2>3. SortedOf(caches, {})
    BY <1>4, <2>1 DEF OrderInv, GivenInv
  <2>4. SortedOf(caches', init.rows)
    BY <2>1, <2>2, <2>3, FillSorted
  <2> QED
    BY <2>4 DEF SortedOf
<1> QED
  BY <1>1, <1>2, <1>3, <1>5, <1>6

LEMMA StepGiven ==
    ASSUME FeedInv, CacheInv, OrderInv, [Next]_vars
    PROVE  GivenInv'
<1> SUFFICES ASSUME ~overlap' PROVE GivenInv'
  BY DEF GivenInv
<1> USE RecordUpdates DEF GivenInv
<1>1. trader \in Trader /\ GivenInv
  BY DEF FeedInv, ShapeInv, OrderInv
<1>2. ASSUME NEW auto \in BOOLEAN, TraderInsert(auto) PROVE GivenInv'
  <2> DEFINE row == [id |-> nextId, at |-> now, price |-> Price[nextId]]
  <2>1. /\ trader' = [pc |-> IF auto THEN "update" ELSE "bank", auto |-> auto, row |-> row]
        /\ table' = IF auto THEN table \cup {row} ELSE table
        /\ trader.pc = "idle" /\ UNCHANGED <<init, added, filled, overlap>>
    BY <1>2 DEF TraderInsert
  <2>2. row \notin table
    <3>1. \A r \in table : r.id < nextId /\ nextId \in Int
      BY FeedAssumption DEF CacheInv, Seen, FeedInv, TypeOK
    <3> QED
      BY <3>1
  <2> HIDE DEF row
  <2>3. trader'.auto = auto /\ trader'.row = row /\ trader'.pc \in {"update", "bank"}
    BY <2>1
  <2>4. \A rows : rows = table => Covers(rows)'
    BY <2>1, <2>2, <2>3 DEF Covers
  <2>5. \A rows : Covers(rows) => rows = table
    BY <2>1 DEF Covers
  <2>6. trader'.auto => trader'.row \in table'
    BY <2>1, <2>3
  <2>7. init.pc = "fill" => Covers(init.rows)'
    BY <1>1, <2>1, <2>4, <2>5
  <2>8. filled /\ init.pc = "idle" => Covers(added)'
    BY <1>1, <2>1, <2>4, <2>5
  <2> QED
    BY <1>1, <2>1, <2>3, <2>6, <2>7, <2>8 DEF Covers
<1>3. CASE TraderUpdate
  <2>1. /\ trader.pc = "update" /\ trader'.pc = "bank" /\ trader'.auto = trader.auto
        /\ trader'.row = trader.row /\ UNCHANGED <<table, init, added, filled, overlap>>
    BY <1>1, <1>3 DEF TraderUpdate
  <2> QED
    BY <1>1, <2>1 DEF Covers
<1>4. CASE TraderSettle
  <2>1. /\ trader.pc = "bank" /\ trader'.pc = "commit" /\ trader'.auto = trader.auto
        /\ trader'.row = trader.row /\ added' = added \cup {trader.row}
        /\ ~overlap /\ init.pc = "idle" /\ UNCHANGED <<table, init, filled>>
    BY <1>1, <1>4 DEF TraderSettle, dbVars
  <2> QED
    BY <1>1, <2>1 DEF Covers
<1>5. CASE TraderCommit
  <2>1. /\ trader.pc = "commit" /\ trader'.pc = "idle" /\ ~overlap /\ init.pc = "idle"
        /\ table' = (IF trader.auto THEN table ELSE table \cup {trader.row})
        /\ UNCHANGED <<added, init, filled>>
    BY <1>5 DEF TraderCommit
  <2>2. filled => added = table'
    BY <1>1, <2>1
  <2> QED
    BY <2>1, <2>2 DEF Covers
<1>6. CASE TraderCommitFails
  BY <1>6 DEF TraderCommitFails
<1>7. CASE InitDelete
  <2>1. init'.pc = "deleted" /\ trader'.pc = "idle"
    BY <1>7 DEF InitDelete, NoInit
  <2> QED
    BY <2>1
<1>8. CASE InitReset
  <2>1. /\ init.pc = "deleted" /\ init'.pc = "select" /\ added' = {}
        /\ UNCHANGED <<table, trader, overlap>>
    BY <1>8 DEF InitReset, dbVars, FeedInv, ShapeInv
  <2> QED
    BY <1>1, <2>1
<1>9. CASE InitSelect
  <2>1. /\ init.pc = "select" /\ init'.pc = "fill" /\ init'.rows = table
        /\ UNCHANGED <<table, trader, overlap, added>>
    BY <1>9 DEF InitSelect, dbVars
  <2> QED
    BY <1>1, <2>1 DEF Covers
<1>10. CASE InitFill
  <2>1. /\ init.pc = "fill" /\ init'.pc = "idle" /\ added' = added \cup init.rows
        /\ UNCHANGED <<table, trader, overlap>>
    BY <1>10 DEF InitFill, dbVars
  <2>2. added' = init.rows
    BY <1>1, <2>1
  <2> QED
    BY <1>1, <2>1, <2>2 DEF Covers
<1>11. CASE Restart
  <2>1. trader'.pc = "idle" /\ init'.pc = "idle" /\ filled' = FALSE
    BY <1>11 DEF Restart
  <2> QED
    BY <2>1
<1>12. CASE Tick \/ Poll \/ InfoStep \/ InfoFails \/ Reload \/ UNCHANGED vars
  <2>1. UNCHANGED <<table, trader, init, added, filled, overlap>>
    BY <1>12 DEF Tick, Poll, InfoStep, InfoFails, Reload, vars, dbVars, serverVars,
                 ReadCursorTrade, ReadLatest, ReadOrders, Answer, NeverAnswered
  <2> QED
    BY <1>1, <2>1 DEF Covers
<1> QED
  BY <1>2, <1>3, <1>4, <1>5, <1>6, <1>7, <1>8, <1>9, <1>10, <1>11, <1>12
     DEF Next, TraderStep, InitStep

ChartInv == FeedInv /\ CacheInv /\ OrderInv

LEMMA StepChart == ChartInv /\ [Next]_vars => ChartInv'
<1> SUFFICES ASSUME ChartInv, [Next]_vars PROVE ChartInv'
  OBVIOUS
<1>1. FeedInv' /\ CacheInv'
  BY StepFeed, StepCache DEF ChartInv
<1>2. AgeInv' /\ KeysInv' /\ GivenInv'
  BY StepAge, StepKeys, StepGiven DEF ChartInv
<1> QED
  BY <1>1, <1>2 DEF ChartInv, OrderInv

LEMMA ChartInvariant == Spec => []ChartInv
<1>1. Init => ChartInv
  BY InitFeed, InitCache, InitOrder DEF ChartInv
<1> QED
  BY <1>1, StepChart, PTL DEF Spec

\* Between trades, when no trade met /initialize, the binary search over the
\* keys gives /info the rows of the query over the table, in its order.
THEOREM FeedChartMatchesTable == Spec => []ChartMatchesTable
<1>1. ChartInv => ChartMatchesTable
  <2> SUFFICES ASSUME ChartInv, Quiet, NEW g \in Grains, NEW since \in -1..MaxTime
               PROVE  LET chart == getCacheCandlestick(caches[g], LowerBound(g, since))
                          rows == getCandlesticData(table, g, LowerBound(g, since))
                      IN Ascending(chart) /\ (ToSet(chart) = rows \/ (rows = {} /\ Len(chart) = 1))
    BY DEF ChartMatchesTable
  <2>1. added = table
    BY DEF ChartInv, OrderInv, GivenInv, Covers, Quiet
  <2>2. table \in SUBSET Row /\ Keyed(table) /\ table # {}
    BY DEF ChartInv, FeedInv, TypeOK, IdInv, CacheInv, Keyed, Seen
  <2>3. CacheOf(caches[g], table, g) /\ KeysAscend(caches[g].keys)
    BY <2>1 DEF ChartInv, CacheInv, CachesOf, OrderInv, KeysInv, Quiet
  <2>4. LowerBound(g, since) \in Int /\ Trunc(LowerBound(g, since), g) = LowerBound(g, since)
    <3>1. since \in Int
      BY FeedAssumption
    <3> QED
      BY <3>1, BoundIsCandle
  <2> QED
    BY <2>2, <2>3, <2>4, ChartIsQuery
<1> QED
  BY <1>1, ChartInvariant, PTL
-----------------------------------------------------------------------------
(* The merge of an answer into a chart of the page. *)

\* A candle of the page, and what one candle of an answer does to a chart.
Bar == [t : Int, open : Int, close : Int, h : Int, l : Int]
Push(chart, data) ==
    IF \E i \in DOMAIN chart : chart[i].t = data.t THEN chart ELSE Tail(Append(chart, data))
StepsOfMerge(h, V, C, S, n) ==
    /\ h \in [0..n -> V] /\ h[0] = C
    /\ \A k \in 1..n : h[k] = Push(h[k - 1], S[k])
    /\ h[n] = updateChartData(C, S)

\* The charts of a page all through a merge have the length of the first one.
LEMMA PushKeeps ==
    ASSUME NEW L \in Nat \ {0}, NEW c \in [1..L -> Bar], NEW b \in Bar
    PROVE  /\ Push(c, b) \in [1..L -> Bar]
           /\ ~(\E i \in 1..L : c[i].t = b.t) =>
                \A i \in 1..L : Push(c, b)[i] = IF i < L THEN c[i + 1] ELSE b
<1>1. c \in Seq(Bar) /\ Len(c) = L /\ DOMAIN c = 1..L
  OBVIOUS
<1> DEFINE d == Append(c, b)
<1>2. d \in Seq(Bar) /\ Len(d) = L + 1 /\ \A i \in 1..L + 1 : d[i] = IF i <= L THEN c[i] ELSE b
  BY <1>1
<1> HIDE DEF d
<1>3. /\ Tail(d) \in Seq(Bar) /\ Len(Tail(d)) = L
      /\ \A i \in 1..L : Tail(d)[i] = d[i + 1]
  BY <1>2
<1>4. Tail(d) \in [1..L -> Bar]
  <2>1. \A s \in Seq(Bar) : Len(s) = L => s \in [1..L -> Bar]
    OBVIOUS
  <2> QED
    BY <1>3, <2>1
<1>5. \A i \in 1..L : Tail(d)[i] = IF i < L THEN c[i + 1] ELSE b
  BY <1>2, <1>3
<1> QED
  BY <1>1, <1>4, <1>5 DEF Push, d

\* updateChartData, candle by candle.
LEMMA MergeSteps ==
    ASSUME NEW L \in Nat \ {0}, NEW C \in [1..L -> Bar], NEW n \in Nat, NEW seq \in [1..n -> Bar]
    PROVE  \E h : StepsOfMerge(h, [1..L -> Bar], C, seq, n)
<1> DEFINE V == [1..L -> Bar]
           S == 1..n
           at == [p \in V \X S |-> Push(p[1], seq[p[2]])]
           Folds(g) == g = [s \in SUBSET S |->
                              IF s = {} THEN C ELSE Push(g[s \ {Max(s)}], seq[Max(s)])]
           it == CHOOSE g : Folds(g)
<1>c. \A v \in V : \A k \in S : Push(v, seq[k]) \in V
  BY PushKeeps
<1> HIDE DEF V
<1>1. at \in [V \X S -> V]
  BY <1>c
<1>2. \A v \in V : \A k \in S : at[<<v, k>>] = Push(v, seq[k])
  OBVIOUS
<1>b. C \in V
  BY DEF V
<1>3. \E g \in [SUBSET S -> V] : Folds(g)
  <2>1. PICK g \in [SUBSET S -> V] : FoldOver(at, C, g, S)
    <3> HIDE DEF at
    <3> QED
      BY <1>b, <1>1, FoldValues
  <2>2. \A s \in SUBSET S : g[s] = IF s = {} THEN C ELSE Push(g[s \ {Max(s)}], seq[Max(s)])
    <3>1. \A s \in SUBSET S : s # {} => Max(s) \in S /\ g[s \ {Max(s)}] \in V
      BY <2>1, MaxIn
    <3> HIDE DEF at
    <3> QED
      BY <1>2, <2>1, <3>1 DEF FoldOver, FoldStep
  <2> QED
    BY <2>1, <2>2
<1>4. Folds(it)
  BY <1>3
<1>5. it[S] = updateChartData(C, seq)
  BY DEF updateChartData, FoldLeft, MapThenFoldSet, Push
<1>6. it[{}] = C
  <2> HIDE DEF it
  <2> QED
    BY <1>4
<1>7. ASSUME NEW T \in SUBSET S, T # {}, it[T \ {Max(T)}] \in V
      PROVE  it[T] = at[<<it[T \ {Max(T)}], Max(T)>>]
  <2>1. it[T] = Push(it[T \ {Max(T)}], seq[Max(T)])
    <3> HIDE DEF it
    <3> QED
      BY <1>4, <1>7
  <2>2. Max(T) \in S
    BY <1>7, MaxIn
  <2> HIDE DEF it, at
  <2> QED
    BY <1>2, <1>7, <2>1, <2>2
<1> HIDE DEF it, at
<1>8. FoldsBy(it, at, V, C, n)
  BY <1>6, <1>7 DEF FoldsBy
<1>f. Follows(it, at, V, C, n)
  BY <1>b, <1>1, <1>8, FoldFrame
<1>9. PICK h : StepsBy(h, at, V, C, n) /\ h[n] = it[1..n]
  BY <1>f DEF Follows
<1>10. \A k \in 1..n : h[k - 1] \in V
  BY <1>9 DEF StepsBy
<1>11. StepsOfMerge(h, V, C, seq, n)
  BY <1>2, <1>5, <1>9, <1>10 DEF StepsOfMerge, StepsBy
<1> QED
  BY <1>11 DEF V

(* The candles a page has and is sent, in the order of time. *)

Times(chart) == {chart[i].t : i \in DOMAIN chart}
\* Every time of the answer within the span of the chart is known, and every
\* time of the chart from where the answer begins on is in the answer.
Fits(C, L, S, n) ==
    /\ \A k \in 1..n : C[1].t <= S[k].t /\ S[k].t <= C[L].t => S[k].t \in Times(C)
    /\ \A i \in 1..L : C[i].t >= S[1].t => C[i].t \in Times(S)
Merged(R, C, L, S, n) ==
    /\ R \in [1..L -> Bar] /\ Ascending(R)
    /\ \A i \in 1..L : R[i] \in {C[j] : j \in 1..L} \cup {S[j] : j \in 1..n}
    /\ R[L].t >= C[L].t /\ R[L].t >= S[n].t
    /\ \A x \in Times(C) \cup Times(S) : x >= R[1].t => x \in Times(R)

\* An answer that begins within the chart: what is new goes to its end.
Appended(R, C, L, S, k) ==
    /\ R \in [1..L -> Bar] /\ Ascending(R) /\ R[1].t >= C[1].t /\ R[L].t >= C[L].t
    /\ \/ R = C /\ \A j \in 1..k : S[j].t \in Times(C)
       \/ k # 0 /\ R[L].t = S[k].t
    /\ \A i \in 1..L : R[i] \in {C[j] : j \in 1..L} \cup {S[j] : j \in 1..k}
    /\ \A x \in Times(C) \cup {S[j].t : j \in 1..k} : x >= R[1].t => x \in Times(R)

LEMMA ChartEnds ==
    ASSUME NEW L \in Nat \ {0}, NEW R \in [1..L -> Bar]
    PROVE  /\ 1 \in 1..L /\ L \in 1..L /\ DOMAIN R = 1..L /\ Times(R) = {R[i].t : i \in 1..L}
           /\ \A i \in 1..L : R[i].t \in Int /\ R[i] \in Bar
           /\ Times(R) \subseteq Int
           /\ Ascending(R) => \A i \in 1..L : R[1].t <= R[i].t /\ R[i].t <= R[L].t
<1>1. 1 \in 1..L /\ L \in 1..L /\ DOMAIN R = 1..L
  OBVIOUS
<1>2. \A i \in 1..L : R[i].t \in Int /\ R[i] \in Bar
  BY DEF Bar
<1>3. ASSUME Ascending(R), NEW i \in 1..L PROVE R[1].t <= R[i].t /\ R[i].t <= R[L].t
  <2>1. i = 1 \/ 1 < i
    OBVIOUS
  <2>2. i = L \/ i < L
    OBVIOUS
  <2> QED
    BY <1>1, <1>2, <1>3, <2>1, <2>2 DEF Ascending
<1> QED
  BY <1>1, <1>2, <1>3 DEF Times

LEMMA AppendOne ==
    ASSUME NEW L \in Nat \ {0}, NEW C \in [1..L -> Bar], Ascending(C),
           NEW n \in Nat, NEW S \in [1..n -> Bar], Ascending(S), Fits(C, L, S, n),
           NEW k \in 1..n, S[1].t >= C[1].t,
           NEW R, Appended(R, C, L, S, k - 1)
    PROVE  Appended(Push(R, S[k]), C, L, S, k)
<1> DEFINE Q == Push(R, S[k])
           s == S[k].t
<1>1. /\ \A i \in 1..L : R[i].t \in Int /\ C[i].t \in Int
      /\ \A j \in 1..n : S[j].t \in Int /\ S[j] \in Bar
      /\ R \in [1..L -> Bar] /\ DOMAIN R = 1..L /\ DOMAIN C = 1..L
      /\ S[k] \in Bar /\ s \in Int
  BY DEF Appended, Bar
<1>2. /\ Times(R) = {R[i].t : i \in 1..L} /\ Times(C) = {C[i].t : i \in 1..L}
      /\ 1 \in 1..L /\ L \in 1..L /\ Ascending(R)
      /\ \A i \in 1..L : R[1].t <= R[i].t /\ R[i].t <= R[L].t
  BY <1>1, ChartEnds DEF Appended
<1>3. \A j \in 1..n : j < k => S[j].t < s
  BY DEF Ascending
<1>4. s >= C[1].t
  <2>1. CASE k = 1
    BY <2>1
  <2>2. CASE k # 1
    <3>1. 1 \in 1..n /\ 1 < k
      BY <2>2
    <3> QED
      BY <1>1, <1>3, <3>1
  <2> QED
    BY <2>1, <2>2
<1>5. \A x \in Times(C) \cup {S[j].t : j \in 1..k} :
        x \in Times(C) \cup {S[j].t : j \in 1..(k - 1)} \/ x = s
  OBVIOUS
<1>6. CASE s \in Times(R)
  <2>1. Q = R
    BY <1>1, <1>2, <1>6 DEF Push
  <2>2. R[L].t = s \/ (R = C /\ \A j \in 1..k : S[j].t \in Times(C))
    <3>1. CASE R = C /\ \A j \in 1..(k - 1) : S[j].t \in Times(C)
      BY <1>6, <3>1
    <3>2. CASE k - 1 # 0 /\ R[L].t = S[k - 1].t
      <4>1. S[k - 1].t < s
        BY <1>3, <3>2
      <4> QED
        BY <1>1, <1>2, <1>6, <3>2, <4>1
    <3> QED
      BY <3>1, <3>2 DEF Appended
  <2>3. \A i \in 1..L : R[i] \in {C[j] : j \in 1..L} \cup {S[j] : j \in 1..k}
    BY DEF Appended
  <2> HIDE DEF Q, s
  <2>4. \A x \in Times(C) \cup {S[j].t : j \in 1..k} : x >= R[1].t => x \in Times(R)
    BY <1>5, <1>6 DEF Appended
  <2> QED
    BY <2>1, <2>2, <2>3, <2>4 DEF Appended, Q, s
<1>7. CASE s \notin Times(R)
  <2>1. Q \in [1..L -> Bar] /\ \A i \in 1..L : Q[i] = IF i < L THEN R[i + 1] ELSE S[k]
    <3>1. ~(\E i \in 1..L : R[i].t = S[k].t)
      BY <1>2, <1>7
    <3> HIDE DEF s
    <3> QED
      BY <1>1, <3>1, PushKeeps
  <2>2. R[L].t < s
    <3>1. CASE R = C /\ \A j \in 1..(k - 1) : S[j].t \in Times(C)
      <4>1. ~(s <= C[L].t)
        BY <1>1, <1>4, <1>7, <3>1 DEF Fits
      <4> QED
        BY <1>1, <3>1, <4>1
    <3>2. CASE k - 1 # 0 /\ R[L].t = S[k - 1].t
      BY <1>3, <3>2
    <3> QED
      BY <3>1, <3>2 DEF Appended
  <2>3. Q[L].t = s /\ \A i \in 1..L : Q[i].t = IF i < L THEN R[i + 1].t ELSE s
    BY <2>1
  <2>5. Ascending(Q)
    <3>1. ASSUME NEW i \in 1..L, NEW j \in 1..L, i < j PROVE Q[i].t < Q[j].t
      <4>1. i < L /\ i + 1 \in 1..L /\ Q[i].t = R[i + 1].t
        BY <2>3, <3>1
      <4>2. CASE j < L
        <5>1. j + 1 \in 1..L /\ Q[j].t = R[j + 1].t /\ i + 1 < j + 1
          BY <2>3, <3>1, <4>2
        <5> QED
          BY <1>1, <4>1, <5>1 DEF Appended, Ascending
      <4>3. CASE ~(j < L)
        <5>1. Q[j].t = s
          BY <2>3, <4>3
        <5> QED
          BY <1>1, <1>2, <2>2, <4>1, <5>1
      <4> QED
        BY <4>2, <4>3
    <3> QED
      BY <2>1, <3>1 DEF Ascending
  <2>6. Q[1].t > R[1].t
    <3>1. CASE L = 1
      BY <2>2, <2>3, <3>1
    <3>2. CASE L # 1
      <4>1. 1 < L /\ 1 \in 1..L /\ 2 \in 1..L /\ 1 + 1 = 2
        BY <3>2
      <4> QED
        <5>1. Q[1].t = R[2].t
          BY <2>3, <4>1
        <5>2. R[1].t < R[2].t
          <6>1. \A i, j \in 1..L : i < j => R[i].t < R[j].t
            BY <1>1, <1>2 DEF Ascending
          <6>2. 1 < 2
            OBVIOUS
          <6> QED
            BY <4>1, <6>1, <6>2
        <5> QED
          BY <5>1, <5>2, <1>1, <4>1
    <3> QED
      BY <3>1, <3>2
  <2>7. \A i \in 1..L : Q[i] \in {C[j] : j \in 1..L} \cup {S[j] : j \in 1..k}
    <3>1. \A i \in 1..L : R[i] \in {C[j] : j \in 1..L} \cup {S[j] : j \in 1..k}
      BY DEF Appended
    <3>2. ASSUME NEW i \in 1..L PROVE Q[i] \in {C[j] : j \in 1..L} \cup {S[j] : j \in 1..k}
      <4>1. CASE i < L
        <5>1. i + 1 \in 1..L /\ Q[i] = R[i + 1]
          BY <2>1, <4>1
        <5> QED
          BY <3>1, <5>1
      <4>2. CASE ~(i < L)
        <5>1. Q[i] = S[k] /\ k \in 1..k
          BY <2>1, <4>2
        <5> QED
          BY <5>1
      <4> QED
        BY <4>1, <4>2
    <3> QED
      BY <3>2
  <2>8. Times(Q) = {Q[i].t : i \in 1..L}
    BY <2>1 DEF Times
  <2>9. ASSUME NEW x \in Times(C) \cup {S[j].t : j \in 1..k}, x >= Q[1].t
        PROVE  x \in Times(Q)
    <3>1. CASE x = s
      BY <2>3, <2>8, <3>1
    <3>2. CASE x # s
      <4>1. x \in Times(C) \cup {S[j].t : j \in 1..(k - 1)}
        BY <1>5, <3>2
      <4>2. x \in Int
        BY <1>1, <1>2, <2>9
      <4>3. x > R[1].t /\ Q[1].t \in Int
        BY <1>1, <2>3, <2>6, <2>9, <4>2
      <4>4. x \in Times(R)
        BY <1>1, <4>1, <4>2, <4>3 DEF Appended
      <4>5. PICK i \in 1..L : x = R[i].t
        BY <1>2, <4>4
      <4>6. i # 1 /\ i - 1 \in 1..L /\ i - 1 < L /\ (i - 1) + 1 = i
        BY <1>1, <4>3, <4>5
      <4>7. Q[i - 1].t = x
        BY <2>3, <4>5, <4>6
      <4> QED
        BY <2>8, <4>6, <4>7
    <3> QED
      BY <3>1, <3>2
  <2>10. Q[L].t >= C[L].t /\ Q[1].t >= C[1].t
    <3>1. R[L].t >= C[L].t /\ R[1].t >= C[1].t
      BY DEF Appended
    <3>2. Q[1].t \in Int /\ Q[L].t = s
      BY <1>1, <1>2, <2>1, <2>3, ChartEnds
    <3> HIDE DEF Q, s
    <3> QED
      BY <1>1, <1>2, <2>2, <2>6, <3>1, <3>2
  <2> QED
    BY <2>1, <2>3, <2>5, <2>7, <2>9, <2>10 DEF Appended
<1> QED
  BY <1>6, <1>7

\* An answer that begins before the chart is the last of it in the end.
Position(C, L, S, n) == \A i \in 1..L : \E j \in 1..n : j > i /\ S[j].t = C[i].t
Shifted(R, C, L, S, k) ==
    R \in [1..L -> Bar] /\ \A i \in 1..L : R[i] = IF i + k <= L THEN C[i + k] ELSE S[i + k - L]

LEMMA Positions ==
    ASSUME NEW L \in Nat \ {0}, NEW C \in [1..L -> Bar], Ascending(C),
           NEW n \in Nat \ {0}, NEW S \in [1..n -> Bar], Ascending(S), Fits(C, L, S, n),
           S[1].t < C[1].t
    PROVE  Position(C, L, S, n) /\ L < n
<1> DEFINE G == {m \in 0..L : m = 0 \/ \E j \in 1..n : j > m /\ S[j].t = C[m].t}
<1>1. /\ \A i \in 1..L : C[i].t \in Int /\ C[1].t <= C[i].t
      /\ \A j \in 1..n : S[j].t \in Int
      /\ Times(S) = {S[j].t : j \in 1..n} /\ 1 \in 1..n
      /\ DOMAIN C = 1..L /\ DOMAIN S = 1..n /\ 1 \in 1..L
  BY ChartEnds
<1>2. \A i \in 1..L : \E j \in 1..n : S[j].t = C[i].t
  <2>1. \A i \in 1..L : C[i].t >= S[1].t
    BY <1>1
  <2> QED
    BY <1>1, <2>1 DEF Fits
<1>3. ASSUME NEW m \in 1..L, m - 1 \in G PROVE m \in G
  <2>1. PICK j \in 1..n : S[j].t = C[m].t
    BY <1>2
  <2>2. CASE m = 1
    <3>1. j # 1
      BY <1>1, <2>1, <2>2
    <3> QED
      BY <2>1, <2>2, <3>1
  <2>3. CASE m # 1
    <3>1. PICK i \in 1..n : i > m - 1 /\ S[i].t = C[m - 1].t
      BY <1>3, <2>3
    <3>2. m - 1 \in 1..L /\ C[m - 1].t < C[m].t
      <4>1. m - 1 \in 1..L /\ m - 1 < m
        BY <2>3
      <4> QED
        BY <1>1, <4>1 DEF Ascending
    <3>3. i < j
      <4>1. ~(j = i)
        BY <1>1, <2>1, <3>1, <3>2
      <4>2. ~(j < i)
        <5>1. ASSUME j < i PROVE FALSE
          <6>1. S[j].t < S[i].t
            BY <1>1, <5>1 DEF Ascending
          <6> QED
            BY <1>1, <2>1, <3>1, <3>2, <6>1
        <5> QED
          BY <5>1
      <4> QED
        BY <4>1, <4>2
    <3> QED
      BY <2>1, <3>1, <3>3
  <2> QED
    BY <2>2, <2>3
<1>4. G = 0..L
  <2>1. G \in SUBSET (0..L) /\ 0 \in G /\ \A m \in 1..L : m - 1 \in G => m \in G
    BY <1>3
  <2> HIDE DEF G
  <2> QED
    BY <2>1, CountUp
<1>5. Position(C, L, S, n)
  <2>1. \A i \in 1..L : i \in G /\ i # 0
    BY <1>4
  <2> QED
    BY <2>1 DEF Position
<1>6. L < n
  <2>1. L \in 1..L
    OBVIOUS
  <2>2. PICK j \in 1..n : j > L
    BY <1>5, <2>1 DEF Position
  <2> QED
    BY <2>2
<1> QED
  BY <1>5, <1>6

LEMMA ShiftOne ==
    ASSUME NEW L \in Nat \ {0}, NEW C \in [1..L -> Bar], Ascending(C),
           NEW n \in Nat \ {0}, NEW S \in [1..n -> Bar], Ascending(S), Position(C, L, S, n),
           NEW k \in 1..n, NEW R, Shifted(R, C, L, S, k - 1)
    PROVE  Shifted(Push(R, S[k]), C, L, S, k)
<1>1. R \in [1..L -> Bar] /\ S[k] \in Bar
  BY DEF Shifted
<1>2. /\ \A i \in 1..L : C[i].t \in Int
      /\ \A j \in 1..n : S[j].t \in Int /\ DOMAIN S = 1..n
  BY ChartEnds
<1>3. ASSUME NEW i \in 1..L PROVE R[i].t # S[k].t
  <2>1. CASE i + (k - 1) <= L
    <3>1. i + (k - 1) \in 1..L /\ R[i] = C[i + (k - 1)]
      BY <2>1 DEF Shifted
    <3>2. PICK j \in 1..n : j > i + (k - 1) /\ S[j].t = C[i + (k - 1)].t
      BY <3>1 DEF Position
    <3>3. k < j
      BY <3>2
    <3>4. S[k].t < S[j].t
      BY <1>2, <3>3 DEF Ascending
    <3> QED
      BY <1>2, <3>1, <3>2, <3>4
  <2>2. CASE ~(i + (k - 1) <= L)
    <3>1. i + (k - 1) - L \in 1..n /\ i + (k - 1) - L < k /\ R[i] = S[i + (k - 1) - L]
      BY <2>2 DEF Shifted
    <3>2. S[i + (k - 1) - L].t < S[k].t
      BY <1>2, <3>1 DEF Ascending
    <3> QED
      BY <1>2, <3>1, <3>2
  <2> QED
    BY <2>1, <2>2
<1> DEFINE Q == Push(R, S[k])
<1>4. Q \in [1..L -> Bar] /\ \A i \in 1..L : Q[i] = IF i < L THEN R[i + 1] ELSE S[k]
  <2>1. ~(\E i \in 1..L : R[i].t = S[k].t)
    BY <1>3
  <2> QED
    BY <1>1, <2>1, PushKeeps
<1> HIDE DEF Q
<1>5. ASSUME NEW i \in 1..L
      PROVE  Q[i] = IF i + k <= L THEN C[i + k] ELSE S[i + k - L]
  <2>1. CASE i < L
    <3>1. i + 1 \in 1..L /\ (i + 1) + (k - 1) = i + k /\ Q[i] = R[i + 1]
      BY <1>4, <2>1
    <3>2. R[i + 1] = IF (i + 1) + (k - 1) <= L THEN C[(i + 1) + (k - 1)]
                                               ELSE S[(i + 1) + (k - 1) - L]
      BY <3>1 DEF Shifted
    <3> QED
      BY <3>1, <3>2
  <2>2. CASE ~(i < L)
    <3>1. i = L /\ ~(i + k <= L) /\ i + k - L = k
      BY <2>2
    <3> QED
      BY <1>4, <3>1
  <2> QED
    BY <2>1, <2>2
<1> QED
  BY <1>4, <1>5 DEF Shifted, Q

LEMMA MergeAppends ==
    ASSUME NEW L \in Nat \ {0}, NEW C \in [1..L -> Bar], Ascending(C),
           NEW n \in Nat \ {0}, NEW S \in [1..n -> Bar], Ascending(S), Fits(C, L, S, n),
           S[1].t >= C[1].t
    PROVE  Merged(updateChartData(C, S), C, L, S, n)
<1>1. PICK h : StepsOfMerge(h, [1..L -> Bar], C, S, n)
  BY MergeSteps
<1> DEFINE G == {k \in 0..n : Appended(h[k], C, L, S, k)}
<1>2. 0 \in G
  <2>1. h[0] = C
    BY <1>1 DEF StepsOfMerge
  <2>2. C[1].t >= C[1].t /\ C[L].t >= C[L].t
    BY ChartEnds
  <2>3. Appended(C, C, L, S, 0)
    BY <2>2 DEF Appended
  <2> QED
    BY <2>1, <2>3
<1>3. ASSUME NEW k \in 1..n, k - 1 \in G PROVE k \in G
  <2>1. h[k] = Push(h[k - 1], S[k]) /\ Appended(h[k - 1], C, L, S, k - 1)
    BY <1>1, <1>3 DEF StepsOfMerge
  <2>2. Appended(Push(h[k - 1], S[k]), C, L, S, k)
    BY <2>1, AppendOne
  <2> QED
    BY <2>1, <2>2
<1>4. G = 0..n
  <2>1. G \in SUBSET (0..n) /\ \A k \in 1..n : k - 1 \in G => k \in G
    BY <1>3
  <2> HIDE DEF G
  <2> QED
    BY <1>2, <2>1, CountUp
<1> DEFINE R == updateChartData(C, S)
<1>5. Appended(R, C, L, S, n)
  <2>1. h[n] = R
    BY <1>1 DEF StepsOfMerge
  <2>2. n \in G
    BY <1>4
  <2> HIDE DEF R
  <2> QED
    BY <2>1, <2>2
<1> HIDE DEF R
<1>6. Times(S) = {S[j].t : j \in 1..n} /\ n \in 1..n /\ S[n].t \in Int
  BY ChartEnds
<1>7. R[L].t >= S[n].t
  <2>1. R \in [1..L -> Bar] /\ Ascending(R)
    BY <1>5 DEF Appended
  <2>2. R[L].t \in Int /\ L \in 1..L
    BY <2>1, ChartEnds
  <2>3. CASE R = C /\ \A j \in 1..n : S[j].t \in Times(C)
    <3>1. S[n].t \in Times(C)
      BY <1>6, <2>3
    <3> QED
      <4>1. Times(C) = {C[i].t : i \in 1..L} /\ \A i \in 1..L : C[i].t <= C[L].t
        BY ChartEnds
      <4> QED
        BY <2>2, <2>3, <3>1, <4>1, <1>6
  <2>4. CASE R[L].t = S[n].t
    BY <1>6, <2>4
  <2> QED
    BY <1>5, <2>3, <2>4 DEF Appended
<1> QED
  BY <1>5, <1>6, <1>7 DEF Appended, Merged, R

LEMMA MergeShifts ==
    ASSUME NEW L \in Nat \ {0}, NEW C \in [1..L -> Bar], Ascending(C),
           NEW n \in Nat \ {0}, NEW S \in [1..n -> Bar], Ascending(S), Fits(C, L, S, n),
           S[1].t < C[1].t
    PROVE  Merged(updateChartData(C, S), C, L, S, n)
<1>1. PICK h : StepsOfMerge(h, [1..L -> Bar], C, S, n)
  BY MergeSteps
<1>2. Position(C, L, S, n) /\ L < n
  BY Positions
<1> DEFINE G == {k \in 0..n : Shifted(h[k], C, L, S, k)}
<1>3. 0 \in G
  <2>1. h[0] = C
    BY <1>1 DEF StepsOfMerge
  <2>2. Shifted(C, C, L, S, 0)
    BY DEF Shifted
  <2> QED
    BY <2>1, <2>2
<1>4. ASSUME NEW k \in 1..n, k - 1 \in G PROVE k \in G
  <2>1. h[k] = Push(h[k - 1], S[k]) /\ Shifted(h[k - 1], C, L, S, k - 1)
    BY <1>1, <1>4 DEF StepsOfMerge
  <2>2. Shifted(Push(h[k - 1], S[k]), C, L, S, k)
    BY <1>2, <2>1, ShiftOne
  <2> QED
    BY <2>1, <2>2
<1>5. G = 0..n
  <2>1. G \in SUBSET (0..n) /\ \A k \in 1..n : k - 1 \in G => k \in G
    BY <1>4
  <2> HIDE DEF G
  <2> QED
    BY <1>3, <2>1, CountUp
<1> DEFINE R == updateChartData(C, S)
           d == n - L
<1>6. Shifted(R, C, L, S, n)
  <2>1. h[n] = R
    BY <1>1 DEF StepsOfMerge
  <2>2. n \in G
    BY <1>5
  <2> HIDE DEF R
  <2> QED
    BY <2>1, <2>2
<1> HIDE DEF R
<1>7. d \in Nat \ {0} /\ n = L + d
  BY <1>2
<1> HIDE DEF d
<1>8. R \in [1..L -> Bar] /\ \A i \in 1..L : i + d \in 1..n /\ R[i] = S[i + d]
  <2>1. \A i \in 1..L : ~(i + n <= L) /\ i + n - L = i + d /\ i + d \in 1..n
    BY <1>7
  <2> QED
    BY <1>6, <2>1 DEF Shifted
<1>9. /\ \A j \in 1..n : S[j].t \in Int /\ S[j].t <= S[n].t
      /\ \A i \in 1..L : C[i].t \in Int
      /\ Times(S) = {S[j].t : j \in 1..n} /\ Times(R) = {R[i].t : i \in 1..L}
      /\ Times(C) = {C[i].t : i \in 1..L}
      /\ DOMAIN R = 1..L /\ DOMAIN S = 1..n /\ 1 \in 1..L /\ L \in 1..L /\ n \in 1..n
  BY <1>8, ChartEnds
<1>10. Ascending(R)
  <2>1. ASSUME NEW i \in 1..L, NEW j \in 1..L, i < j PROVE R[i].t < R[j].t
    <3>1. i + d < j + d
      BY <1>7, <2>1
    <3> QED
      BY <1>8, <1>9, <3>1 DEF Ascending
  <2> QED
    BY <1>9, <2>1 DEF Ascending
<1>11. R[L].t = S[n].t
  BY <1>7, <1>8, <1>9
<1>12. R[L].t >= C[L].t
  <2>1. PICK j \in 1..n : S[j].t = C[L].t
    BY <1>2, <1>9 DEF Position
  <2> QED
    BY <1>9, <1>11, <2>1
<1>13. ASSUME NEW x \in Times(C) \cup Times(S), x >= R[1].t PROVE x \in Times(R)
  <2>1. PICK j \in 1..n : x = S[j].t
    <3>1. CASE x \in Times(S)
      BY <1>9, <3>1
    <3>2. CASE x \in Times(C)
      <4>1. PICK i \in 1..L : x = C[i].t
        BY <1>9, <3>2
      <4> QED
        BY <1>2, <4>1 DEF Position
    <3> QED
      BY <3>1, <3>2
  <2>2. R[1].t = S[1 + d].t /\ 1 + d \in 1..n
    BY <1>8, <1>9
  <2>3. ~(j < 1 + d)
    <3>1. ASSUME j < 1 + d PROVE FALSE
      <4>1. S[j].t < S[1 + d].t
        BY <1>9, <2>2, <3>1 DEF Ascending
      <4> QED
        BY <1>9, <1>13, <2>1, <2>2, <4>1
    <3> QED
      BY <3>1
  <2>4. j - d \in 1..L /\ (j - d) + d = j
    BY <1>7, <2>3
  <2>5. R[j - d].t = x
    BY <1>8, <2>1, <2>4
  <2> QED
    BY <1>9, <2>4, <2>5
<1>14. \A i \in 1..L : R[i] \in {C[j] : j \in 1..L} \cup {S[j] : j \in 1..n}
  BY <1>8
<1>15. R[L].t >= S[n].t
  BY <1>9, <1>11
<1> QED
  BY <1>8, <1>10, <1>12, <1>13, <1>14, <1>15 DEF Merged, R

\* What an answer makes of a chart it fits.
LEMMA MergeOf ==
    ASSUME NEW L \in Nat \ {0}, NEW C \in [1..L -> Bar], Ascending(C),
           NEW n \in Nat \ {0}, NEW S \in [1..n -> Bar], Ascending(S), Fits(C, L, S, n)
    PROVE  Merged(updateChartData(C, S), C, L, S, n)
<1>1. S[1].t \in Int /\ C[1].t \in Int
  BY ChartEnds
<1>2. S[1].t >= C[1].t \/ S[1].t < C[1].t
  BY <1>1
<1> QED
  BY <1>2, MergeAppends, MergeShifts

-----------------------------------------------------------------------------
(* What /info sends of the candles it keeps in the order of time. *)

TimesOf(rows, g) == {Trunc(r.at, g) : r \in rows}
\* The range of a candle is that of trades of its time.
Backed(b, rows, g) ==
    /\ \E r \in rows : Trunc(r.at, g) = b.t /\ r.price = b.l
    /\ \E r \in rows : Trunc(r.at, g) = b.t /\ r.price = b.h
Sends(S, n, rows, g, b) ==
    /\ n \in Nat \ {0} /\ S \in [1..n -> Bar] /\ Ascending(S)
    /\ \A i \in 1..n : Backed(S[i], rows, g)
    /\ \A k \in TimesOf(rows, g) : k <= S[n].t /\ (k >= S[1].t \/ k >= b => k \in Times(S))

LEMMA SendsOf ==
    ASSUME NEW rows \in SUBSET Row, NEW g \in Grains, NEW c, CacheOf(c, rows, g),
           KeysAscend(c.keys), c.keys # <<>>, NEW b \in Int
    PROVE  \E n : Sends(getCacheCandlestick(c, b), n, rows, g, b)
<1> DEFINE keys == c.keys
           n == Len(keys)
           pos == findMinKeyPos(keys, b)
           m == n - pos + 1
           S == getCacheCandlestick(c, b)
<1>1. /\ keys \in Seq(Int) /\ n \in Nat /\ DOMAIN keys = 1..n /\ keys \in [1..n -> Int]
      /\ ToSet(keys) = DOMAIN c.sum /\ DOMAIN c.sum = TimesOf(rows, g)
  BY DEF CacheOf, Cache, TimesOf
<1>2. IsFirst(pos, keys, b, 0, n)
  BY <1>1, MinKeyPos
<1>3. /\ pos \in 1..n /\ (pos = n \/ keys[pos] >= b)
      /\ \A q \in 1..(pos - 1) : keys[q] < b
  <2> HIDE DEF keys, n, pos
  <2> QED
    BY <1>2 DEF IsFirst
<1>4. S = [i \in 1..m |-> Sent(c.sum[keys[pos + i - 1]])]
  BY DEF getCacheCandlestick
<1>5. \A i, j \in 1..n : i < j => keys[i] < keys[j]
  BY <1>1 DEF KeysAscend
<1> HIDE DEF keys, n, pos, m, S
<1>6. /\ m \in 1..n /\ \A i \in 1..m : pos + i - 1 \in 1..n
      /\ pos + m - 1 = n /\ pos + 1 - 1 = pos
      /\ \A p \in 1..n : p >= pos => p - pos + 1 \in 1..m /\ pos + (p - pos + 1) - 1 = p
  BY <1>1, <1>3 DEF m
<1>7. \A p \in 1..n : keys[p] \in TimesOf(rows, g) /\ keys[p] \in Int
  BY <1>1 DEF ToSet
<1>8. \A k \in TimesOf(rows, g) : \E p \in 1..n : keys[p] = k
  BY <1>1 DEF ToSet
<1>9. ASSUME NEW k \in TimesOf(rows, g)
      PROVE  Sent(c.sum[k]) \in Bar /\ Sent(c.sum[k]).t = k /\ Backed(Sent(c.sum[k]), rows, g)
  <2> DEFINE d == c.sum[k]
  <2>1. CandleOf(d, Group(rows, g, k), k)
    BY <1>1 DEF CacheOf
  <2> HIDE DEF d
  <2>2. Sent(d) = [t |-> d.t, open |-> d.open, close |-> d.close, h |-> d.h, l |-> d.l]
        /\ d \in Candle /\ d.t = k
    BY <2>1 DEF Sent, CandleOf
  <2>3. Sent(d) \in Bar /\ Sent(d).t = k /\ Sent(d).l = d.l /\ Sent(d).h = d.h
    BY <2>2 DEF Candle, Bar
  <2>4. /\ \E r \in rows : Trunc(r.at, g) = k /\ r.price = d.l
        /\ \E r \in rows : Trunc(r.at, g) = k /\ r.price = d.h
    BY <2>1 DEF CandleOf, Group
  <2>5. Backed(Sent(d), rows, g)
    BY <2>3, <2>4 DEF Backed
  <2> QED
    BY <2>3, <2>5 DEF d
<1>10. \A i \in 1..m : S[i] \in Bar /\ S[i].t = keys[pos + i - 1] /\ Backed(S[i], rows, g)
  BY <1>4, <1>6, <1>7, <1>9
<1>11. DOMAIN S = 1..m /\ S \in [1..m -> Bar]
  BY <1>4, <1>10
<1>12. Ascending(S)
  <2>1. ASSUME NEW i \in 1..m, NEW j \in 1..m, i < j PROVE S[i].t < S[j].t
    <3>1. pos + i - 1 < pos + j - 1
      BY <1>3, <2>1
    <3> QED
      BY <1>5, <1>6, <1>10, <3>1
  <2> QED
    BY <1>11, <2>1 DEF Ascending
<1>13. S[m].t = keys[n] /\ S[1].t = keys[pos] /\ m \in 1..m /\ 1 \in 1..m
  <2>1. m \in 1..m /\ 1 \in 1..m
    BY <1>1, <1>6
  <2> QED
    BY <1>6, <1>10, <2>1
<1>14. ASSUME NEW k \in TimesOf(rows, g)
       PROVE  k <= S[m].t /\ (k >= S[1].t \/ k >= b => k \in Times(S))
  <2>1. PICK p \in 1..n : keys[p] = k
    BY <1>8
  <2>2. n \in 1..n /\ (p = n \/ p < n)
    BY <1>1
  <2>3. k <= keys[n]
    BY <1>5, <1>7, <2>1, <2>2
  <2>4. ASSUME p >= pos PROVE k \in Times(S)
    <3>1. S[p - pos + 1].t = k
      BY <1>6, <1>10, <2>1, <2>4
    <3> QED
      BY <1>6, <1>11, <2>4, <3>1 DEF Times
  <2>5. ASSUME p < pos PROVE ~(k >= S[1].t \/ k >= b)
    <3>1. p \in 1..(pos - 1)
      BY <1>1, <1>3, <2>5
    <3>2. k < b /\ k < keys[pos]
      BY <1>3, <1>5, <2>1, <2>5, <3>1
    <3> QED
      BY <1>3, <1>7, <1>13, <2>1, <3>2
  <2>6. p >= pos \/ p < pos
    BY <1>1, <1>3
  <2> QED
    BY <1>13, <2>3, <2>4, <2>5, <2>6
<1>15. m \in Nat \ {0}
  BY <1>1, <1>6
<1>16. Sends(S, m, rows, g, b)
  BY <1>10, <1>11, <1>12, <1>14, <1>15 DEF Sends
<1> QED
  BY <1>16 DEF S

LEMMA SendsFacts ==
    ASSUME NEW S, NEW n, NEW rows \in SUBSET Row, NEW g \in Grains, NEW b, Sends(S, n, rows, g, b)
    PROVE  /\ n \in Nat \ {0} /\ S \in [1..n -> Bar] /\ Ascending(S) /\ DOMAIN S = 1..n
           /\ 1 \in 1..n /\ n \in 1..n /\ Times(S) = {S[i].t : i \in 1..n}
           /\ \A i \in 1..n : S[i].t \in Int /\ S[1].t <= S[i].t
           /\ Times(S) \subseteq TimesOf(rows, g)
<1>1. \A i \in 1..n : S[i].t \in TimesOf(rows, g)
  BY DEF Sends, Backed, TimesOf
<1> QED
  BY <1>1, ChartEnds DEF Sends

\* How a chart of the page lies among the times of the cache: between its
\* first candle and its last one it has them all, and what the cache begins
\* before a candle of the page has that candle.
Shown(C) == C \in Seq(Bar) /\ C # <<>> /\ Ascending(C)
Newest(C) == C[Len(C)].t
Span(C, K) ==
    /\ \A k \in K : C[1].t <= k /\ k <= Newest(C) => k \in Times(C)
    /\ \A t \in Times(C) : \A k \in K : k <= t => t \in K
Ahead(C, K, from) == \A k \in K : k > Newest(C) => k >= from

\* What the page has after an answer: the times up to the last of the cache.
Taken(R, K) == Shown(R) /\ Span(R, K) /\ \A k \in K : k <= Newest(R)
From(R, C, S) ==
    \A i \in DOMAIN R : (\E j \in DOMAIN C : R[i] = C[j]) \/ (\E j \in DOMAIN S : R[i] = S[j])

LEMMA ShownFacts ==
    ASSUME NEW C, Shown(C)
    PROVE  /\ Len(C) \in Nat \ {0} /\ C \in [1..Len(C) -> Bar] /\ DOMAIN C = 1..Len(C)
           /\ 1 \in 1..Len(C) /\ Len(C) \in 1..Len(C)
           /\ Times(C) = {C[i].t : i \in 1..Len(C)} /\ Times(C) \subseteq Int
           /\ \A i \in 1..Len(C) : C[i].t \in Int /\ C[1].t <= C[i].t /\ C[i].t <= Newest(C)
           /\ Newest(C) \in Int /\ Newest(C) \in Times(C)
<1>1. Len(C) \in Nat \ {0} /\ C \in [1..Len(C) -> Bar]
  BY DEF Shown
<1>2. Ascending(C)
  BY DEF Shown
<1> QED
  BY <1>1, <1>2, ChartEnds DEF Newest

LEMMA ShownFrom ==
    ASSUME NEW L \in Nat \ {0}, NEW R \in [1..L -> Bar], Ascending(R)
    PROVE  Shown(R) /\ Len(R) = L
<1>1. R \in Seq(Bar) /\ Len(R) = L
  OBVIOUS
<1>2. R # <<>>
  BY <1>1
<1> QED
  BY <1>1, <1>2 DEF Shown

\* A further answer.
LEMMA AnswerLater ==
    ASSUME NEW rows \in SUBSET Row, NEW g \in Grains, NEW b \in Int,
           NEW S, NEW n, Sends(S, n, rows, g, b),
           NEW C, Shown(C), Span(C, TimesOf(rows, g)), Ahead(C, TimesOf(rows, g), b)
    PROVE  Taken(updateChartData(C, S), TimesOf(rows, g)) /\ From(updateChartData(C, S), C, S)
<1> DEFINE K == TimesOf(rows, g)
           L == Len(C)
           R == updateChartData(C, S)
<1>1. /\ L \in Nat \ {0} /\ C \in [1..L -> Bar] /\ Ascending(C) /\ DOMAIN C = 1..L
      /\ Times(C) = {C[i].t : i \in 1..L} /\ L \in 1..L /\ 1 \in 1..L
      /\ \A i \in 1..L : C[i].t \in Int /\ C[1].t <= C[i].t /\ C[i].t <= C[L].t
      /\ Newest(C) = C[L].t
  BY ShownFacts DEF Shown, Newest
<1>2. /\ n \in Nat \ {0} /\ S \in [1..n -> Bar] /\ Ascending(S) /\ DOMAIN S = 1..n
      /\ 1 \in 1..n /\ n \in 1..n /\ Times(S) = {S[i].t : i \in 1..n}
      /\ \A i \in 1..n : S[i].t \in Int /\ S[1].t <= S[i].t
      /\ Times(S) \subseteq K
  BY SendsFacts
<1>3. K \subseteq Int
  BY RowTypes DEF TimesOf
<1>4. \A k \in K : k <= S[n].t /\ (k >= S[1].t \/ k >= b => k \in Times(S))
  BY DEF Sends
<1>5. /\ \A k \in K : C[1].t <= k /\ k <= C[L].t => k \in Times(C)
      /\ \A t \in Times(C) : \A k \in K : k <= t => t \in K
      /\ \A k \in K : k > C[L].t => k >= b
  BY <1>1 DEF Span, Ahead
<1> HIDE DEF K, L, R
<1>6. Fits(C, L, S, n)
  <2>1. ASSUME NEW k \in 1..n, C[1].t <= S[k].t, S[k].t <= C[L].t PROVE S[k].t \in Times(C)
    BY <1>2, <1>5, <2>1
  <2>2. ASSUME NEW i \in 1..L, C[i].t >= S[1].t PROVE C[i].t \in Times(S)
    <3>1. C[i].t \in Times(C) /\ S[1].t \in K /\ S[1].t <= C[i].t
      BY <1>1, <1>2, <2>2
    <3>2. C[i].t \in K
      BY <1>5, <3>1
    <3> QED
      BY <1>4, <2>2, <3>2
  <2> QED
    BY <2>1, <2>2 DEF Fits
<1>7. Merged(R, C, L, S, n)
  BY <1>1, <1>2, <1>6, MergeOf DEF R
<1>8. /\ R \in [1..L -> Bar] /\ Ascending(R)
      /\ \A i \in 1..L : R[i] \in {C[j] : j \in 1..L} \cup {S[j] : j \in 1..n}
      /\ R[L].t >= C[L].t /\ R[L].t >= S[n].t
      /\ \A x \in Times(C) \cup Times(S) : x >= R[1].t => x \in Times(R)
  BY <1>7 DEF Merged
<1>9. Shown(R) /\ Len(R) = L /\ Newest(R) = R[L].t
  BY <1>1, <1>8, ShownFrom DEF Newest
<1>10. /\ DOMAIN R = 1..L /\ Times(R) = {R[i].t : i \in 1..L}
       /\ \A i \in 1..L : R[i].t \in Int
  BY <1>9, ShownFacts
<1>11. From(R, C, S)
  BY <1>1, <1>2, <1>8, <1>10 DEF From
<1>12. \A k \in K : k <= R[L].t
  BY <1>1, <1>2, <1>3, <1>4, <1>8, <1>10
<1>13. ASSUME NEW k \in K, R[1].t <= k PROVE k \in Times(R)
  <2>1. CASE k \in Times(S)
    BY <1>3, <1>8, <1>10, <1>1, <1>13, <2>1
  <2>2. CASE k \notin Times(S)
    <3>1. k < S[1].t /\ ~(k > C[L].t)
      BY <1>1, <1>2, <1>3, <1>4, <1>5, <2>2
    <3>2. R[1] \notin {S[j] : j \in 1..n}
      BY <1>1, <1>2, <1>3, <1>10, <1>13, <3>1
    <3>3. PICK j \in 1..L : R[1] = C[j]
      BY <1>1, <1>8, <3>2
    <3>4. C[1].t <= k /\ k <= C[L].t
      BY <1>1, <1>3, <1>13, <3>1, <3>3
    <3>5. k \in Times(C)
      BY <1>5, <3>4
    <3> QED
      BY <1>1, <1>3, <1>8, <1>10, <1>13, <3>5
  <2> QED
    BY <2>1, <2>2
<1>14. ASSUME NEW t \in Times(R), NEW k \in K, k <= t PROVE t \in K
  <2>1. PICK i \in 1..L : t = R[i].t
    BY <1>10
  <2>2. t \in Times(C) \/ t \in Times(S)
    BY <1>1, <1>2, <1>8, <2>1
  <2> QED
    BY <1>2, <1>5, <1>14, <2>2
<1>15. Taken(R, K)
  BY <1>9, <1>12, <1>13, <1>14 DEF Taken, Span
<1> QED
  BY <1>11, <1>15 DEF K, R

\* The first answer: the page keeps the end of it.
LEMMA AnswerFirst ==
    ASSUME NEW rows \in SUBSET Row, NEW g \in Grains, NEW b \in Int,
           NEW S, NEW n, Sends(S, n, rows, g, b), NEW w \in Nat \ {0}
    PROVE  Taken(Splice(S, w), TimesOf(rows, g)) /\ From(Splice(S, w), <<>>, S)
<1> DEFINE K == TimesOf(rows, g)
           lo == Max({1, n - w + 1})
           L == n - lo + 1
           R == Splice(S, w)
<1>2. /\ n \in Nat \ {0} /\ S \in [1..n -> Bar] /\ Ascending(S) /\ DOMAIN S = 1..n
      /\ 1 \in 1..n /\ n \in 1..n /\ Times(S) = {S[i].t : i \in 1..n}
      /\ \A i \in 1..n : S[i].t \in Int /\ S[1].t <= S[i].t
      /\ Times(S) \subseteq K
  BY SendsFacts
<1>3. K \subseteq Int
  BY RowTypes DEF TimesOf
<1>4. \A k \in K : k <= S[n].t /\ (k >= S[1].t \/ k >= b => k \in Times(S))
  BY DEF Sends
<1>5. lo \in 1..n
  <2>1. lo = IF 1 >= n - w + 1 THEN 1 ELSE n - w + 1
    <3>1. n - w + 1 \in Int /\ 1 \in Int
      BY <1>2
    <3> QED
      BY <3>1, MinMaxPair
  <2> QED
    BY <1>2, <2>1
<1>6. R \in [1..L -> Bar] /\ \A i \in 1..L : R[i] = S[lo + i - 1]
  <2>1. S \in Seq(Bar) /\ Len(S) = n
    BY <1>2
  <2>2. R = SubSeq(S, lo, n)
    BY <2>1 DEF Splice
  <2> HIDE DEF lo, R
  <2>3. R = [i \in 1..L |-> S[lo + i - 1]]
    BY <1>5, <2>1, <2>2
  <2>4. \A i \in 1..L : lo + i - 1 \in 1..n
    BY <1>2, <1>5
  <2> QED
    BY <1>2, <2>3, <2>4
<1> HIDE DEF K, lo, R
<1>7. /\ L \in Nat \ {0} /\ 1 \in 1..L /\ L \in 1..L /\ lo + L - 1 = n
      /\ \A i \in 1..L : lo + i - 1 \in 1..n
      /\ \A p \in 1..n : p >= lo => p - lo + 1 \in 1..L /\ lo + (p - lo + 1) - 1 = p
  BY <1>2, <1>5
<1> HIDE DEF L
<1>8. Ascending(R)
  <2>1. ASSUME NEW i \in 1..L, NEW j \in 1..L, i < j PROVE R[i].t < R[j].t
    <3>1. lo + i - 1 < lo + j - 1
      BY <1>5, <2>1
    <3> QED
      BY <1>2, <1>6, <1>7, <3>1 DEF Ascending
  <2> QED
    BY <1>6, <2>1 DEF Ascending
<1>9. Shown(R) /\ Newest(R) = S[n].t
  BY <1>6, <1>7, <1>8, ShownFrom DEF Newest
<1>10. DOMAIN R = 1..L /\ Times(R) = {R[i].t : i \in 1..L}
  BY <1>6 DEF Times
<1>11. From(R, <<>>, S)
  BY <1>2, <1>6, <1>7, <1>10 DEF From
<1>12. ASSUME NEW k \in K, R[1].t <= k PROVE k \in Times(R)
  <2>1. R[1].t = S[lo].t
    BY <1>5, <1>6, <1>7
  <2>2. k \in Times(S)
    BY <1>2, <1>3, <1>4, <1>5, <1>12, <2>1
  <2>3. PICK p \in 1..n : k = S[p].t
    BY <1>2, <2>2
  <2>4. ~(p < lo)
    BY <1>2, <1>5, <1>12, <2>1, <2>3 DEF Ascending
  <2>5. R[p - lo + 1].t = k
    BY <1>5, <1>6, <1>7, <2>3, <2>4
  <2> QED
    BY <1>5, <1>7, <1>10, <2>4, <2>5
<1>13. Times(R) \subseteq K
  BY <1>2, <1>6, <1>7, <1>10
<1>14. Taken(R, K)
  BY <1>4, <1>9, <1>12, <1>13 DEF Taken, Span
<1> QED
  BY <1>11, <1>14 DEF K, R

-----------------------------------------------------------------------------
(* The page. *)

\* No trade that anyone has seen is newer than this.
Latest == IF trader.pc \in {"update", "bank"} THEN trader.row.at ELSE now
PastTrade == info.pc \in {"latest", "orders", "charts"}
Known(g) == TimesOf(added, g)

AskInv ==
    /\ page.cursor = 0 => page.chart = NewPage.chart
    /\ info.pc \in {"orders", "charts"} => info.cursor # 0
    /\ PastTrade => info.since <= Latest
    /\ trader.pc # "idle" => trader.row.at >= Base
\* A chart that has an answer: a time it lacks is one the next answer sends.
ChartKept(C, g) ==
    /\ Shown(C) /\ Span(C, Known(g)) /\ Newest(C) <= Trunc(Latest, g)
    /\ Ahead(C, Known(g), LowerBound(g, -1))
    /\ \A r \in table : r.id = page.cursor => Ahead(C, Known(g), LowerBound(g, r.at))
    /\ PastTrade => Ahead(C, Known(g), LowerBound(g, info.since))
    /\ \A i \in DOMAIN C : Backed(C[i], Settled, g)
SettledInv == ~overlap /\ init.pc # "deleted" => added \subseteq Settled
CleanInv ==
    ~Excused =>
      /\ init.pc \in {"select", "fill"} => page.cursor = 0
      /\ page.cursor # 0 => \A g \in Grains : ChartKept(page.chart[g], g)
PageInv == AskInv /\ SettledInv /\ CleanInv

LEMMA LatestFacts ==
    ASSUME ChartInv
    PROVE  /\ Latest \in Int /\ Latest <= now /\ now \in Int /\ Base <= now
           /\ \A r \in table \cup added : r \in Row /\ r.at \in Int /\ r.at <= Latest
           /\ Settled \subseteq Seen /\ Settled \in SUBSET Row /\ added \in SUBSET Row
<1>1. /\ table \in SUBSET Row /\ added \in SUBSET Row /\ now \in Base..MaxTime
      /\ (trader.pc # "idle" => trader.row \in Row) /\ nextId \in Int
      /\ Base \in Int /\ MaxTime \in Int
  BY FeedAssumption DEF ChartInv, FeedInv, TypeOK, ShapeInv
<1>2. /\ InTime(Seen) /\ \A r \in Seen : r.at <= now /\ r.id < nextId
      /\ (trader.pc # "idle" => trader.row.id + 1 = nextId)
  BY DEF ChartInv, OrderInv, AgeInv, CacheInv, FeedInv, IdInv
<1>3. table \cup added \subseteq Seen /\ (trader.pc # "idle" => trader.row \in Seen)
  BY DEF Seen
<1>4. /\ Latest \in Int /\ Latest <= now
  <2>1. CASE trader.pc \in {"update", "bank"}
    BY <1>1, <1>2, <1>3, <2>1, RowTypes DEF Latest
  <2>2. CASE trader.pc \notin {"update", "bank"}
    BY <1>1, <2>2 DEF Latest
  <2> QED
    BY <2>1, <2>2
<1>5. ASSUME NEW r \in table \cup added PROVE r \in Row /\ r.at \in Int /\ r.at <= Latest
  <2>1. r \in Row /\ r.at \in Int /\ r.id \in Int /\ r \in Seen
    BY <1>1, <1>3, RowTypes
  <2>2. CASE trader.pc \in {"update", "bank"}
    <3>1. trader.row.id \in Int /\ trader.row \in Seen /\ trader.row.id + 1 = nextId
      BY <1>1, <1>2, <1>3, <2>2, RowTypes
    <3>2. r.id <= trader.row.id
      BY <1>1, <1>2, <2>1, <3>1
    <3> QED
      BY <1>2, <2>1, <2>2, <3>1, <3>2 DEF InTime, Latest
  <2>3. CASE trader.pc \notin {"update", "bank"}
    BY <1>2, <2>1, <2>3 DEF Latest
  <2> QED
    BY <2>1, <2>2, <2>3
<1>6. Settled \subseteq Seen /\ Settled \in SUBSET Row
  BY <1>1, <1>3 DEF Settled
<1> QED
  BY <1>1, <1>4, <1>5, <1>6

\* Where /info may start: not after the candle of a trade as new as that.
LEMMA StartsBefore ==
    ASSUME NEW g \in Grains, NEW t \in Int, NEW u \in Int, t <= u, Base <= u
    PROVE  LowerBound(g, t) \in Int /\ Trunc(u, g) \in Int /\ LowerBound(g, t) <= Trunc(u, g)
<1>1. /\ g \in Nat \ {0} /\ Base \in Int /\ Lookback[g] \in Nat
      /\ Trunc(Base - Lookback[g], g) = Base - Lookback[g]
  BY FeedAssumption
<1>2. Base - Lookback[g] \in Int /\ Base - Lookback[g] <= u
  BY <1>1
<1>3. Trunc(Base - Lookback[g], g) <= Trunc(u, g) /\ Trunc(t, g) <= Trunc(u, g)
      /\ Trunc(t, g) \in Int /\ Trunc(u, g) \in Int
  BY <1>1, <1>2, TruncMonotone, TruncTwice
<1>4. LowerBound(g, t) = IF t > Base - Lookback[g] THEN Trunc(t, g) ELSE Base - Lookback[g]
  BY DEF LowerBound
<1> QED
  BY <1>1, <1>2, <1>3, <1>4

LEMMA LatestGrows ==
    ASSUME ChartInv, AskInv, [Next]_vars
    PROVE  Latest' \in Int /\ Latest <= Latest' /\ (trader'.pc # "idle" => trader'.row.at >= Base)
<1> USE RecordUpdates
<1>1. Latest \in Int /\ now \in Int /\ Latest <= now /\ Base <= now
  BY LatestFacts
<1>2. trader.pc # "idle" => trader.row.at >= Base
  BY DEF AskInv
<1>3. trader \in Trader
  BY DEF ChartInv, FeedInv, ShapeInv
<1>4. ASSUME NEW auto \in BOOLEAN, TraderInsert(auto)
      PROVE  Latest' = now /\ trader'.row.at >= Base
  BY <1>1, <1>4 DEF TraderInsert, Latest
<1>5. CASE TraderUpdate
  <2>1. trader.pc = "update" /\ trader'.pc = "bank" /\ trader'.row = trader.row
    BY <1>3, <1>5 DEF TraderUpdate
  <2> QED
    BY <1>1, <1>2, <2>1 DEF Latest
<1>6. CASE TraderSettle
  <2>1. trader.pc = "bank" /\ trader'.pc = "commit" /\ trader'.row = trader.row /\ now' = now
    BY <1>3, <1>6 DEF TraderSettle, dbVars
  <2> QED
    BY <1>1, <1>2, <2>1 DEF Latest
<1>7. CASE TraderCommit \/ TraderCommitFails \/ Restart
  <2>1. trader'.pc = "idle" /\ now' = now
    BY <1>7 DEF TraderCommit, TraderCommitFails, Restart, dbVars
  <2> QED
    BY <1>1, <2>1 DEF Latest
<1>8. CASE Tick
  <2>1. trader' = trader /\ now' = now + 1
    BY <1>8 DEF Tick, serverVars
  <2> QED
    BY <1>1, <1>2, <2>1 DEF Latest
<1>9. CASE InitDelete \/ InitStep \/ Poll \/ InfoStep \/ InfoFails \/ Reload \/ UNCHANGED vars
  <2>1. UNCHANGED <<trader, now>>
    BY <1>9 DEF InitDelete, InitStep, InitReset, InitSelect, InitFill, Poll, InfoStep, InfoFails,
                Reload, vars, dbVars, serverVars, ReadCursorTrade, ReadLatest, ReadOrders,
                Answer, NeverAnswered
  <2> QED
    BY <1>1, <1>2, <2>1 DEF Latest
<1> QED
  BY <1>1, <1>4, <1>5, <1>6, <1>7, <1>8, <1>9 DEF Next, TraderStep

\* What an info step asks with.
LEMMA AskSteps ==
    ASSUME ChartInv, [Next]_vars
    PROVE  \/ info' = info
           \/ ~PastTrade' /\ info'.pc \notin {"orders", "charts"}
           \/ /\ ReadCursorTrade /\ info'.pc = "latest" /\ page' = page
              /\ LET row == {r \in table : r.id = page.cursor}
                 IN info'.since = IF row = {} THEN -1 ELSE (CHOOSE r \in row : TRUE).at
           \/ /\ ReadLatest \/ ReadOrders
              /\ PastTrade /\ info'.since = info.since /\ page' = page
              /\ info'.cursor = info.cursor \/ info'.cursor = LatestId
              /\ info.pc = "latest" => info'.cursor = LatestId
<1> USE RecordUpdates DEF PastTrade
<1>1. info \in Asked \cup {NoInfo} /\ table \in SUBSET Row /\ table # {}
  BY DEF ChartInv, FeedInv, ShapeInv, TypeOK, IdInv
<1>2. CASE ReadCursorTrade
  <2> DEFINE row == {r \in table : r.id = page.cursor}
             since == IF row = {} THEN -1 ELSE (CHOOSE r \in row : TRUE).at
  <2>1. info \in Asked
    BY <1>1, <1>2 DEF ReadCursorTrade
  <2>2. since \in -1..MaxTime
    BY SinceType DEF ChartInv
  <2>3. info' = [info EXCEPT !.pc = "latest", !.since = since] /\ page' = page
    BY <1>2 DEF ReadCursorTrade
  <2> HIDE DEF since
  <2>4. \A n \in -1..MaxTime : LET r == [info EXCEPT !.pc = "latest", !.since = n]
                               IN  r.pc = "latest" /\ r.since = n
    BY ONLY <2>1 DEF Asked
  <2>5. info'.pc = "latest" /\ info'.since = since
    BY ONLY <2>2, <2>3, <2>4
  <2> QED
    BY <1>2, <2>3, <2>5 DEF since
<1>3. CASE ReadLatest
  <2>1. info \in Asked /\ info.pc = "latest"
    BY <1>1, <1>3 DEF ReadLatest
  <2>2. LatestId \in 0..MaxTrades
    <3>1. LatestId \in TradeIds
      BY <1>1, LatestIdIn DEF LatestId
    <3> QED
      BY <3>1, FeedAssumption DEF TradeIds
  <2>3. info' = [info EXCEPT !.pc = "orders", !.cursor = LatestId] /\ page' = page
    BY <1>3 DEF ReadLatest
  <2>4. \A n \in 0..MaxTrades : LET r == [info EXCEPT !.pc = "orders", !.cursor = n]
                                IN  r.since = info.since /\ r.cursor = n
    BY ONLY <2>1 DEF Asked
  <2>5. info'.since = info.since /\ info'.cursor = LatestId
    BY ONLY <2>2, <2>3, <2>4
  <2> QED
    BY <1>3, <2>1, <2>3, <2>5
<1>4. CASE ReadOrders
  <2>1. info \in Asked /\ info.pc = "orders"
    BY <1>1, <1>4 DEF ReadOrders
  <2>2. {i \in linked : i > page.cursor} \in SUBSET TradeIds
    BY DEF ChartInv, FeedInv, TypeOK
  <2>3. info' = [info EXCEPT !.pc = "charts", !.orders = {i \in linked : i > page.cursor}]
        /\ page' = page
    BY <1>4 DEF ReadOrders
  <2>4. \A o \in SUBSET TradeIds : LET r == [info EXCEPT !.pc = "charts", !.orders = o]
                                   IN  r.since = info.since /\ r.cursor = info.cursor
    BY ONLY <2>1 DEF Asked
  <2>5. info'.since = info.since /\ info'.cursor = info.cursor
    BY ONLY <2>2, <2>3, <2>4
  <2> QED
    BY <1>4, <2>1, <2>3, <2>5
<1>5. CASE Poll
  <2>1. info'.pc = "trade"
    BY <1>5 DEF Poll
  <2> QED
    BY <2>1
<1>6. CASE Answer \/ NeverAnswered \/ InfoFails \/ Reload \/ Restart
  BY <1>6 DEF Answer, NeverAnswered, InfoFails, Reload, Restart
<1>7. CASE \E auto \in BOOLEAN : TraderInsert(auto)
  BY <1>7 DEF TraderInsert
<1>8. CASE TraderStep \/ Tick
  BY <1>8 DEF TraderStep, TraderUpdate, TraderSettle, TraderCommit, TraderCommitFails, Tick
<1>9. CASE InitDelete \/ InitStep \/ UNCHANGED vars
  BY <1>9 DEF InitDelete, InitStep, InitReset, InitSelect, InitFill, vars
<1> QED
  BY <1>2, <1>3, <1>4, <1>5, <1>6, <1>7, <1>8, <1>9 DEF Next, InfoStep

\* What a step does to the charts of the page.
LEMMA ChartSteps ==
    ASSUME ChartInv, [Next]_vars
    PROVE  \/ page'.chart = page.chart /\ page'.cursor = page.cursor
           \/ Reload /\ page' = NewPage
           \/ /\ Answer /\ page'.cursor = info.cursor /\ info.pc = "charts"
              /\ page'.chart = [g \in Grains |->
                                  IF page.cursor = 0
                                  THEN Splice(Charts(info.since)[g], Window[g])
                                  ELSE updateChartData(page.chart[g], Charts(info.since)[g])]
<1>1. page = [mode |-> page.mode, cursor |-> page.cursor, told |-> page.told,
              clean |-> page.clean, chart |-> page.chart]
  BY DEF ChartInv, FeedInv, ShapeInv
<1>2. CASE \E auto \in BOOLEAN : TraderInsert(auto)
  BY <1>2 DEF TraderInsert
<1>3. CASE TraderStep \/ Tick
  BY <1>3 DEF TraderStep, TraderUpdate, TraderSettle, TraderCommit, TraderCommitFails, Tick
<1>4. CASE InitDelete \/ InitStep \/ UNCHANGED vars
  BY <1>1, <1>4 DEF InitDelete, InitStep, InitReset, InitSelect, InitFill, vars, Outdated
<1>5. CASE Restart
  BY <1>1, <1>5 DEF Restart
<1>6. CASE Poll \/ NeverAnswered \/ InfoFails
  BY <1>1, <1>6 DEF Poll, NeverAnswered, InfoFails
<1>7. CASE ReadCursorTrade \/ ReadLatest \/ ReadOrders
  BY <1>7 DEF ReadCursorTrade, ReadLatest, ReadOrders
<1>8. CASE Reload
  BY <1>8 DEF Reload
<1>9. CASE Answer
  BY <1>1, <1>9 DEF Answer
<1> QED
  BY <1>2, <1>3, <1>4, <1>5, <1>6, <1>7, <1>8, <1>9 DEF Next, InfoStep

\* /info does not start after the latest trade.
LEMMA AskSince ==
    ASSUME ChartInv, AskInv, [Next]_vars, PastTrade'
    PROVE  info'.since \in Int /\ info'.since <= Latest
<1>1. Latest \in Int /\ Base <= Latest
  BY LatestFacts DEF AskInv, Latest
<1>2. PastTrade => info.since \in Int /\ info.since <= Latest
  BY FeedAssumption DEF ChartInv, FeedInv, ShapeInv, Asked, NoInfo, PastTrade, AskInv
<1>3. ASSUME LET row == {r \in table : r.id = page.cursor}
             IN info'.since = IF row = {} THEN -1 ELSE (CHOOSE r \in row : TRUE).at
      PROVE  info'.since \in Int /\ info'.since <= Latest
  <2> DEFINE row == {r \in table : r.id = page.cursor}
             since == IF row = {} THEN -1 ELSE (CHOOSE r \in row : TRUE).at
  <2>1. since \in -1..MaxTime
    BY SinceType DEF ChartInv
  <2>2. since <= Latest
    <3>1. \A r \in row : r.at <= Latest
      BY LatestFacts
    <3>2. -1 <= Latest
      BY <1>1, FeedAssumption
    <3> HIDE DEF row
    <3> QED
      BY <3>1, <3>2
  <2>3. info'.since = since
    BY <1>3
  <2> HIDE DEF since
  <2> QED
    BY <2>1, <2>2, <2>3, FeedAssumption
<1> QED
  BY <1>2, <1>3, AskSteps DEF PastTrade

LEMMA StepAsk ==
    ASSUME ChartInv, AskInv, [Next]_vars
    PROVE  AskInv'
<1>1. Latest \in Int /\ Latest <= Latest' /\ Latest' \in Int
      /\ (trader'.pc # "idle" => trader'.row.at >= Base)
  BY LatestFacts, LatestGrows
<1>2. page'.cursor = 0 => page'.chart = NewPage.chart
  BY ChartSteps DEF AskInv
<1>3. info'.pc \in {"orders", "charts"} => info'.cursor # 0
  <2>1. LatestId # 0
    BY LatestIdIn, FeedAssumption DEF ChartInv, FeedInv, TypeOK, IdInv, LatestId, TradeIds
  <2> QED
    BY <2>1, AskSteps DEF AskInv, PastTrade
<1>4. PastTrade' => info'.since <= Latest'
  BY <1>1, AskSince
<1> QED
  BY <1>1, <1>2, <1>3, <1>4 DEF AskInv

\* Trades are only added to the tables; the row of the page's cursor is old.
LEMMA TableSteps ==
    ASSUME ChartInv, [Next]_vars, ~overlap', init'.pc # "deleted"
    PROVE  /\ Settled \subseteq Settled'
           /\ \A r \in table' : r.id = page.cursor => r \in table
<1> USE RecordUpdates DEF Settled
<1>1. /\ trader \in Trader
      /\ page.cursor < Bound /\ page.cursor \in Int /\ nextId \in Int
      /\ (trader.pc # "idle" => trader.row.id \in Int)
  BY FeedAssumption, RowTypes DEF ChartInv, FeedInv, ShapeInv, IdInv, TypeOK
<1>2. ~overlap /\ trader.pc # "idle" /\ trader.auto => trader.row \in table
  BY DEF ChartInv, OrderInv, GivenInv
<1>3. ASSUME NEW auto \in BOOLEAN, TraderInsert(auto)
      PROVE  /\ Settled \subseteq Settled'
             /\ \A r \in table' : r.id = page.cursor => r \in table
  <2> DEFINE row == [id |-> nextId, at |-> now, price |-> Price[nextId]]
  <2>1. row.id = nextId /\ table' \in {table, table \cup {row}} /\ trader.pc = "idle"
    BY <1>3 DEF TraderInsert
  <2> HIDE DEF row
  <2>2. page.cursor < nextId
    BY <1>1, <2>1 DEF Bound, Open
  <2> QED
    BY <1>1, <2>1, <2>2
<1>4. CASE TraderCommit
  <2>1. /\ trader.pc = "commit" /\ ~overlap
        /\ table' = IF trader.auto THEN table ELSE table \cup {trader.row}
    BY <1>1, <1>4 DEF TraderCommit
  <2>2. ~trader.auto => page.cursor < trader.row.id
    BY <1>1, <2>1 DEF Bound, Open
  <2>3. Settled \subseteq table'
    BY <1>2, <2>1
  <2> QED
    BY <1>1, <2>1, <2>2, <2>3
<1>5. CASE TraderUpdate \/ TraderSettle
  <2>1. table' = table /\ trader.pc # "commit"
    BY <1>5 DEF TraderUpdate, TraderSettle, dbVars
  <2> QED
    BY <2>1
<1>6. CASE TraderCommitFails \/ InitDelete
  BY <1>1, <1>6 DEF TraderCommitFails, InitDelete
<1>7. CASE Restart
  <2>1. table' = table /\ ~overlap /\ (trader.pc = "commit" => trader.auto)
    BY <1>1, <1>7 DEF Restart, dbVars
  <2> QED
    BY <1>2, <2>1
<1>8. CASE Tick \/ InitStep \/ Poll \/ InfoStep \/ InfoFails \/ Reload \/ UNCHANGED vars
  <2>1. UNCHANGED <<table, trader>>
    BY <1>8 DEF Tick, InitStep, InitReset, InitSelect, InitFill, Poll, InfoStep, InfoFails,
                Reload, vars, dbVars, serverVars, ReadCursorTrade, ReadLatest, ReadOrders,
                Answer, NeverAnswered
  <2> QED
    BY <2>1
<1> QED
  BY <1>3, <1>4, <1>5, <1>6, <1>7, <1>8 DEF Next, TraderStep

\* What a step gives the cache.
LEMMA AddedSteps ==
    ASSUME [Next]_vars
    PROVE  \/ added' = added
           \/ added' = {}
           \/ TraderSettle /\ trader.pc = "bank" /\ added' = added \cup {trader.row}
           \/ InitFill /\ init.pc = "fill" /\ init'.pc = "idle" /\ added' = added \cup init.rows
<1>1. CASE \E auto \in BOOLEAN : TraderInsert(auto)
  BY <1>1 DEF TraderInsert
<1>2. CASE TraderStep \/ Tick
  BY <1>2 DEF TraderStep, TraderUpdate, TraderSettle, TraderCommit, TraderCommitFails, Tick,
              serverVars
<1>3. CASE InitDelete \/ InitStep \/ Restart
  BY <1>3 DEF InitDelete, InitStep, InitReset, InitSelect, InitFill, Restart, NoInit
<1>4. CASE Poll \/ InfoStep \/ InfoFails \/ Reload \/ UNCHANGED vars
  BY <1>4 DEF Poll, InfoStep, InfoFails, Reload, vars, serverVars, ReadCursorTrade,
              ReadLatest, ReadOrders, Answer, NeverAnswered
<1> QED
  BY <1>1, <1>2, <1>3, <1>4 DEF Next

\* The page that trusts its chart did so before the step, but for a page that
\* has no chart yet.
LEMMA CleanSteps ==
    ASSUME ChartInv, [Next]_vars, ~Excused'
    PROVE  \/ ~Excused
           \/ Reload
           \/ InitReset /\ page.cursor = 0 /\ page'.cursor = 0
<1>1. page = [mode |-> page.mode, cursor |-> page.cursor, told |-> page.told,
              clean |-> page.clean, chart |-> page.chart] /\ page.clean \in BOOLEAN
  BY DEF ChartInv, FeedInv, ShapeInv
<1> USE DEF Excused
<1>2. CASE \E auto \in BOOLEAN : TraderInsert(auto)
  BY <1>2 DEF TraderInsert
<1>3. CASE TraderStep \/ Tick
  BY <1>3 DEF TraderStep, TraderUpdate, TraderSettle, TraderCommit, TraderCommitFails, Tick,
              serverVars
<1>4. CASE InitDelete \/ InitSelect \/ InitFill
  BY <1>4 DEF InitDelete, InitSelect, InitFill, NoInit
<1>5. CASE InitReset
  BY <1>1, <1>5 DEF InitReset, Outdated
<1>6. CASE Restart
  BY <1>1, <1>6 DEF Restart
<1>7. CASE Poll \/ InfoStep \/ InfoFails \/ UNCHANGED vars
  BY <1>1, <1>7 DEF Poll, InfoStep, InfoFails, vars, serverVars, ReadCursorTrade,
                    ReadLatest, ReadOrders, Answer, NeverAnswered
<1> QED
  BY <1>2, <1>3, <1>4, <1>5, <1>6, <1>7 DEF Next, InitStep

\* What /info starts from, once it has read the trade of the cursor.
LEMMA KeptSince ==
    ASSUME ChartInv, [Next]_vars, NEW g \in Grains, NEW C, ChartKept(C, g), PastTrade'
    PROVE  Ahead(C, Known(g), LowerBound(g, info'.since))
<1>1. CASE info' = info
  BY <1>1 DEF ChartKept, PastTrade
<1>2. ASSUME LET row == {r \in table : r.id = page.cursor}
             IN info'.since = IF row = {} THEN -1 ELSE (CHOOSE r \in row : TRUE).at
      PROVE  Ahead(C, Known(g), LowerBound(g, info'.since))
  <2> DEFINE row == {r \in table : r.id = page.cursor}
  <2>1. CASE row = {}
    BY <1>2, <2>1 DEF ChartKept
  <2>2. CASE row # {}
    <3>1. \E r \in row : info'.since = r.at
      BY <1>2, <2>2
    <3> QED
      BY <3>1 DEF ChartKept
  <2> QED
    BY <2>1, <2>2
<1>3. CASE PastTrade /\ info'.since = info.since
  BY <1>3 DEF ChartKept
<1> QED
  BY <1>1, <1>2, <1>3, AskSteps

\* A trade that is settled is not older than the last candle of the page.
LEMMA KeptSettle ==
    ASSUME ChartInv, AskInv, trader.pc = "bank", NEW g \in Grains, NEW C, ChartKept(C, g),
           NEW K, K = Known(g) \cup {Trunc(trader.row.at, g)}
    PROVE  /\ Span(C, K)
           /\ \A t \in Int : t <= Latest /\ Ahead(C, Known(g), LowerBound(g, t))
                               => Ahead(C, K, LowerBound(g, t))
<1> DEFINE x == Trunc(trader.row.at, g)
<1>1. Latest = trader.row.at /\ Latest \in Int /\ Base <= Latest
  BY LatestFacts DEF Latest, AskInv
<1>2. x \in Int /\ \A t \in Int : t <= Latest => LowerBound(g, t) <= x
  BY <1>1, StartsBefore
<1>3. Shown(C) /\ Span(C, Known(g)) /\ Newest(C) <= x
  BY <1>1 DEF ChartKept
<1>4. /\ Times(C) = {C[i].t : i \in 1..Len(C)} /\ Times(C) \subseteq Int
      /\ \A i \in 1..Len(C) : C[i].t \in Int /\ C[i].t <= Newest(C)
      /\ Newest(C) \in Int /\ Newest(C) \in Times(C)
  BY <1>3, ShownFacts
<1> HIDE DEF x
<1>5. K = Known(g) \cup {x}
  BY DEF x
<1>6. Span(C, K)
  <2>1. x <= Newest(C) => x \in Times(C)
    BY <1>2, <1>3, <1>4
  <2>2. \A t \in Times(C) : x <= t => t = x
    BY <1>2, <1>3, <1>4
  <2> QED
    BY <1>3, <1>5, <2>1, <2>2 DEF Span
<1>7. \A t \in Int : t <= Latest /\ Ahead(C, Known(g), LowerBound(g, t))
                       => Ahead(C, K, LowerBound(g, t))
  BY <1>1, <1>2, <1>5, StartsBefore DEF Ahead
<1> QED
  BY <1>6, <1>7

\* A chart that the step does not touch.
LEMMA KeptStep ==
    ASSUME ChartInv, AskInv, [Next]_vars, ~Excused', NEW g \in Grains,
           ChartKept(page.chart[g], g), page'.chart = page.chart, page'.cursor = page.cursor,
           ~InitFill
    PROVE  ChartKept(page.chart[g], g)'
<1> DEFINE C == page.chart[g]
<1>1. /\ Latest \in Int /\ Latest' \in Int /\ Latest <= Latest' /\ now \in Int
      /\ \A r \in table : r.at \in Int /\ r.at <= Latest
      /\ -1 <= Latest
  <2>1. -1 <= Latest
    BY LatestFacts, FeedAssumption DEF AskInv, Latest
  <2> QED
    BY <2>1, LatestFacts, LatestGrows
<1>2. Settled \subseteq Settled' /\ \A r \in table' : r.id = page.cursor => r \in table
  BY TableSteps DEF Excused
<1>3. /\ Shown(C) /\ Span(C, Known(g)) /\ Newest(C) <= Trunc(Latest, g)
      /\ Ahead(C, Known(g), LowerBound(g, -1))
      /\ \A r \in table : r.id = page.cursor => Ahead(C, Known(g), LowerBound(g, r.at))
      /\ \A i \in DOMAIN C : Backed(C[i], Settled, g)
  BY DEF ChartKept
<1>4. PastTrade' => Ahead(C, Known(g), LowerBound(g, info'.since))
  BY KeptSince
<1>5. PastTrade' => info'.since \in Int /\ info'.since <= Latest
  BY AskSince
<1>6. Newest(C) <= Trunc(Latest', g)
  <2>1. Trunc(Latest, g) <= Trunc(Latest', g) /\ Trunc(Latest, g) \in Int /\ Trunc(Latest', g) \in Int
    BY <1>1, TruncMonotone, TruncTwice, FeedAssumption
  <2>2. Newest(C) \in Int
    BY <1>3, ShownFacts
  <2> QED
    BY <1>3, <2>1, <2>2
<1>7. \A i \in DOMAIN C : Backed(C[i], Settled', g)
  BY <1>2, <1>3 DEF Backed
<1> HIDE DEF C
<1>8. /\ Span(C, Known(g)') /\ Ahead(C, Known(g)', LowerBound(g, -1))
      /\ \A r \in table : r.id = page.cursor => Ahead(C, Known(g)', LowerBound(g, r.at))
      /\ PastTrade' => Ahead(C, Known(g)', LowerBound(g, info'.since))
  <2>1. CASE added' = added
    <3>1. Known(g)' = Known(g)
      BY <2>1 DEF Known
    <3> QED
      BY <1>3, <1>4, <3>1
  <2>2. CASE added' = {}
    <3>1. Known(g)' = {}
      BY <2>2 DEF Known, TimesOf
    <3> QED
      BY <3>1 DEF Span, Ahead
  <2>3. CASE trader.pc = "bank" /\ added' = added \cup {trader.row}
    <3>1. Known(g)' = Known(g) \cup {Trunc(trader.row.at, g)}
      BY <2>3 DEF Known, TimesOf
    <3>2. ChartKept(C, g)
      BY DEF C
    <3> QED
      BY <1>1, <1>3, <1>4, <1>5, <2>3, <3>1, <3>2, KeptSettle
  <2> QED
    BY <2>1, <2>2, <2>3, AddedSteps
<1> QED
  BY <1>2, <1>3, <1>6, <1>7, <1>8 DEF ChartKept, C

\* An answer: what the cache begins after the chart is at the end of it.
LEMMA KeptAnswer ==
    ASSUME ChartInv, PageInv, [Next]_vars, Answer, ~Excused, NEW g \in Grains
    PROVE  added # {} /\ ChartKept(page.chart[g], g)'
<1> DEFINE c == caches[g]
           C == page.chart[g]
           b == LowerBound(g, info.since)
           S == getCacheCandlestick(c, b)
           K == Known(g)
           R == page'.chart[g]
<1>0. AskInv /\ SettledInv /\ CleanInv
  BY DEF PageInv
<1>1. /\ CacheOf(c, added, g) /\ added \in SUBSET Row /\ added \subseteq Settled
      /\ KeysAscend(c.keys) /\ c.keys # <<>>
  BY <1>0, LatestFacts DEF ChartInv, CacheInv, CachesOf, OrderInv, KeysInv, SettledInv, Excused, Answer
<1>2. K = TimesOf(added, g)
  BY DEF Known
<1>3. added # {}
  <2>1. ASSUME added = {} PROVE FALSE
    <3>1. ToSet(c.keys) = {} /\ c.keys \in Seq(Int)
      BY <1>1, <2>1 DEF CacheOf, Cache
    <3>2. ASSUME NEW s \in Seq(Int), s # <<>> PROVE s[1] \in ToSet(s)
      BY <3>2 DEF ToSet
    <3> QED
      BY <1>1, <3>1, <3>2
  <2> QED
    BY <2>1
<1>4. PastTrade /\ info.since \in Int /\ b \in Int
  <2>1. PastTrade /\ info.since \in Int /\ info.since <= Latest
    BY <1>0, FeedAssumption
       DEF ChartInv, FeedInv, ShapeInv, Asked, NoInfo, PastTrade, AskInv, Answer
  <2>2. Latest \in Int /\ Base <= Latest
    BY <1>0, LatestFacts DEF AskInv, Latest
  <2> QED
    BY <2>1, <2>2, StartsBefore
<1>5. PICK n : Sends(S, n, added, g, b)
  <2> HIDE DEF c, b
  <2> QED
    BY <1>1, <1>4, SendsOf
<1>6. DOMAIN S = 1..n /\ \A i \in 1..n : Backed(S[i], Settled, g) /\ S[i].t \in K
  <2>1. DOMAIN S = 1..n /\ \A i \in 1..n : Backed(S[i], added, g)
    BY <1>1, <1>5, SendsFacts DEF Sends
  <2> HIDE DEF S, K
  <2> QED
    BY <1>1, <1>2, <2>1 DEF Backed, TimesOf
<1>7. /\ UNCHANGED <<table, now, trader, added>> /\ info' = NoInfo
      /\ R = IF page.cursor = 0 THEN Splice(S, Window[g]) ELSE updateChartData(C, S)
  BY ChartSteps DEF Answer, Charts, dbVars, serverVars, ChartInv, FeedInv, ShapeInv
<1>8. \A k \in K : k <= Trunc(Latest, g) /\ k \in Int
  <2>1. \A r \in added : r.at \in Int /\ r.at <= Latest /\ Latest \in Int
    BY LatestFacts
  <2>2. g \in Nat \ {0}
    BY FeedAssumption
  <2>3. ASSUME NEW r \in added PROVE Trunc(r.at, g) <= Trunc(Latest, g) /\ Trunc(r.at, g) \in Int
    <3>1. r.at \in Int /\ r.at <= Latest /\ Latest \in Int
      BY <2>1
    <3> QED
      BY <2>2, <3>1, TruncMonotone, TruncTwice
  <2> QED
    BY <2>3 DEF Known, TimesOf
<1> HIDE DEF c, C, b, S, K, R
<1>9. /\ Taken(R, K)
      /\ \A i \in DOMAIN R : Backed(R[i], Settled, g) /\ R[i].t <= Trunc(Latest, g)
  <2>1. CASE page.cursor = 0
    <3>1. Window[g] \in Nat \ {0}
      BY FeedAssumption
    <3>2. Taken(R, K) /\ From(R, <<>>, S)
      BY <1>1, <1>2, <1>4, <1>5, <1>7, <2>1, <3>1, AnswerFirst
    <3> QED
      BY <1>6, <1>8, <3>2 DEF From
  <2>2. CASE page.cursor # 0
    <3>1. ChartKept(C, g)
      BY <1>0, <2>2 DEF CleanInv, C
    <3>2. /\ Shown(C) /\ Span(C, K) /\ Ahead(C, K, b) /\ Newest(C) <= Trunc(Latest, g)
          /\ \A i \in DOMAIN C : Backed(C[i], Settled, g)
      BY <1>4, <3>1 DEF ChartKept, b, K
    <3>3. Taken(R, K) /\ From(R, C, S)
      BY <1>1, <1>2, <1>4, <1>5, <1>7, <2>2, <3>2, AnswerLater
    <3>4. \A i \in DOMAIN C : C[i].t <= Trunc(Latest, g)
      <4>1. /\ DOMAIN C = 1..Len(C) /\ Newest(C) \in Int
            /\ \A i \in 1..Len(C) : C[i].t \in Int /\ C[i].t <= Newest(C)
        BY <3>2, ShownFacts
      <4>2. Trunc(Latest, g) \in Int
        BY LatestFacts, TruncTwice, FeedAssumption
      <4> QED
        BY <3>2, <4>1, <4>2
    <3> QED
      BY <1>6, <1>8, <3>2, <3>3, <3>4 DEF From
  <2> QED
    BY <2>1, <2>2
<1>10. Newest(R) <= Trunc(Latest, g)
  <2>1. Len(R) \in DOMAIN R
    BY <1>9, ShownFacts DEF Taken
  <2> QED
    BY <1>9, <2>1 DEF Newest
<1>11. \A from : Ahead(R, K, from)
  <2>1. Newest(R) \in Int
    BY <1>9, ShownFacts DEF Taken
  <2> QED
    BY <1>8, <1>9, <2>1 DEF Taken, Ahead
<1>12. Latest' = Latest /\ K' = K /\ Settled' = Settled /\ ~PastTrade'
  BY <1>7 DEF Latest, K, Known, Settled, PastTrade, NoInfo
<1> QED
  BY <1>3, <1>9, <1>10, <1>11, <1>12 DEF ChartKept, Taken, R, K

\* The cache has trades that are made, but between DELETE and reset.
LEMMA StepSettled ==
    ASSUME ChartInv, SettledInv, [Next]_vars
    PROVE  SettledInv'
<1> SUFFICES ASSUME ~overlap', init'.pc # "deleted" PROVE added' \subseteq Settled'
  BY DEF SettledInv
<1>1. Settled \subseteq Settled'
  BY TableSteps
<1>2. ~overlap /\ (init.pc = "deleted" => added' = {})
  <2>1. CASE \E auto \in BOOLEAN : TraderInsert(auto)
    BY <2>1 DEF TraderInsert
  <2>2. CASE TraderSettle \/ TraderCommit
    BY <2>2 DEF TraderSettle, TraderCommit
  <2>3. CASE TraderUpdate \/ TraderCommitFails \/ Tick
    BY <2>3 DEF TraderUpdate, TraderCommitFails, Tick, serverVars
  <2>5. CASE InitDelete \/ InitSelect \/ InitFill
    BY <2>5 DEF InitDelete, InitSelect, InitFill, NoInit
  <2>6. CASE InitReset
    BY <2>6 DEF InitReset
  <2>7. CASE Restart
    BY <2>7 DEF Restart
  <2>4. CASE Poll \/ InfoStep \/ InfoFails \/ Reload \/ UNCHANGED vars
    BY <2>4 DEF Poll, InfoStep, InfoFails, Reload, vars, serverVars, ReadCursorTrade,
                ReadLatest, ReadOrders, Answer, NeverAnswered
  <2> QED
    BY <2>1, <2>2, <2>3, <2>4, <2>5, <2>6, <2>7 DEF Next, TraderStep, InitStep
<1>3. init.pc # "deleted" => added \subseteq Settled
  BY <1>2 DEF SettledInv
<1>4. CASE TraderSettle /\ trader.pc = "bank" /\ added' = added \cup {trader.row}
  <2>1. trader'.pc = "commit" /\ trader'.row = trader.row
    BY <1>4 DEF TraderSettle, ChartInv, FeedInv, ShapeInv
  <2>2. trader.row \in Settled'
    BY <2>1 DEF Settled
  <2> QED
    BY <1>1, <1>2, <1>3, <1>4, <2>2
<1>5. CASE InitFill /\ init.pc = "fill" /\ added' = added \cup init.rows
  <2>1. Covers(init.rows)
    BY <1>2, <1>5 DEF ChartInv, OrderInv, GivenInv
  <2>2. init.rows \subseteq Settled
    BY <2>1 DEF Covers, Settled
  <2> QED
    BY <1>1, <1>3, <1>5, <2>2
<1> QED
  BY <1>1, <1>2, <1>3, <1>4, <1>5, AddedSteps

LEMMA StepClean ==
    ASSUME ChartInv, PageInv, [Next]_vars
    PROVE  CleanInv'
<1> SUFFICES ASSUME ~Excused' PROVE CleanInv'
  BY DEF CleanInv
<1>1. \/ ~Excused
      \/ page'.cursor = 0
  BY CleanSteps DEF NewPage, Reload
<1>2. ~Excused => /\ init.pc \in {"select", "fill"} => page.cursor = 0
                  /\ page.cursor # 0 => \A g \in Grains : ChartKept(page.chart[g], g)
  BY DEF PageInv, CleanInv
<1>3. \/ page'.chart = page.chart /\ page'.cursor = page.cursor
      \/ page'.cursor = 0
      \/ Answer
  BY ChartSteps DEF NewPage
<1>4. CASE page'.cursor = 0
  BY <1>4 DEF CleanInv
<1>5. CASE ~Excused /\ Answer
  <2>1. init.pc \notin {"select", "fill"} /\ init' = init
    <3>1. PICK g \in Grains : TRUE
      BY FeedAssumption
    <3>2. added # {}
      BY <1>5, <3>1, KeptAnswer
    <3> QED
      BY <1>5, <3>2 DEF ChartInv, OrderInv, GivenInv, Excused, Answer, serverVars
  <2> QED
    BY <1>5, <2>1, KeptAnswer DEF CleanInv
<1>6. CASE ~Excused /\ page'.chart = page.chart /\ page'.cursor = page.cursor /\ page.cursor # 0
  <2>1. init.pc \notin {"select", "fill", "deleted"}
    BY <1>2, <1>6 DEF Excused
  <2>2. ~InitFill /\ init'.pc \notin {"select", "fill"}
    <3>1. CASE InitDelete \/ InitStep \/ Restart
      BY <2>1, <3>1 DEF InitDelete, InitStep, InitReset, InitSelect, InitFill, Restart, NoInit
    <3>2. CASE init' = init
      BY <2>1, <3>2 DEF InitFill
    <3>3. InitDelete \/ InitStep \/ Restart \/ init' = init
      <4>1. CASE \E auto \in BOOLEAN : TraderInsert(auto)
        BY <4>1 DEF TraderInsert
      <4>2. CASE TraderStep \/ Tick
        BY <4>2 DEF TraderStep, TraderUpdate, TraderSettle, TraderCommit, TraderCommitFails,
                    Tick, serverVars
      <4>3. CASE Poll \/ InfoStep \/ InfoFails \/ Reload \/ UNCHANGED vars
        BY <4>3 DEF Poll, InfoStep, InfoFails, Reload, vars, serverVars, ReadCursorTrade,
                    ReadLatest, ReadOrders, Answer, NeverAnswered
      <4> QED
        BY <4>1, <4>2, <4>3 DEF Next
    <3> QED
      BY <3>1, <3>2, <3>3
  <2>3. \A g \in Grains : ChartKept(page.chart[g], g)'
    BY <1>2, <1>6, <2>2, KeptStep DEF PageInv
  <2> QED
    BY <2>2, <2>3 DEF CleanInv
<1> QED
  BY <1>1, <1>3, <1>4, <1>5, <1>6

PageAndChart == ChartInv /\ PageInv

LEMMA PageInvariant == Spec => []PageAndChart
<1>1. Init => PageAndChart
  <2> SUFFICES ASSUME Init PROVE PageAndChart
    OBVIOUS
  <2>1. ChartInv
    BY InitFeed, InitCache, InitOrder DEF ChartInv
  <2>2. AskInv /\ SettledInv /\ CleanInv
    BY DEF Init, NewPage, NoInfo, NoTrader, PastTrade, AskInv, SettledInv, CleanInv
  <2> QED
    BY <2>1, <2>2, InitFeed, InitCache, InitOrder DEF PageAndChart, PageInv
<1>2. PageAndChart /\ [Next]_vars => PageAndChart'
  BY StepChart, StepAsk, StepSettled, StepClean DEF PageAndChart, PageInv
<1> QED
  BY <1>1, <1>2, PTL DEF Spec

\* While /initialize has not run and no trade was not what it seemed, a page
\* that merges answer after answer into charts of a fixed length has each in
\* the order of time, one candle for a time.
THEOREM FeedPageAscending == Spec => []PageAscending
<1>1. PageAndChart => PageAscending
  <2> SUFFICES ASSUME PageAndChart, ~Excused, NEW g \in Grains PROVE Ascending(page.chart[g])
    BY DEF PageAscending
  <2>1. CASE page.cursor = 0
    BY <2>1 DEF PageAndChart, PageInv, AskInv, NewPage, Ascending
  <2>2. CASE page.cursor # 0
    BY <2>2 DEF PageAndChart, PageInv, CleanInv, ChartKept, Shown
  <2> QED
    BY <2>1, <2>2
<1> QED
  BY <1>1, PageInvariant, PTL

\* While /initialize has not run and no trade was not what it seemed, the range
\* of each candle on the page lies within the trades of its time that are made.
THEOREM FeedPageWithinTable == Spec => []PageWithinTable
<1>1. PageAndChart => PageWithinTable
  <2> SUFFICES ASSUME PageAndChart, ~Excused, NEW g \in Grains, NEW i \in DOMAIN page.chart[g]
               PROVE  \E c \in getCandlesticData(Settled, g, 0) :
                        /\ c.t = page.chart[g][i].t
                        /\ c.l <= page.chart[g][i].l /\ page.chart[g][i].h <= c.h
    BY DEF PageWithinTable
  <2> DEFINE b == page.chart[g][i]
             group == {r \in Settled : Trunc(r.at, g) = b.t}
             prices == {r.price : r \in group}
             c == Summary(Settled, g, b.t)
  <2>1. Backed(b, Settled, g)
    <3>1. page.cursor # 0
      BY DEF PageAndChart, PageInv, AskInv, NewPage
    <3> QED
      BY <3>1 DEF PageAndChart, PageInv, CleanInv, ChartKept
  <2>2. Settled \in SUBSET Row /\ Keyed(Settled)
    BY LatestFacts DEF PageAndChart, ChartInv, CacheInv, Keyed
  <2> HIDE DEF b
  <2>3. b.l \in prices /\ b.h \in prices
    BY <2>1 DEF Backed
  <2>4. IsFiniteSet(prices) /\ prices \in SUBSET Int
    <3>1. IsFiniteSet(group) /\ group \in SUBSET Row
      BY <2>2, RowsFinite, FS_Subset
    <3>2. prices \in SUBSET Int
      BY <3>1, RowTypes
    <3>3. prices = {[s \in group |-> s.price][r] : r \in group}
      OBVIOUS
    <3> HIDE DEF group
    <3>4. IsFiniteSet({[s \in group |-> s.price][r] : r \in group})
      BY <3>1, ImageFinite
    <3> QED
      BY <3>2, <3>3, <3>4
  <2>5. Min(prices) <= b.l /\ b.h <= Max(prices)
    <3> HIDE DEF prices
    <3> QED
      BY <2>3, <2>4, TopExists
  <2>6. c.t = b.t /\ c.l = Min(prices) /\ c.h = Max(prices)
    BY DEF Summary
  <2>7. c \in getCandlesticData(Settled, g, 0)
    <3>1. PICK r \in Settled : Trunc(r.at, g) = b.t
      BY <2>1 DEF Backed
    <3>2. r \in {q \in Settled : q.at >= 0}
      BY <2>2, <3>1 DEF Row
    <3> HIDE DEF c
    <3>3. c = Summary(Settled, g, Trunc(r.at, g))
      BY <3>1 DEF c
    <3> QED
      BY <3>2, <3>3 DEF getCandlesticData
  <2> HIDE DEF c
  <2> QED
    BY <2>5, <2>6, <2>7 DEF b
<1> QED
  BY <1>1, PageInvariant, PTL
=============================================================================
