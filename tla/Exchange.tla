------------------------------ MODULE Exchange ------------------------------
(***************************************************************************)
(* The order book of webapp/nodejs: POST and DELETE handlers, the matching *)
(* run started by the timer, the InnoDB row and gap locks they meet on,    *)
(* and the bank they reserve and settle money at.  A step is what happens  *)
(* between two awaits: one statement of the database or one bank request.  *)
(***************************************************************************)
EXTENDS Integers, Sequences, FiniteSets, Functions

CONSTANTS
    Users, Clients,  \* accounts, and the HTTP requests that can be in flight
    Trader, Free,    \* the timer's connection; the holder of a lock nobody holds
    NoRow,           \* an order id not inserted yet
    Offers,          \* what a client may post: [type, user, amount, price]
    Books,           \* the tables a process may start on: sequences of offers
    Deposit,         \* Deposit[u]: money in the bank
    MaxOrders,       \* bound: rows of table orders
    LimitFactor,     \* LIMIT amount * LimitFactor of the scan (the code: 10)
    Faults,          \* the failures of the environment that may happen
    MaxRestarts      \* bound: restarts of the process

OrderIds == 1..MaxOrders
Types == {"buy", "sell"}
Agents == Clients \cup {Trader}
FaultNames == {"check_error", "reserve_error", "reserve_lost", "commit_refused",
               "commit_lost", "cancel_error", "crash"}

Offer == [type : Types, user : Users, amount : Nat \ {0}, price : Nat \ {0}]
Row == [type : Types, user : Users, amount : Nat \ {0}, price : Nat \ {0},
        closed : BOOLEAN, trade : Nat]  \* trade = 0: trade_id IS NULL

ASSUME ExchangeAssumption ==
    /\ MaxOrders \in Nat /\ LimitFactor \in Nat /\ MaxRestarts \in Nat
    /\ Faults \subseteq FaultNames
    /\ Offers \subseteq Offer /\ Books \subseteq Seq(Offer)
    /\ \A b \in Books : Len(b) <= MaxOrders
    /\ Deposit \in [Users -> Nat]
    /\ Trader \notin Clients /\ Free \notin Agents /\ NoRow \notin Row

VARIABLES
    orders,     \* table orders, as committed
    nextId,     \* its AUTO_INCREMENT; ids are in the order of created_at
    trades,     \* table trade, as committed: the id is the position
    orderLock,  \* holder of the X lock on each row of orders
    userLock,   \* and of table user
    req,        \* the request each client waits for
    tr,         \* the locals of tryTrade, with the statement it is at
    stack,      \* the frames of runTrade, innermost first
    tradeQueue, \* index.ts: orders posted and not looked at
    timer,      \* "armed" until setTimeout fires
    restarts,
    cutOff,     \* history: trades and reservations a process left half done
    rsv, ledger, nextRsv    \* the bank

Bank == INSTANCE IsuBank WITH Accounts <- Users, Refs <- OrderIds
bankVars == <<rsv, ledger, nextRsv>>
dbVars == <<orders, nextId, trades>>
lockVars == <<orderLock, userLock>>
procVars == <<req, tr, stack, tradeQueue, timer>>
vars == <<dbVars, lockVars, procVars, restarts, cutOff, bankVars>>
-----------------------------------------------------------------------------
Rows == {i \in OrderIds : orders[i] # NoRow}
Open(type) == {i \in Rows : orders[i].type = type /\ ~orders[i].closed}
Other(type) == IF type = "buy" THEN "sell" ELSE "buy"
NewRow(o) == [type |-> o.type, user |-> o.user, amount |-> o.amount,
              price |-> o.price, closed |-> FALSE, trade |-> 0]

\* ORDER BY price, created_at of the two reads of the top of the book.
Better(type, i, j) ==
    \/ orders[i].price = orders[j].price /\ i < j
    \/ type = "sell" /\ orders[i].price < orders[j].price
    \/ type = "buy" /\ orders[i].price > orders[j].price
\* LIMIT 1: no element, or the one nothing precedes.
Top(type) == {i \in Open(type) : \A j \in Open(type) \ {i} : Better(type, i, j)}

\* ORDER BY of the scan FOR UPDATE: among equal prices the buys come latest first.
ScannedBefore(type, i, j) ==
    \/ type = "sell" /\ Better(type, i, j)
    \/ /\ type = "buy"
       /\ \/ orders[i].price > orders[j].price
          \/ orders[i].price = orders[j].price /\ i > j
Crosses(cand, i) ==
    IF orders[cand].type = "buy" THEN orders[i].price <= orders[cand].price
                                 ELSE orders[i].price >= orders[cand].price
\* The rows the scan returns: at most amount * LimitFactor of those that cross.
Targets(cand) ==
    LET type == Other(orders[cand].type)
        match == {i \in Open(type) : Crosses(cand, i)}
    IN {i \in match : Cardinality({j \in match : ScannedBefore(type, j, i)})
                        < orders[cand].amount * LimitFactor}
First(S) == {i \in S : \A j \in S \ {i} : ScannedBefore(orders[i].type, i, j)}
Lowest(S) == {i \in S : \A j \in S : i <= j}

Cost(i, price) == IF orders[i].type = "buy" THEN -(orders[i].amount * price)
                                            ELSE orders[i].amount * price
-----------------------------------------------------------------------------
\* Requests and the trader's locals.  NoReq: the client has no request open.
NoReq == [pc |-> "idle"]
AddReq == [pc : {"add_user", "add_check", "add_insert", "add_respond"},
           new : {r \in Row : ~r.closed /\ r.trade = 0}]
DelReq == [pc : {"del_user", "del_order", "del_owner"}, user : Users, oid : OrderIds]
Requests == {NoReq} \cup AddReq \cup DelReq

TraderPcs == {"off", "lowest", "highest", "next", "cand", "cand_user", "reserve",
              "scan", "target", "target_user", "target_reserve", "insert",
              "update", "bank", "commit", "cancel", "cancel_throw", "down"}
TryPcs == TraderPcs \ {"off", "lowest", "highest", "next", "down"}
\* range: the type whose index range the scan's gap locks cover.
At(pc) == [pc |-> pc, low |-> 0, cand |-> 0, rest |-> 0, todo |-> {}, to |-> 0,
           fresh |-> FALSE, targets |-> {}, reserves |-> {}, inTx |-> FALSE,
           range |-> "none"]
TargetsOnly == tr.targets           \* mutant: concat([order]) forgotten
Traded == tr.targets \cup {tr.cand}  \* targets.concat([order])

Unlock(locks, a) == [x \in DOMAIN locks |-> IF locks[x] = a THEN Free ELSE locks[x]]
ReleaseOrders(a) ==                 \* mutant: a path that leaves the transaction open
    orderLock' = Unlock(orderLock, a) /\ UNCHANGED userLock
Release(a) == /\ orderLock' = Unlock(orderLock, a)
              /\ userLock' = Unlock(userLock, a)
LockOrder(a, i) == orderLock' = [orderLock EXCEPT ![i] = a]
LockUser(a, u) == userLock' = [userLock EXCEPT ![u] = a]

Init ==
    /\ \E book \in Books :
         /\ orders = [i \in OrderIds |-> IF i <= Len(book) THEN NewRow(book[i]) ELSE NoRow]
         /\ nextId = Len(book) + 1
    /\ trades = <<>>
    /\ orderLock = [i \in OrderIds |-> Free]
    /\ userLock = [u \in Users |-> Free]
    /\ req = [c \in Clients |-> NoReq]
    /\ tr = At("off") /\ stack = <<>>
    /\ tradeQueue = 0 /\ timer = "armed"
    /\ restarts = 0 /\ cutOff = [trades |-> {}, reserves |-> {}]
    /\ Bank!BankInit
-----------------------------------------------------------------------------
(* Who keeps an agent waiting, by the statement it is at. *)
NoWait(holder, a) == {}             \* mutant: SELECT without FOR UPDATE
HeldBy(holder, a) == {holder} \ {Free, a}

\* An INSERT waits for the gap after the newest row (locked with that row) and
\* for the range of its type the scan has locked.
InsertBlockers(c) ==
    (IF nextId > 1 THEN HeldBy(orderLock[nextId - 1], c) ELSE {})
      \cup (IF tr.range = req[c].new.type THEN {Trader} ELSE {})

RequestBlockers(c) ==
    CASE req[c].pc = "add_user" -> HeldBy(userLock[req[c].new.user], c)
      [] req[c].pc = "add_insert" -> InsertBlockers(c)
      [] req[c].pc = "del_user" -> HeldBy(userLock[req[c].user], c)
      [] req[c].pc = "del_order" -> HeldBy(orderLock[req[c].oid], c)
      [] req[c].pc = "del_owner" -> HeldBy(userLock[orders[req[c].oid].user], c)
      [] OTHER -> {}

\* The scan walks the index range of the type: it locks every open row of it,
\* those the price condition then drops included.  The UPDATE walks the rows of
\* its IN list by id; in the transaction it has them all.
Unscanned == {i \in Open(Other(orders[tr.cand].type)) : orderLock[i] # Trader}

Unwritten == {i \in Traded : orderLock[i] # Trader}

TraderBlockers ==
    CASE tr.pc = "cand" -> HeldBy(orderLock[tr.cand], Trader)
      [] tr.pc = "cand_user" -> HeldBy(userLock[orders[tr.cand].user], Trader)
      [] tr.pc = "scan" -> UNION {HeldBy(orderLock[i], Trader) : i \in Lowest(Unscanned)}
      [] tr.pc = "target" -> UNION {HeldBy(orderLock[i], Trader) : i \in First(tr.todo)}
      [] tr.pc = "target_user" -> HeldBy(userLock[orders[tr.to].user], Trader)
      [] tr.pc = "update" -> UNION {HeldBy(orderLock[i], Trader) : i \in Lowest(Unwritten)}
      [] OTHER -> {}

Blockers(a) == IF a = Trader THEN TraderBlockers ELSE RequestBlockers(a)

\* InnoDB finds a cycle of waits at once and rolls one member of it back.
InDeadlock(a) ==
  /\ Blockers(a) # {}
  /\ \E S \in SUBSET Agents :
        /\ a \in S
        /\ \A x \in S : Blockers(x) \cap S # {} /\ \E y \in S : x \in Blockers(y)
-----------------------------------------------------------------------------
(* POST /orders: addOrder in a transaction, then tradeQueue++.             *)
ReachAdd(c, pc) == req' = [req EXCEPT ![c] = [pc |-> pc, new |-> req[c].new]]
ReachDel(c, pc) ==
    req' = [req EXCEPT ![c] = [pc |-> pc, user |-> req[c].user, oid |-> req[c].oid]]
Answer(c) == req' = [req EXCEPT ![c] = NoReq]
Pending == {c \in Clients : req[c].pc \in {"add_user", "add_check", "add_insert"}}
RestUnchanged == UNCHANGED <<tr, stack, tradeQueue, timer, restarts, cutOff, bankVars>>

PostOrder(c) ==
    /\ req[c].pc = "idle" /\ tr.pc # "down"
    /\ nextId + Cardinality(Pending) <= MaxOrders
    /\ \E o \in Offers : req' = [req EXCEPT ![c] = [pc |-> "add_user", new |-> NewRow(o)]]
    /\ UNCHANGED <<dbVars, lockVars>> /\ RestUnchanged

AddLockUser(c) ==
    /\ req[c].pc = "add_user" /\ Blockers(c) = {}
    /\ LockUser(c, req[c].new.user)
    /\ ReachAdd(c, IF req[c].new.type = "buy" THEN "add_check" ELSE "add_insert")
    /\ UNCHANGED <<dbVars, orderLock>> /\ RestUnchanged

Checked(c) == Bank!Funded(req[c].new.user, req[c].new.amount * req[c].new.price)

AddCheckOk(c) ==
    /\ req[c].pc = "add_check" /\ Checked(c)
    /\ ReachAdd(c, "add_insert")
    /\ UNCHANGED <<dbVars, lockVars>> /\ RestUnchanged

\* Any failure of the check is answered as "credit insufficient".
AddCheckFails(c) ==
    /\ req[c].pc = "add_check"
    /\ ~Checked(c) \/ "check_error" \in Faults
    /\ Release(c) /\ Answer(c)
    /\ UNCHANGED dbVars /\ RestUnchanged

AddInsert(c) ==
    /\ req[c].pc = "add_insert" /\ Blockers(c) = {} /\ nextId \in OrderIds
    /\ orders' = [orders EXCEPT ![nextId] = req[c].new]
    /\ nextId' = nextId + 1
    /\ Release(c) /\ ReachAdd(c, "add_respond")
    /\ UNCHANGED trades /\ RestUnchanged

AddRespond(c) ==
    /\ req[c].pc = "add_respond"
    /\ tradeQueue' = tradeQueue + 1
    /\ Answer(c)
    /\ UNCHANGED <<dbVars, lockVars, tr, stack, timer, restarts, cutOff, bankVars>>

(* DELETE /order/:id by any signed-in user: his row, the order's, its owner's. *)
RequestDelete(c) ==
    /\ req[c].pc = "idle" /\ tr.pc # "down"
    /\ \E u \in Users, i \in OrderIds :
         req' = [req EXCEPT ![c] = [pc |-> "del_user", user |-> u, oid |-> i]]
    /\ UNCHANGED <<dbVars, lockVars>> /\ RestUnchanged

DelLockUser(c) ==
    /\ req[c].pc = "del_user" /\ Blockers(c) = {}
    /\ LockUser(c, req[c].user) /\ ReachDel(c, "del_order")
    /\ UNCHANGED <<dbVars, orderLock>> /\ RestUnchanged

DelNoOrder(c) ==
    /\ req[c].pc = "del_order" /\ orders[req[c].oid] = NoRow
    /\ Release(c) /\ Answer(c)
    /\ UNCHANGED dbVars /\ RestUnchanged

DelLockOrder(c) ==
    /\ req[c].pc = "del_order" /\ Blockers(c) = {} /\ orders[req[c].oid] # NoRow
    /\ LockOrder(c, req[c].oid) /\ ReachDel(c, "del_owner")
    /\ UNCHANGED <<dbVars, userLock>> /\ RestUnchanged

MayCancel(c) == /\ orders[req[c].oid].user = req[c].user
                /\ ~orders[req[c].oid].closed

\* cancelOrder reads the row again under the lock it has, and closes it.
DelCancel(c) ==
    /\ req[c].pc = "del_owner" /\ Blockers(c) = {} /\ MayCancel(c)
    /\ orders' = [orders EXCEPT ![req[c].oid].closed = TRUE]
    /\ Release(c) /\ Answer(c)
    /\ UNCHANGED <<nextId, trades>> /\ RestUnchanged

DelRefused(c) ==
    /\ req[c].pc = "del_owner" /\ Blockers(c) = {} /\ ~MayCancel(c)
    /\ Release(c) /\ Answer(c)
    /\ UNCHANGED dbVars /\ RestUnchanged

\* A request chosen as the victim is rolled back and answered 400 or 404.
VictimRequest(c) ==
    /\ InDeadlock(c)
    /\ Release(c) /\ Answer(c)
    /\ UNCHANGED dbVars /\ RestUnchanged

Request(c) ==
    \/ PostOrder(c) \/ RequestDelete(c)
    \/ AddLockUser(c) \/ AddCheckOk(c) \/ AddCheckFails(c) \/ AddInsert(c) \/ AddRespond(c)
    \/ DelLockUser(c) \/ DelNoOrder(c) \/ DelLockOrder(c) \/ DelCancel(c) \/ DelRefused(c)
    \/ VictimRequest(c)
-----------------------------------------------------------------------------
(* runTrade.  The timer fires once in the life of a process.               *)
TraderUnchanged == UNCHANGED <<req, tradeQueue, timer, restarts, cutOff>>
Goto(pc) == tr' = [tr EXCEPT !.pc = pc]

TimerFires ==
    /\ timer = "armed" /\ tr.pc = "off"
    /\ timer' = "done"
    /\ tr' = IF tradeQueue > 0 THEN At("lowest") ELSE tr
    /\ UNCHANGED <<dbVars, lockVars, req, stack, tradeQueue, restarts, cutOff, bankVars>>

ReadLowest ==
    /\ tr.pc = "lowest"
    /\ \/ Open("sell") = {} /\ tr' = At("next")
       \/ \E i \in Top("sell") : tr' = [At("highest") EXCEPT !.low = i]
    /\ UNCHANGED <<dbVars, lockVars, stack, bankVars>> /\ TraderUnchanged

\* Candidates: the bigger of the two orders is tried first.
Candidates(sell, buy) ==
    IF orders[sell].amount > orders[buy].amount THEN <<sell, buy>> ELSE <<buy, sell>>
Running(sell, buy) == \E k \in DOMAIN stack : stack[k].sell = sell /\ stack[k].buy = buy

Matches(sell, buy) == orders[sell].price <= orders[buy].price /\ ~Running(sell, buy)

ReadHighest ==
    /\ tr.pc = "highest" /\ tr' = At("next")
    /\ \/ ~(\E i \in Top("buy") : Matches(tr.low, i)) /\ UNCHANGED stack
       \/ \E i \in Top("buy") :
            /\ Matches(tr.low, i)
            /\ stack' = <<[sell |-> tr.low, buy |-> i, left |-> Candidates(tr.low, i)]>> \o stack
    /\ UNCHANGED <<dbVars, lockVars, bankVars>> /\ TraderUnchanged

\* The loop of the innermost runTrade: begin, tryTrade, or return to the caller.
NextCandidate ==
    /\ tr.pc = "next" /\ stack # <<>> /\ Head(stack).left # <<>>
    /\ tr' = [At("cand") EXCEPT !.cand = Head(Head(stack).left), !.inTx = TRUE]
    /\ stack' = <<[Head(stack) EXCEPT !.left = Tail(@)]>> \o Tail(stack)
    /\ UNCHANGED <<dbVars, lockVars, bankVars>> /\ TraderUnchanged

Return ==
    /\ tr.pc = "next" /\ stack # <<>> /\ Head(stack).left = <<>>
    /\ stack' = Tail(stack)
    /\ UNCHANGED <<dbVars, lockVars, tr, bankVars>> /\ TraderUnchanged

FinishRun ==
    /\ tr.pc = "next" /\ stack = <<>>
    /\ tr' = At("off") /\ tradeQueue' = tradeQueue - 1
    /\ UNCHANGED <<dbVars, lockVars, req, stack, timer, restarts, cutOff, bankVars>>
-----------------------------------------------------------------------------
(* tryTrade. *)
\* COMMIT with nothing written, and the next candidate; ROLLBACK and rethrow
\* through every frame.
GiveUp == Release(Trader) /\ tr' = At("next") /\ UNCHANGED stack
Throw == Release(Trader) /\ tr' = At("next") /\ stack' = <<>>

LockCandidate ==
    /\ tr.pc = "cand" /\ Blockers(Trader) = {}
    /\ LockOrder(Trader, tr.cand) /\ Goto("cand_user")
    /\ UNCHANGED <<dbVars, userLock, stack, bankVars>> /\ TraderUnchanged

LockCandidateUser ==
    /\ tr.pc = "cand_user" /\ Blockers(Trader) = {} /\ ~orders[tr.cand].closed
    /\ LockUser(Trader, orders[tr.cand].user) /\ Goto("reserve")
    /\ UNCHANGED <<dbVars, orderLock, stack, bankVars>> /\ TraderUnchanged

CandidateClosed ==
    /\ tr.pc = "cand_user" /\ Blockers(Trader) = {} /\ orders[tr.cand].closed
    /\ GiveUp
    /\ UNCHANGED <<dbVars, bankVars>> /\ TraderUnchanged

Price == orders[tr.cand].price
ReserveOwnPrice(i) ==               \* mutant: not the price of the trade
    Bank!Reserve(orders[i].user, Cost(i, orders[i].price), i)
Reserve(i) == Bank!Reserve(orders[i].user, Cost(i, Price), i)
Refused(i) == Bank!Insufficient(orders[i].user, Cost(i, Price))
\* A reservation that fails: refused, an error, or made with its answer lost.
\* Whatever the reason the client sees IsubankError, and no order is cancelled.
ReserveFails(i) ==
    \/ (Refused(i) \/ "reserve_error" \in Faults) /\ UNCHANGED bankVars
    \/ "reserve_lost" \in Faults /\ Reserve(i)

ReserveCandidate ==
    /\ tr.pc = "reserve" /\ Reserve(tr.cand)
    /\ tr' = [tr EXCEPT !.pc = "scan", !.rest = orders[tr.cand].amount,
                        !.reserves = {nextRsv}]
    /\ UNCHANGED <<dbVars, lockVars, stack>> /\ TraderUnchanged

ReserveCandidateFails ==
    /\ tr.pc = "reserve" /\ ReserveFails(tr.cand)
    /\ Throw
    /\ UNCHANGED dbVars /\ TraderUnchanged

ScanRow ==
    /\ tr.pc = "scan" /\ Blockers(Trader) = {}
    /\ \E i \in Lowest(Unscanned) : LockOrder(Trader, i)
    /\ UNCHANGED <<dbVars, userLock, tr, stack, bankVars>> /\ TraderUnchanged

SelectTargets ==
    /\ tr.pc = "scan" /\ Unscanned = {}
    /\ tr' = [tr EXCEPT !.pc = "target", !.todo = Targets(tr.cand),
                        !.range = Other(orders[tr.cand].type)]
    /\ UNCHANGED <<dbVars, lockVars, stack, bankVars>> /\ TraderUnchanged

\* getOpenOrderById(to.id).  Out of the transaction (after a deadlock that the
\* loop swallowed) the statement's lock is gone as soon as it is granted.
ReadTarget ==
    /\ tr.pc = "target" /\ Blockers(Trader) = {}
    /\ \E i \in First(tr.todo) :
         tr' = [tr EXCEPT !.pc = "target_user", !.to = i, !.todo = @ \ {i},
                          !.fresh = ~orders[i].closed]
    /\ UNCHANGED <<dbVars, lockVars, stack, bankVars>> /\ TraderUnchanged

UsableAnySize(i) == tr.fresh         \* mutant: no check against restAmount
Usable(i) == tr.fresh /\ orders[i].amount <= tr.rest

LockTargetUser ==
    /\ tr.pc = "target_user" /\ Blockers(Trader) = {}
    /\ IF tr.inTx THEN LockUser(Trader, orders[tr.to].user) ELSE UNCHANGED userLock
    /\ Goto(IF Usable(tr.to) THEN "target_reserve" ELSE "target")
    /\ UNCHANGED <<dbVars, orderLock, stack, bankVars>> /\ TraderUnchanged

ReserveTarget ==
    /\ tr.pc = "target_reserve" /\ Reserve(tr.to)
    /\ LET left == tr.rest - orders[tr.to].amount
       IN tr' = [tr EXCEPT !.pc = IF left = 0 THEN "insert" ELSE "target", !.rest = left,
                           !.targets = @ \cup {tr.to}, !.reserves = @ \cup {nextRsv}]
    /\ UNCHANGED <<dbVars, lockVars, stack>> /\ TraderUnchanged

ReserveTargetFails ==
    /\ tr.pc = "target_reserve" /\ ReserveFails(tr.to)
    /\ Goto("target")
    /\ UNCHANGED <<dbVars, lockVars, stack>> /\ TraderUnchanged

NoOrderForTrade ==
    /\ tr.pc = "target" /\ tr.todo = {}
    /\ Goto(IF tr.rest > 0 THEN "cancel" ELSE "insert")
    /\ UNCHANGED <<dbVars, lockVars, stack, bankVars>> /\ TraderUnchanged
-----------------------------------------------------------------------------
(* commitReservedOrder.  Inside the transaction the two writes are seen by  *)
(* nobody before CommitTrade; after a swallowed deadlock the connection is  *)
(* in autocommit mode: each write is visible and final at once, and the     *)
(* UPDATE has to lock its rows, one after another, for as long as it runs.  *)
RestTraded ==                       \* mutant: restAmount for the amount
    Append(trades, [amount |-> tr.rest, price |-> Price])
NewTrades == Append(trades, [amount |-> orders[tr.cand].amount, price |-> Price])
LeftOpen(id) ==                     \* mutant: closed_at not set
    [i \in OrderIds |-> IF i \in Traded THEN [orders[i] EXCEPT !.trade = id] ELSE orders[i]]
Closed(id) == [i \in OrderIds |-> IF i \in Traded
                 THEN [orders[i] EXCEPT !.closed = TRUE, !.trade = id] ELSE orders[i]]

InsertTrade ==
    /\ tr.pc = "insert" /\ Goto("update")
    /\ trades' = IF tr.inTx THEN trades ELSE NewTrades
    /\ UNCHANGED <<orders, nextId, lockVars, stack, bankVars>> /\ TraderUnchanged

UpdateLocksRow ==
    /\ tr.pc = "update" /\ Blockers(Trader) = {}
    /\ \E i \in Lowest(Unwritten) : LockOrder(Trader, i)
    /\ UNCHANGED <<dbVars, userLock, tr, stack, bankVars>> /\ TraderUnchanged

UpdateOrders ==
    /\ tr.pc = "update" /\ Unwritten = {} /\ Goto("bank")
    /\ IF tr.inTx THEN UNCHANGED <<orders, lockVars>>
                  ELSE orders' = Closed(Len(trades)) /\ Release(Trader)
    /\ UNCHANGED <<nextId, trades, stack, bankVars>> /\ TraderUnchanged

CommitAtBank ==
    /\ tr.pc = "bank" /\ Bank!Commit(tr.reserves) /\ Goto("commit")
    /\ UNCHANGED <<dbVars, lockVars, stack>> /\ TraderUnchanged

\* COMMIT, then the nested runTrade.
CommitTrade ==
    /\ tr.pc = "commit"
    /\ trades' = IF tr.inTx THEN NewTrades ELSE trades
    /\ orders' = IF tr.inTx THEN Closed(Len(trades) + 1) ELSE orders
    /\ Release(Trader) /\ tr' = At("lowest")
    /\ UNCHANGED <<nextId, stack, bankVars>> /\ TraderUnchanged

\* The finally clause: NoOrderForTrade goes on, any other error is rethrown.
NoFinally ==                        \* mutant: the finally clause forgotten
    /\ tr.pc = "cancel" /\ GiveUp
    /\ UNCHANGED <<dbVars, bankVars>> /\ TraderUnchanged
CancelReserves ==
    /\ tr.pc = "cancel" /\ Bank!Cancel(tr.reserves) /\ GiveUp
    /\ UNCHANGED <<dbVars>> /\ TraderUnchanged

CancelAndThrow ==
    /\ tr.pc = "cancel_throw" /\ Bank!Cancel(tr.reserves) /\ Throw
    /\ UNCHANGED <<dbVars>> /\ TraderUnchanged
-----------------------------------------------------------------------------
(* The trader as the victim of a deadlock. *)
VictimCandidate ==
    /\ tr.pc \in {"cand", "cand_user"} /\ InDeadlock(Trader) /\ Throw
    /\ UNCHANGED <<dbVars, bankVars>> /\ TraderUnchanged

VictimScan ==
    /\ tr.pc = "scan" /\ InDeadlock(Trader)
    /\ Release(Trader)
    /\ tr' = [tr EXCEPT !.pc = "cancel_throw", !.inTx = FALSE]
    /\ UNCHANGED <<dbVars, stack, bankVars>> /\ TraderUnchanged

\* catch (e) { continue; }: the transaction and every lock are gone.
VictimTarget ==
    /\ tr.pc = "target_user" /\ InDeadlock(Trader)
    /\ Release(Trader)
    /\ tr' = [tr EXCEPT !.pc = "target", !.inTx = FALSE, !.range = "none"]
    /\ UNCHANGED <<dbVars, stack, bankVars>> /\ TraderUnchanged

(* process.exit(1), or a crash: the connections' transactions roll back.   *)
(* What is final stays, with nobody to complete or to cancel it.           *)
HalfTraded == {t \in {Len(trades)} : tr.pc = "update" /\ ~tr.inTx}
Exit ==
    /\ cutOff' = [trades |-> cutOff.trades \cup HalfTraded,
                  reserves |-> cutOff.reserves \cup tr.reserves]
    /\ tr' = At("down") /\ stack' = <<>> /\ timer' = "done" /\ tradeQueue' = 0
    /\ req' = [c \in Clients |-> NoReq]
    /\ orderLock' = [i \in OrderIds |-> Free]
    /\ userLock' = [u \in Users |-> Free]
    /\ UNCHANGED <<dbVars, restarts>>

\* commitReservedOrder throws, and nothing is cancelled before the exit.
VictimUpdate ==
    tr.pc = "update" /\ InDeadlock(Trader) /\ Exit /\ UNCHANGED bankVars

CommitRefused == "commit_refused" \in Faults /\ tr.pc = "bank" /\ Exit /\ UNCHANGED bankVars
CommitLost == "commit_lost" \in Faults /\ tr.pc = "bank" /\ Bank!Commit(tr.reserves) /\ Exit
CancelFails ==
    /\ "cancel_error" \in Faults /\ tr.pc \in {"cancel", "cancel_throw"}
    /\ Exit /\ UNCHANGED bankVars
Crash == "crash" \in Faults /\ tr.pc # "down" /\ Exit /\ UNCHANGED bankVars

Restart ==
    /\ tr.pc = "down" /\ restarts < MaxRestarts
    /\ restarts' = restarts + 1 /\ tr' = At("off") /\ timer' = "armed"
    /\ UNCHANGED <<dbVars, lockVars, req, stack, tradeQueue, cutOff, bankVars>>

\* Reservations nobody will settle lapse; those of a run in progress do not,
\* a run being shorter than five minutes.
Lapse ==
    /\ \E e \in rsv : e.id \notin tr.reserves /\ Bank!Lapse(e.id)
    /\ UNCHANGED <<dbVars, lockVars, procVars, restarts, cutOff>>

TraderStep ==
    \/ ReadLowest \/ ReadHighest \/ NextCandidate \/ Return \/ FinishRun
    \/ LockCandidate \/ LockCandidateUser \/ CandidateClosed
    \/ ReserveCandidate \/ ReserveCandidateFails \/ ScanRow \/ SelectTargets
    \/ ReadTarget \/ LockTargetUser \/ ReserveTarget \/ ReserveTargetFails \/ NoOrderForTrade
    \/ InsertTrade \/ UpdateLocksRow \/ UpdateOrders \/ CommitAtBank \/ CommitTrade
    \/ CancelReserves \/ CancelAndThrow
    \/ VictimCandidate \/ VictimScan \/ VictimTarget \/ VictimUpdate
Environment ==
    \/ TimerFires \/ CommitRefused \/ CommitLost \/ CancelFails \/ Crash \/ Restart \/ Lapse

Next == (\E c \in Clients : Request(c)) \/ TraderStep \/ Environment
Spec == Init /\ [][Next]_vars

(* Fairness: the event loop runs every continuation, the database and the  *)
(* bank answer, and InnoDB grants a lock in the order of the requests, so  *)
(* nobody that waits for one is overtaken for ever.  Clients owe nothing.  *)
Progress(c) ==
    \/ AddLockUser(c) \/ AddCheckOk(c) \/ AddCheckFails(c) \/ AddInsert(c) \/ AddRespond(c)
    \/ DelLockUser(c) \/ DelNoOrder(c) \/ DelLockOrder(c) \/ DelCancel(c) \/ DelRefused(c)
    \/ VictimRequest(c)
FairSpec ==
    /\ Spec
    /\ \A c \in Clients : SF_vars(Progress(c))
    /\ SF_vars(TraderStep)
    /\ WF_vars(TimerFires)
-----------------------------------------------------------------------------
TraderType ==
    [pc : TraderPcs, low : 0..MaxOrders, cand : 0..MaxOrders, rest : Int,
     todo : SUBSET OrderIds, to : 0..MaxOrders, fresh : BOOLEAN,
     targets : SUBSET OrderIds, reserves : SUBSET (Nat \ {0}), inTx : BOOLEAN,
     range : Types \cup {"none"}]
Frame == [sell : Rows, buy : Rows, left : Seq(Rows)]

\* The shape of the tables, of the locks and of every local.
TypeOK ==
    /\ orders \in [OrderIds -> Row \cup {NoRow}]
    /\ nextId \in 1..(MaxOrders + 1)
    /\ trades \in Seq([amount : Nat \ {0}, price : Nat \ {0}])
    /\ orderLock \in [OrderIds -> Agents \cup {Free}]
    /\ userLock \in [Users -> Agents \cup {Free}]
    /\ req \in [Clients -> Requests]
    /\ tr \in TraderType
    /\ stack \in Seq(Frame)
    /\ tradeQueue \in Int
    /\ timer \in {"armed", "done"}
    /\ restarts \in 0..MaxRestarts
    /\ cutOff \in [trades : SUBSET Nat, reserves : SUBSET Nat]
    /\ Bank!BankTypeOK

SettledBy(t) == {i \in Rows : orders[i].trade = t}
Amount(S) == SumFunction([i \in S |-> orders[i].amount])

\* The orders closed by a trade buy exactly as many chairs as they sell, as
\* many as the trade records, and each at a price its owner asked for.  A trade
\* without orders is one whose UPDATE is still to come in autocommit mode, or
\* whose process ended there: by a deadlock of that UPDATE or by a crash.
\* (tryTrade's restAmount and commitReservedOrder.)
TradesBalanced ==
    \A t \in 1..Len(trades) :
        LET S == SettledBy(t)
            buys == {i \in S : orders[i].type = "buy"}
        IN \/ /\ Amount(buys) = trades[t].amount /\ Amount(S \ buys) = trades[t].amount
              /\ \A i \in S : IF i \in buys THEN orders[i].price >= trades[t].price
                                           ELSE orders[i].price <= trades[t].price
           \/ S = {} /\ t \in cutOff.trades \cup HalfTraded

\* While tryTrade works in its transaction, the orders it will close are open
\* and locked by it: nobody can cancel or close one of them under it.
OpenWhileInTransaction ==
    tr.inTx /\ tr.pc \notin {"cand", "cand_user"} =>
        \A i \in Traded : i \in Rows /\ orderLock[i] = Trader /\ ~orders[i].closed

\* What makes it so, in an inductive form.  An id is a row once and for all, and
\* a traded order is closed.
RowsInv ==
    /\ \A i \in OrderIds : i >= nextId => orders[i] = NoRow
    /\ \A i \in Rows : orders[i].trade # 0 => orders[i].closed
    /\ tr.pc = "highest" => tr.low \in Rows
    /\ tr.pc \in TryPcs => tr.cand \in Rows /\ tr.todo \cup tr.targets \subseteq Rows
    /\ tr.pc \in {"target_user", "target_reserve"} => tr.to \in Rows

\* Who holds a row: a DELETE that has read it, or the trader.
Held(i) == orderLock[i] = Trader /\ ~orders[i].closed
LockInv ==
    /\ \A c \in Clients : req[c].pc = "del_owner" =>
                             req[c].oid \in Rows /\ orderLock[req[c].oid] = c
    /\ tr.inTx => tr.pc \in TryPcs
    /\ tr.pc \in {"cand", "cand_user", "reserve", "scan"} =>
         tr.inTx /\ tr.targets = {} /\ tr.todo = {}
    /\ tr.pc = "cand_user" => orderLock[tr.cand] = Trader
    /\ tr.inTx /\ tr.pc \notin {"cand", "cand_user"} => \A i \in Traded \cup tr.todo : Held(i)
    /\ tr.inTx /\ tr.pc \in {"target_user", "target_reserve"} => Held(tr.to)

\* What the trader is about to trade was in no trade when it was read, and only
\* the trader trades -- with its locks or, in autocommit mode, without.
TradeInv ==
    /\ tr.pc \in {"reserve", "scan", "target", "target_user", "target_reserve",
                  "insert", "update"} => \A i \in Traded : orders[i].trade = 0
    /\ \/ tr.pc = "target_user" /\ tr.fresh
       \/ tr.pc = "target_reserve"
       => orders[tr.to].trade = 0

TradeSafety == RowsInv /\ LockInv /\ TradeInv

\* A traded order is settled at the bank by exactly one entry, of its amount at
\* the price of the trade, and no entry is there without its trade -- but for
\* the moment between the two commits.
PaidExactlyOnce ==
    tr.pc \notin {"bank", "commit"} =>
        \A i \in OrderIds :
            LET paid == {e \in ledger : e.ref = i}
            IN IF i \in Rows /\ orders[i].trade # 0
               THEN \E n \in {e.id : e \in paid} :
                      paid = {[id |-> n, acct |-> orders[i].user, ref |-> i,
                               amount |-> Cost(i, trades[orders[i].trade].price)]}
               ELSE paid = {}

\* Every reservation alive at the bank is one the running tryTrade knows of, for
\* an order it is about to trade: whatever way it ends, none stays behind to
\* hold a user's money for five minutes -- but those it had when its process
\* ended under it (a commit or cancel that failed, a deadlock of the autocommit
\* UPDATE, a crash).
NoStrandedReserve ==
    {<<e.id, e.ref>> : e \in {f \in rsv : f.id \notin cutOff.reserves}}
        \subseteq tr.reserves \X Traded

\* What the buyers of a trade pay is what its sellers get, at every moment and
\* whatever fails.
MoneyConserved == Bank!Total(ledger) = 0

\* An order belongs to at most one trade: once trade_id is set the row is final.
OneTradePerOrder ==
    [][\A i \in OrderIds : orders[i] # NoRow /\ orders[i].trade # 0
                               => orders'[i] = orders[i]]_vars

\* Every request is answered, the ones that meet in a deadlock included.
RequestsAnswered == \A c \in Clients : req[c].pc # "idle" ~> req[c].pc = "idle"

\* A matching run ends, if only with its process: its recursion is bounded by
\* the book.
RunEnds == tr.pc # "off" ~> tr.pc \in {"off", "down"}
-----------------------------------------------------------------------------
(* What the documents say and the code does not do. *)

\* WEBAPP_SPEC: DELETE cancels the order; a cancelled order is never traded.
CanceledStaysCanceled ==
    [][\A i \in OrderIds : orders[i] # NoRow /\ orders[i].closed /\ orders[i].trade = 0
                               => orders'[i] = orders[i]]_vars

\* WEBAPP_SPEC: trades are concluded as early as possible.
Crossed == \E s \in Open("sell"), b \in Open("buy") : orders[s].price <= orders[b].price
CrossedBookIsTraded == Crossed ~> ~Crossed
=============================================================================
