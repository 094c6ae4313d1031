--------------------------- MODULE ExchangeProofs ---------------------------
(***************************************************************************)
(* Theorems about Exchange for every set of users and clients, every book, *)
(* every deposit and every set of faults.                                  *)
(***************************************************************************)
EXTENDS Exchange, TLAPS, SequenceTheorems

-----------------------------------------------------------------------------
(* Helpers: locks, rows, frames. *)

LEMMA UnlockType ==
    ASSUME NEW D, NEW locks \in [D -> Agents \cup {Free}], NEW a
    PROVE  Unlock(locks, a) \in [D -> Agents \cup {Free}]
BY DEF Unlock

\* A lock that keeps nobody waiting is free, or the agent's own.
LEMMA NotHeld ==
    ASSUME NEW holder, NEW a, HeldBy(holder, a) = {}
    PROVE  holder \in {Free, a}
BY DEF HeldBy

\* Rows stay rows, so a frame stays a frame.
LEMMA FramesKept ==
    ASSUME Rows \subseteq Rows', stack \in Seq(Frame)
    PROVE  stack \in Seq(Frame)'
<1>1. Seq(Rows) \subseteq Seq(Rows')
  OBVIOUS
<1>2. Frame \subseteq Frame'
  BY <1>1 DEF Frame
<1> QED
  BY <1>2

LEMMA InitType == Init => TypeOK
<1> SUFFICES ASSUME Init PROVE TypeOK
  OBVIOUS
<1> USE ExchangeAssumption DEF Init
<1>1. PICK book \in Books :
        /\ orders = [i \in OrderIds |-> IF i <= Len(book) THEN NewRow(book[i]) ELSE NoRow]
        /\ nextId = Len(book) + 1
  OBVIOUS
<1>2. book \in Seq(Offer) /\ Len(book) <= MaxOrders
  OBVIOUS
<1>3. \A i \in OrderIds : i <= Len(book) => NewRow(book[i]) \in Row
  <2> SUFFICES ASSUME NEW i \in OrderIds, i <= Len(book) PROVE NewRow(book[i]) \in Row
    OBVIOUS
  <2>1. book[i] \in Offer
    BY <1>2 DEF OrderIds
  <2> QED
    BY <2>1 DEF NewRow, Row, Offer
<1>4. orders \in [OrderIds -> Row \cup {NoRow}]
  BY <1>1, <1>3
<1>5. nextId \in 1..(MaxOrders + 1)
  BY <1>1, <1>2
<1>6. tr \in TraderType
  BY DEF At, TraderType, TraderPcs
<1>7. stack \in Seq(Frame) /\ trades \in Seq([amount : Nat \ {0}, price : Nat \ {0}])
  OBVIOUS
<1>8. req \in [Clients -> Requests]
  BY DEF Requests
<1> QED
  BY <1>4, <1>5, <1>6, <1>7, <1>8
     DEF TypeOK, Agents, Bank!BankInit, Bank!BankTypeOK
-----------------------------------------------------------------------------
(* Type correctness, one step per action.                                  *)

LEMMA RowsFixed ==
    ASSUME UNCHANGED orders
    PROVE  Rows' = Rows /\ (TypeOK /\ UNCHANGED stack => stack \in Seq(Frame)')
<1>1. Rows' = Rows
  BY DEF Rows
<1> QED
  BY <1>1, FramesKept DEF TypeOK

LEMMA ReleaseType ==
    ASSUME TypeOK, NEW a, Release(a)
    PROVE  /\ orderLock' \in [OrderIds -> Agents \cup {Free}]
           /\ userLock' \in [Users -> Agents \cup {Free}]
<1>1. Unlock(orderLock, a) \in [OrderIds -> Agents \cup {Free}]
  BY UnlockType DEF TypeOK
<1>2. Unlock(userLock, a) \in [Users -> Agents \cup {Free}]
  BY UnlockType DEF TypeOK
<1> QED
  BY <1>1, <1>2 DEF Release

AddPcs == {"add_user", "add_check", "add_insert", "add_respond"}
DelPcs == {"del_user", "del_order", "del_owner"}

LEMMA RequestKind ==
    ASSUME TypeOK, NEW c \in Clients
    PROVE  /\ req[c].pc \in AddPcs => req[c] \in AddReq
           /\ req[c].pc \in DelPcs => req[c] \in DelReq
<1>1. req[c] \in Requests
  BY DEF TypeOK
<1>2. /\ NoReq.pc = "idle"
      /\ \A r \in AddReq : r.pc \in AddPcs
      /\ \A r \in DelReq : r.pc \in DelPcs
  BY DEF NoReq, AddReq, DelReq, AddPcs, DelPcs
<1>3. AddPcs \cap DelPcs = {} /\ "idle" \notin AddPcs \cup DelPcs
  BY DEF AddPcs, DelPcs
<1> QED
  BY <1>1, <1>2, <1>3 DEF Requests

LEMMA RequestType ==
    ASSUME TypeOK, LockInv, NEW c \in Clients, Request(c)
    PROVE  TypeOK'
<1> USE DEF TypeOK, RestUnchanged, dbVars, lockVars, bankVars, Bank!BankTypeOK
<1>a. Release(c) => /\ orderLock' \in [OrderIds -> Agents \cup {Free}]
                    /\ userLock' \in [Users -> Agents \cup {Free}]
  BY ReleaseType
<1>b. Answer(c) => req' \in [Clients -> Requests]
  BY DEF Answer, Requests
<1>c. c \in Agents
  BY DEF Agents
<1>2. CASE PostOrder(c)
  <2>1. PICK o \in Offers : req' = [req EXCEPT ![c] = [pc |-> "add_user", new |-> NewRow(o)]]
    BY <1>2 DEF PostOrder
  <2>2. [pc |-> "add_user", new |-> NewRow(o)] \in Requests
    BY ExchangeAssumption DEF Requests, AddReq, NewRow, Offer, Row
  <2> QED
    BY <1>2, <2>1, <2>2, RowsFixed DEF PostOrder
<1>3. CASE RequestDelete(c)
  <2>1. PICK u \in Users, i \in OrderIds :
          req' = [req EXCEPT ![c] = [pc |-> "del_user", user |-> u, oid |-> i]]
    BY <1>3 DEF RequestDelete
  <2>2. [pc |-> "del_user", user |-> u, oid |-> i] \in Requests
    BY DEF Requests, DelReq
  <2> QED
    BY <1>3, <2>1, <2>2, RowsFixed DEF RequestDelete
<1>4. CASE AddLockUser(c)
  <2>1. req[c] \in AddReq
    BY <1>4, RequestKind DEF AddLockUser, AddPcs
  <2>2. req' \in [Clients -> Requests]
    BY <1>4, <2>1 DEF AddLockUser, ReachAdd, Requests, AddReq
  <2> QED
    BY <1>4, <2>2, <1>c, RowsFixed DEF AddLockUser, LockUser
<1>5. CASE AddCheckOk(c)
  <2>1. req[c] \in AddReq
    BY <1>5, RequestKind DEF AddCheckOk, AddPcs
  <2>2. req' \in [Clients -> Requests]
    BY <1>5, <2>1 DEF AddCheckOk, ReachAdd, Requests, AddReq
  <2> QED
    BY <1>5, <2>2, RowsFixed DEF AddCheckOk
<1>6. CASE AddCheckFails(c)
  BY <1>6, <1>a, <1>b, RowsFixed DEF AddCheckFails
<1>7. CASE AddInsert(c)
  <2>1. req[c] \in AddReq /\ req[c].pc = "add_insert"
    BY <1>7, RequestKind DEF AddInsert, AddPcs
  <2>2. req[c].new \in Row
    BY <2>1 DEF AddReq
  <2>3. orders' \in [OrderIds -> Row \cup {NoRow}] /\ Rows \subseteq Rows'
    BY <1>7, <2>2, ExchangeAssumption DEF AddInsert, Rows
  <2>4. req' \in [Clients -> Requests]
    BY <1>7, <2>1 DEF AddInsert, ReachAdd, Requests, AddReq
  <2>5. nextId' \in 1..(MaxOrders + 1)
    BY <1>7, ExchangeAssumption DEF AddInsert, OrderIds
  <2>6. stack' \in Seq(Frame)'
    BY <1>7, <2>3, FramesKept DEF AddInsert
  <2> QED
    BY <1>7, <1>a, <2>3, <2>4, <2>5, <2>6 DEF AddInsert
<1>8. CASE AddRespond(c)
  BY <1>8, <1>b, RowsFixed DEF AddRespond
<1>9. CASE DelLockUser(c)
  <2>1. req[c] \in DelReq
    BY <1>9, RequestKind DEF DelLockUser, DelPcs
  <2>2. req' \in [Clients -> Requests]
    BY <1>9, <2>1 DEF DelLockUser, ReachDel, Requests, DelReq
  <2> QED
    BY <1>9, <2>2, <1>c, RowsFixed DEF DelLockUser, LockUser
<1>10. CASE DelNoOrder(c)
  BY <1>10, <1>a, <1>b, RowsFixed DEF DelNoOrder
<1>11. CASE DelLockOrder(c)
  <2>1. req[c] \in DelReq
    BY <1>11, RequestKind DEF DelLockOrder, DelPcs
  <2>2. req' \in [Clients -> Requests]
    BY <1>11, <2>1 DEF DelLockOrder, ReachDel, Requests, DelReq
  <2> QED
    BY <1>11, <2>2, <1>c, RowsFixed DEF DelLockOrder, LockOrder
<1>12. CASE DelCancel(c)
  <2>1. req[c] \in DelReq
    BY <1>12, RequestKind DEF DelCancel, DelPcs
  <2>2. req[c].oid \in OrderIds /\ orders[req[c].oid] \in Row
    BY <1>12, <2>1 DEF DelCancel, LockInv, Rows, DelReq
  <2>3. PICK i \in OrderIds : /\ orders[i] \in Row
                              /\ orders' = [orders EXCEPT ![i] = [@ EXCEPT !.closed = TRUE]]
    BY <1>12, <2>2 DEF DelCancel
  <2>4. [orders[i] EXCEPT !.closed = TRUE] \in Row
    BY <2>3 DEF Row
  <2>5. orders' \in [OrderIds -> Row \cup {NoRow}] /\ Rows \subseteq Rows'
    BY <2>3, <2>4, ExchangeAssumption DEF Rows
  <2> QED
    BY <1>12, <1>a, <1>b, <2>5, FramesKept DEF DelCancel
<1>13. CASE DelRefused(c)
  BY <1>13, <1>a, <1>b, RowsFixed DEF DelRefused
<1>14. CASE VictimRequest(c)
  BY <1>14, <1>a, <1>b, RowsFixed DEF VictimRequest
<1> QED
  BY <1>2, <1>3, <1>4, <1>5, <1>6, <1>7, <1>8, <1>9, <1>10, <1>11, <1>12, <1>13, <1>14
     DEF Request

LEMMA AtType == \A pc \in TraderPcs : At(pc) \in TraderType
BY ExchangeAssumption DEF At, TraderType

LEMMA RowNumber == \A i \in Rows : i \in 0..MaxOrders /\ i \in OrderIds
BY ExchangeAssumption DEF Rows, OrderIds

LEMMA CostType ==
    ASSUME TypeOK, NEW i \in Rows, NEW price \in Nat
    PROVE  Cost(i, price) \in Int /\ orders[i].user \in Users /\ i \in OrderIds
<1>1. orders[i] \in Row /\ i \in OrderIds
  BY DEF TypeOK, Rows
<1>2. orders[i].amount \in Nat /\ orders[i].user \in Users
  BY <1>1 DEF Row
<1> QED
  BY <1>1, <1>2 DEF Cost

\* What a bank call leaves behind has the shape of the bank's tables.
LEMMA BankType ==
    ASSUME TypeOK, NEW a \in Users, NEW amount \in Int, NEW ref \in OrderIds,
           NEW ids
    PROVE  /\ Bank!Reserve(a, amount, ref) => Bank!BankTypeOK' /\ nextRsv \in Nat \ {0}
           /\ Bank!Commit(ids) \/ Bank!Cancel(ids) => Bank!BankTypeOK'
           /\ \A n : Bank!Lapse(n) => Bank!BankTypeOK'
<1> USE DEF TypeOK, Bank!BankTypeOK
<1>1. [id |-> nextRsv, acct |-> a, amount |-> amount, ref |-> ref] \in Bank!Entry
  BY DEF Bank!Entry
<1>2. Bank!Reserve(a, amount, ref) => Bank!BankTypeOK'
  BY <1>1 DEF Bank!Reserve
<1>3. Bank!Commit(ids) => Bank!BankTypeOK'
  BY DEF Bank!Commit
<1>4. Bank!Cancel(ids) => Bank!BankTypeOK'
  BY DEF Bank!Cancel
<1>5. \A n : Bank!Lapse(n) => Bank!BankTypeOK'
  BY DEF Bank!Lapse
<1> QED
  BY <1>2, <1>3, <1>4, <1>5

LEMMA RunTradeType ==
    ASSUME TypeOK, RowsInv,
           ReadLowest \/ ReadHighest \/ NextCandidate \/ Return \/ FinishRun
    PROVE  TypeOK'
<1> USE DEF TypeOK, TraderUnchanged, dbVars, lockVars, bankVars, Bank!BankTypeOK
<1>1. CASE ReadLowest
  <2>1. ASSUME NEW i \in Top("sell") PROVE [At("highest") EXCEPT !.low = i] \in TraderType
    <3>1. i \in 0..MaxOrders
      BY <2>1, RowNumber DEF Top, Open
    <3>2. At("highest") \in TraderType
      BY AtType DEF TraderPcs
    <3> QED
      BY <3>1, <3>2 DEF TraderType
  <2>2. At("next") \in TraderType
    BY AtType DEF TraderPcs
  <2> QED
    BY <1>1, <2>1, <2>2, RowsFixed DEF ReadLowest
<1>2. CASE ReadHighest
  <2>1. At("next") \in TraderType
    BY AtType DEF TraderPcs
  <2>2. ASSUME NEW i \in Top("buy"), tr.low \in Rows
        PROVE  <<[sell |-> tr.low, buy |-> i, left |-> Candidates(tr.low, i)]>> \o stack
                 \in Seq(Frame)
    <3>1. i \in Rows
      BY DEF Top, Open
    <3>2. Candidates(tr.low, i) \in Seq(Rows)
      BY <2>2, <3>1 DEF Candidates
    <3>3. [sell |-> tr.low, buy |-> i, left |-> Candidates(tr.low, i)] \in Frame
      BY <2>2, <3>1, <3>2 DEF Frame
    <3> QED
      BY <3>3
  <2>3. stack' \in Seq(Frame)
    BY <1>2, <2>2 DEF ReadHighest, RowsInv
  <2>4. Frame' = Frame
    BY <1>2 DEF ReadHighest, Frame, Rows
  <2> QED
    BY <1>2, <2>1, <2>3, <2>4 DEF ReadHighest
<1>3. CASE NextCandidate
  <2>1. Head(stack) \in Frame /\ Tail(stack) \in Seq(Frame)
    BY <1>3 DEF NextCandidate
  <2>2. Head(Head(stack).left) \in Rows /\ Tail(Head(stack).left) \in Seq(Rows)
    BY <1>3, <2>1 DEF NextCandidate, Frame
  <2>3. [Head(stack) EXCEPT !.left = Tail(@)] \in Frame
    BY <2>1, <2>2 DEF Frame
  <2>4. stack' \in Seq(Frame)
    BY <1>3, <2>1, <2>3 DEF NextCandidate
  <2>5. Frame' = Frame
    BY <1>3 DEF NextCandidate, Frame, Rows
  <2>6. tr' \in TraderType
    <3>1. Head(Head(stack).left) \in 0..MaxOrders
      BY <2>2, RowNumber
    <3>2. At("cand") \in TraderType
      BY AtType DEF TraderPcs
    <3> QED
      BY <1>3, <3>1, <3>2 DEF NextCandidate, TraderType
  <2> QED
    BY <1>3, <2>4, <2>5, <2>6 DEF NextCandidate
<1>4. CASE Return
  <2>1. stack' \in Seq(Frame)
    BY <1>4 DEF Return
  <2>2. Frame' = Frame
    BY <1>4 DEF Return, Frame, Rows
  <2> QED
    BY <1>4, <2>1, <2>2 DEF Return
<1>5. CASE FinishRun
  <2>1. At("off") \in TraderType
    BY AtType DEF TraderPcs
  <2> QED
    BY <1>5, <2>1, RowsFixed DEF FinishRun
<1> QED
  BY <1>1, <1>2, <1>3, <1>4, <1>5

LEMMA ReserveType ==
    ASSUME TypeOK, NEW i \in Rows, Price \in Nat
    PROVE  /\ Reserve(i) => Bank!BankTypeOK' /\ nextRsv \in Nat \ {0}
           /\ ReserveFails(i) => Bank!BankTypeOK'
<1>1. Cost(i, Price) \in Int /\ orders[i].user \in Users /\ i \in OrderIds
  BY CostType
<1>2. Reserve(i) => Bank!BankTypeOK' /\ nextRsv \in Nat \ {0}
  BY <1>1, BankType DEF Reserve
<1>3. UNCHANGED bankVars => Bank!BankTypeOK'
  BY DEF TypeOK, bankVars, Bank!BankTypeOK
<1>4. ReserveFails(i) => Bank!BankTypeOK'
  BY <1>1, <1>2, <1>3 DEF ReserveFails, TypeOK
<1> QED
  BY <1>2, <1>4

\* The ways out of tryTrade leave a trader at rest.
LEMMA LeaveType ==
    ASSUME TypeOK, UNCHANGED orders
    PROVE  /\ GiveUp => tr' \in TraderType /\ stack' \in Seq(Frame)'
           /\ Throw => tr' \in TraderType /\ stack' \in Seq(Frame)'
           /\ GiveUp \/ Throw => /\ orderLock' \in [OrderIds -> Agents \cup {Free}]
                                /\ userLock' \in [Users -> Agents \cup {Free}]
<1>1. At("next") \in TraderType
  BY AtType DEF TraderPcs
<1>2. <<>> \in Seq(Frame)'
  OBVIOUS
<1> QED
  BY <1>1, <1>2, RowsFixed, ReleaseType DEF GiveUp, Throw

LEMMA PriceType ==
    ASSUME TypeOK, tr.cand \in Rows
    PROVE  Price \in Nat \ {0} /\ orders[tr.cand].amount \in Nat \ {0}
BY DEF TypeOK, Rows, Row, Price

LEMMA LockType ==
    ASSUME TypeOK, NEW i, NEW u
    PROVE  /\ LockOrder(Trader, i) => orderLock' \in [OrderIds -> Agents \cup {Free}]
           /\ LockUser(Trader, u) => userLock' \in [Users -> Agents \cup {Free}]
BY DEF TypeOK, LockOrder, LockUser, Agents

LEMMA ReadType ==
    ASSUME TypeOK, RowsInv,
           \/ LockCandidate \/ LockCandidateUser \/ CandidateClosed
           \/ ReserveCandidate \/ ReserveCandidateFails \/ ScanRow \/ SelectTargets
           \/ ReadTarget
    PROVE  TypeOK'
<1> USE DEF TypeOK, TraderUnchanged, dbVars, lockVars, bankVars, Bank!BankTypeOK
<1>1. CASE LockCandidate
  <2>1. tr' \in TraderType
    BY <1>1 DEF LockCandidate, Goto, TraderType, TraderPcs
  <2> QED
    BY <1>1, <2>1, RowsFixed, LockType DEF LockCandidate
<1>2. CASE LockCandidateUser
  <2>1. tr' \in TraderType
    BY <1>2 DEF LockCandidateUser, Goto, TraderType, TraderPcs
  <2> QED
    BY <1>2, <2>1, RowsFixed, LockType DEF LockCandidateUser
<1>3. CASE CandidateClosed
  BY <1>3, LeaveType DEF CandidateClosed
<1>4. CASE ReserveCandidate
  <2>1. tr.cand \in Rows
    BY <1>4 DEF ReserveCandidate, RowsInv, TryPcs, TraderPcs
  <2>2. Price \in Nat /\ orders[tr.cand].amount \in Int
    BY <2>1, PriceType
  <2>3. Bank!BankTypeOK' /\ nextRsv \in Nat \ {0}
    BY <1>4, <2>1, <2>2, ReserveType DEF ReserveCandidate
  <2>4. tr' \in TraderType
    BY <1>4, <2>2, <2>3 DEF ReserveCandidate, TraderType, TraderPcs
  <2> QED
    BY <1>4, <2>3, <2>4, RowsFixed DEF ReserveCandidate
<1>5. CASE ReserveCandidateFails
  <2>1. tr.cand \in Rows
    BY <1>5 DEF ReserveCandidateFails, RowsInv, TryPcs, TraderPcs
  <2>2. Bank!BankTypeOK'
    BY <1>5, <2>1, PriceType, ReserveType DEF ReserveCandidateFails
  <2> QED
    BY <1>5, <2>2, LeaveType DEF ReserveCandidateFails
<1>6. CASE ScanRow
  BY <1>6, RowsFixed, LockType DEF ScanRow
<1>7. CASE SelectTargets
  <2>1. Targets(tr.cand) \subseteq OrderIds
    BY DEF Targets, Open, Rows
  <2>2. Other(orders[tr.cand].type) \in Types
    BY DEF Other, Types
  <2>3. tr' \in TraderType
    BY <1>7, <2>1, <2>2 DEF SelectTargets, TraderType, TraderPcs
  <2> QED
    BY <1>7, <2>3, RowsFixed DEF SelectTargets
<1>8. CASE ReadTarget
  <2>1. PICK i \in First(tr.todo) :
          tr' = [tr EXCEPT !.pc = "target_user", !.to = i, !.todo = @ \ {i},
                           !.fresh = ~orders[i].closed]
    BY <1>8 DEF ReadTarget
  <2>2. i \in Rows
    BY <1>8 DEF ReadTarget, First, RowsInv, TryPcs, TraderPcs
  <2>3. i \in 0..MaxOrders /\ (~orders[i].closed) \in BOOLEAN
    BY <2>2, RowNumber
  <2>4. tr.todo \ {i} \in SUBSET OrderIds
    BY DEF TraderType
  <2>5. tr' \in TraderType
    BY <2>1, <2>3, <2>4 DEF TraderType, TraderPcs
  <2> QED
    BY <1>8, <2>5, RowsFixed DEF ReadTarget
<1> QED
  BY <1>1, <1>2, <1>3, <1>4, <1>5, <1>6, <1>7, <1>8

LEMMA ClosedType ==
    ASSUME TypeOK, Traded \subseteq Rows, NEW id \in Nat
    PROVE  /\ Closed(id) \in [OrderIds -> Row \cup {NoRow}]
           /\ \A i \in Rows : Closed(id)[i] # NoRow
           /\ \A i \in OrderIds \ Rows : Closed(id)[i] = NoRow
<1>1. ASSUME NEW i \in Rows PROVE [orders[i] EXCEPT !.closed = TRUE, !.trade = id] \in Row
  <2>1. orders[i] \in Row
    BY DEF TypeOK, Rows
  <2> QED
    BY <2>1 DEF Row
<1>2. \A i \in Rows : i \in OrderIds /\ orders[i] \in Row
  BY DEF TypeOK, Rows
<1>3. NoRow \notin Row
  BY ExchangeAssumption
<1> QED
  BY <1>1, <1>2, <1>3 DEF Closed, TypeOK, Rows

LEMMA TradesType ==
    ASSUME TypeOK, tr.cand \in Rows
    PROVE  NewTrades \in Seq([amount : Nat \ {0}, price : Nat \ {0}])
BY PriceType DEF NewTrades, TypeOK

LEMMA TradedRows ==
    ASSUME TypeOK, RowsInv, tr.pc \in TryPcs
    PROVE  Traded \subseteq Rows /\ tr.cand \in Rows
BY DEF RowsInv, Traded

LEMMA SettleType ==
    ASSUME TypeOK, RowsInv,
           \/ LockTargetUser \/ ReserveTarget \/ ReserveTargetFails \/ NoOrderForTrade
           \/ InsertTrade \/ UpdateLocksRow \/ UpdateOrders \/ CommitAtBank \/ CommitTrade
    PROVE  TypeOK'
<1> USE DEF TypeOK, TraderUnchanged, dbVars, lockVars, bankVars, Bank!BankTypeOK
<1>0. ASSUME NEW pc \in TraderPcs, Goto(pc) PROVE tr' \in TraderType
  BY <1>0 DEF Goto, TraderType
<1>a. \A pc \in {"target_reserve", "target", "cancel", "insert", "update", "bank", "commit"} :
        pc \in TraderPcs /\ pc \in TryPcs
  BY DEF TryPcs, TraderPcs
<1>1. CASE LockTargetUser
  <2>1. tr' \in TraderType
    BY <1>1, <1>0, <1>a DEF LockTargetUser
  <2> QED
    BY <1>1, <2>1, RowsFixed, LockType DEF LockTargetUser
<1>2. CASE ReserveTarget
  <2>1. tr.cand \in Rows /\ tr.to \in Rows
    BY <1>2, <1>a, TradedRows DEF ReserveTarget, RowsInv
  <2>2. Price \in Nat
    BY <2>1, PriceType
  <2>3. Bank!BankTypeOK' /\ nextRsv \in Nat \ {0}
    BY <1>2, <2>1, <2>2, ReserveType DEF ReserveTarget
  <2>4. orders[tr.to].amount \in Int /\ tr.to \in OrderIds
    BY <2>1 DEF Rows, Row
  <2>5. tr.rest - orders[tr.to].amount \in Int
    BY <2>4 DEF TraderType
  <2>6. tr' \in TraderType
    BY <1>2, <2>3, <2>4, <2>5 DEF ReserveTarget, TraderType, TraderPcs
  <2> QED
    BY <1>2, <2>3, <2>6, RowsFixed DEF ReserveTarget
<1>3. CASE ReserveTargetFails
  <2>1. tr.cand \in Rows /\ tr.to \in Rows
    BY <1>3, <1>a, TradedRows DEF ReserveTargetFails, RowsInv
  <2>2. Bank!BankTypeOK'
    BY <1>3, <2>1, PriceType, ReserveType DEF ReserveTargetFails
  <2>3. tr' \in TraderType
    BY <1>3, <1>0, <1>a DEF ReserveTargetFails
  <2> QED
    BY <1>3, <2>2, <2>3, RowsFixed DEF ReserveTargetFails
<1>4. CASE NoOrderForTrade
  <2>1. tr' \in TraderType
    BY <1>4, <1>0, <1>a DEF NoOrderForTrade
  <2> QED
    BY <1>4, <2>1, RowsFixed DEF NoOrderForTrade
<1>5. CASE InsertTrade
  <2>1. tr' \in TraderType
    BY <1>5, <1>0, <1>a DEF InsertTrade
  <2>2. trades' \in Seq([amount : Nat \ {0}, price : Nat \ {0}])
    BY <1>5, <1>a, TradedRows, TradesType DEF InsertTrade
  <2> QED
    BY <1>5, <2>1, <2>2, RowsFixed DEF InsertTrade
<1>6. CASE UpdateOrders
  <2>1. tr' \in TraderType
    BY <1>6, <1>0, <1>a DEF UpdateOrders
  <2>2. Traded \subseteq Rows /\ Len(trades) \in Nat
    BY <1>6, <1>a, TradedRows DEF UpdateOrders
  <2>3. orders' \in [OrderIds -> Row \cup {NoRow}] /\ Rows \subseteq Rows'
    BY <1>6, <2>2, ClosedType DEF UpdateOrders, Rows
  <2>4. /\ orderLock' \in [OrderIds -> Agents \cup {Free}]
        /\ userLock' \in [Users -> Agents \cup {Free}]
    BY <1>6, ReleaseType DEF UpdateOrders
  <2> QED
    BY <1>6, <2>1, <2>3, <2>4, FramesKept DEF UpdateOrders
<1>7. CASE CommitAtBank
  <2>1. tr' \in TraderType
    BY <1>7, <1>0, <1>a DEF CommitAtBank
  <2>2. Bank!BankTypeOK'
    BY <1>7 DEF CommitAtBank, Bank!Commit
  <2> QED
    BY <1>7, <2>1, <2>2, RowsFixed DEF CommitAtBank
<1>8. CASE CommitTrade
  <2>1. tr' \in TraderType
    BY <1>8, AtType DEF CommitTrade, TraderPcs
  <2>2. Traded \subseteq Rows /\ tr.cand \in Rows /\ Len(trades) + 1 \in Nat
    BY <1>8, <1>a, TradedRows DEF CommitTrade
  <2>3. orders' \in [OrderIds -> Row \cup {NoRow}] /\ Rows \subseteq Rows'
    BY <1>8, <2>2, ClosedType DEF CommitTrade, Rows
  <2>4. trades' \in Seq([amount : Nat \ {0}, price : Nat \ {0}])
    BY <1>8, <2>2, TradesType DEF CommitTrade
  <2> QED
    BY <1>8, <2>1, <2>3, <2>4, FramesKept, ReleaseType DEF CommitTrade
<1>9. CASE UpdateLocksRow
  BY <1>9, RowsFixed, LockType DEF UpdateLocksRow
<1> QED
  BY <1>1, <1>2, <1>3, <1>4, <1>5, <1>6, <1>7, <1>8, <1>9

LEMMA ExitType ==
    ASSUME TypeOK, Exit, Bank!BankTypeOK'
    PROVE  TypeOK'
<1>1. At("down") \in TraderType
  BY AtType DEF TraderPcs
<1>2. NoReq \in Requests
  BY DEF Requests
<1>3. cutOff' \in [trades : SUBSET Nat, reserves : SUBSET Nat]
  <2>1. HalfTraded \subseteq Nat /\ tr.reserves \subseteq Nat
    BY DEF HalfTraded, TypeOK, TraderType
  <2> QED
    BY <2>1 DEF Exit, TypeOK
<1> QED
  BY <1>1, <1>2, <1>3, RowsFixed DEF Exit, TypeOK, dbVars

LEMMA UndoType ==
    ASSUME TypeOK, RowsInv,
           \/ CancelReserves \/ CancelAndThrow
           \/ VictimCandidate \/ VictimScan \/ VictimTarget \/ VictimUpdate \/ Environment
    PROVE  TypeOK'
<1> USE DEF TypeOK, TraderUnchanged, dbVars, lockVars, bankVars, Bank!BankTypeOK
<1>1. CASE CancelReserves
  BY <1>1, LeaveType DEF CancelReserves, Bank!Cancel
<1>2. CASE CancelAndThrow
  BY <1>2, LeaveType DEF CancelAndThrow, Bank!Cancel
<1>3. CASE VictimCandidate
  BY <1>3, LeaveType DEF VictimCandidate
<1>4. CASE VictimScan
  <2>1. tr' \in TraderType
    BY <1>4 DEF VictimScan, TraderType, TraderPcs
  <2> QED
    BY <1>4, <2>1, RowsFixed, ReleaseType DEF VictimScan
<1>5. CASE VictimTarget
  <2>1. tr' \in TraderType
    BY <1>5 DEF VictimTarget, TraderType, TraderPcs
  <2> QED
    BY <1>5, <2>1, RowsFixed, ReleaseType DEF VictimTarget
<1>6. CASE TimerFires
  <2>1. tr' \in TraderType
    BY <1>6, AtType DEF TimerFires, TraderPcs
  <2> QED
    BY <1>6, <2>1, RowsFixed DEF TimerFires
<1>7. CASE VictimUpdate \/ CommitRefused \/ CancelFails \/ Crash
  BY <1>7, ExitType DEF VictimUpdate, CommitRefused, CancelFails, Crash
<1>8. CASE CommitLost
  BY <1>8, ExitType DEF CommitLost, Bank!Commit
<1>9. CASE Restart
  <2>1. tr' \in TraderType
    BY <1>9, AtType DEF Restart, TraderPcs
  <2>2. restarts' \in 0..MaxRestarts
    BY <1>9, ExchangeAssumption DEF Restart
  <2> QED
    BY <1>9, <2>1, <2>2, RowsFixed DEF Restart
<1>10. CASE Lapse
  BY <1>10, RowsFixed DEF Lapse, procVars, Bank!Lapse
<1> QED
  BY <1>1, <1>2, <1>3, <1>4, <1>5, <1>6, <1>7, <1>8, <1>9, <1>10 DEF Environment

LEMMA StepType ==
    ASSUME TypeOK, RowsInv, LockInv, [Next]_vars
    PROVE  TypeOK'
<1>1. CASE \E c \in Clients : Request(c)
  BY <1>1, RequestType
<1>2. CASE TraderStep
  BY <1>2, RunTradeType, ReadType, SettleType, UndoType DEF TraderStep
<1>3. CASE Environment
  BY <1>3, UndoType
<1>4. CASE UNCHANGED vars
  BY <1>4, RowsFixed DEF TypeOK, vars, dbVars, lockVars, procVars, bankVars,
     Bank!BankTypeOK
<1> QED
  BY <1>1, <1>2, <1>3, <1>4 DEF Next
-----------------------------------------------------------------------------
(* The inductive invariant TradeSafety.                                    *)

\* What a request leaves of the tables: a row the trader holds is untouched, no
\* row is lost, no trade_id changes.
RowsKept ==
    /\ \A i \in Rows : i \in Rows' /\ orders'[i].trade = orders[i].trade
    /\ \A i \in Rows : orderLock[i] = Trader =>
                         orderLock'[i] = Trader /\ orders'[i] = orders[i]
    /\ \A i \in OrderIds : i >= nextId' => orders'[i] = NoRow
    /\ \A i \in Rows' : orders'[i].trade # 0 => orders'[i].closed
    /\ \A c \in Clients : req'[c].pc = "del_owner" =>
                             req'[c].oid \in Rows' /\ orderLock'[req'[c].oid] = c

LEMMA ReleaseOther ==
    ASSUME TypeOK, NEW a, NEW b, a # b, NEW i \in OrderIds, Release(a), orderLock[i] = b
    PROVE  orderLock'[i] = b
BY DEF Release, Unlock, TypeOK

LEMMA ClientsOther == \A c \in Clients : c # Trader /\ c # Free /\ Trader # Free
BY ExchangeAssumption DEF Agents

\* A request that only gives its locks back.
LEMMA AnswerKeeps ==
    ASSUME TypeOK, TradeSafety, NEW c \in Clients, Release(c), UNCHANGED <<orders, nextId>>,
           \/ Answer(c)
           \/ req' = [req EXCEPT ![c] = [pc |-> "add_respond", new |-> req[c].new]]
    PROVE  RowsKept
<1>1. Rows' = Rows
  BY DEF Rows
<1>2. ASSUME NEW i \in Rows, orderLock[i] = Trader PROVE orderLock'[i] = Trader
  BY <1>2, ReleaseOther, ClientsOther DEF Rows
<1>3. ASSUME NEW d \in Clients, req'[d].pc = "del_owner"
      PROVE  req'[d].oid \in Rows' /\ orderLock'[req'[d].oid] = d
  <2>1. d # c /\ req'[d] = req[d]
    BY <1>3 DEF Answer, NoReq, TypeOK
  <2>2. req[d].oid \in Rows /\ orderLock[req[d].oid] = d
    BY <1>3, <2>1 DEF TradeSafety, LockInv
  <2> QED
    BY <2>1, <2>2, <1>1, ReleaseOther DEF Rows
<1> QED
  BY <1>1, <1>2, <1>3 DEF RowsKept, TradeSafety, RowsInv

\* A request that only moves on, without locking an order.
LEMMA MoveKeeps ==
    ASSUME TypeOK, TradeSafety, NEW c \in Clients, NEW r, r.pc # "del_owner",
           req' = [req EXCEPT ![c] = r], UNCHANGED <<orders, nextId, orderLock>>
    PROVE  RowsKept
<1>1. Rows' = Rows
  BY DEF Rows
<1>2. ASSUME NEW d \in Clients, req'[d].pc = "del_owner" PROVE req'[d] = req[d]
  BY <1>2 DEF TypeOK
<1> QED
  BY <1>1, <1>2 DEF RowsKept, TradeSafety, RowsInv, LockInv

LEMMA RequestKeeps ==
    ASSUME TypeOK, TradeSafety, NEW c \in Clients, Request(c)
    PROVE  RowsKept /\ UNCHANGED tr
<1> USE DEF RestUnchanged, dbVars, lockVars
<1>1. CASE PostOrder(c)
  <2>1. PICK o \in Offers : req' = [req EXCEPT ![c] = [pc |-> "add_user", new |-> NewRow(o)]]
    BY <1>1 DEF PostOrder
  <2>2. [pc |-> "add_user", new |-> NewRow(o)].pc # "del_owner"
    OBVIOUS
  <2> QED
    BY <1>1, <2>1, <2>2, MoveKeeps DEF PostOrder
<1>2. CASE RequestDelete(c)
  <2>1. PICK u \in Users, i \in OrderIds :
          req' = [req EXCEPT ![c] = [pc |-> "del_user", user |-> u, oid |-> i]]
    BY <1>2 DEF RequestDelete
  <2>2. [pc |-> "del_user", user |-> u, oid |-> i].pc # "del_owner"
    OBVIOUS
  <2> QED
    BY <1>2, <2>1, <2>2, MoveKeeps DEF RequestDelete
<1>3. CASE AddLockUser(c)
  <2> DEFINE pc == IF req[c].new.type = "buy" THEN "add_check" ELSE "add_insert"
             r == [pc |-> pc, new |-> req[c].new]
  <2>1. r.pc # "del_owner"
    OBVIOUS
  <2>2. req' = [req EXCEPT ![c] = r] /\ UNCHANGED <<orders, nextId, orderLock, tr>>
    BY <1>3 DEF AddLockUser, ReachAdd
  <2> HIDE DEF r
  <2> QED
    BY <2>1, <2>2, MoveKeeps
<1>4. CASE AddCheckOk(c)
  <2> DEFINE r == [pc |-> "add_insert", new |-> req[c].new]
  <2>1. r.pc # "del_owner"
    OBVIOUS
  <2>2. req' = [req EXCEPT ![c] = r] /\ UNCHANGED <<orders, nextId, orderLock, tr>>
    BY <1>4 DEF AddCheckOk, ReachAdd
  <2> HIDE DEF r
  <2> QED
    BY <2>1, <2>2, MoveKeeps
<1>5. CASE AddCheckFails(c) \/ DelNoOrder(c) \/ DelRefused(c) \/ VictimRequest(c)
  BY <1>5, AnswerKeeps DEF AddCheckFails, DelNoOrder, DelRefused, VictimRequest
<1>6. CASE AddInsert(c)
  <2>1. req[c].new \in Row /\ ~req[c].new.closed /\ req[c].new.trade = 0
    BY <1>6, RequestKind DEF AddInsert, AddPcs, AddReq
  <2>2. orders[nextId] = NoRow /\ nextId \in OrderIds
    BY <1>6 DEF AddInsert, TradeSafety, RowsInv, OrderIds
  <2>3. \A i \in Rows : i # nextId /\ orders'[i] = orders[i] /\ i \in Rows'
    BY <1>6, <2>2 DEF AddInsert, Rows, TypeOK
  <2>4. \A i \in Rows' : i = nextId \/ i \in Rows
    BY <1>6 DEF AddInsert, Rows, TypeOK
  <2>5. \A i \in Rows' : orders'[i].trade # 0 => orders'[i].closed
    BY <1>6, <2>1, <2>2, <2>3, <2>4 DEF AddInsert, TypeOK, TradeSafety, RowsInv
  <2>6. \A i \in OrderIds : i >= nextId' => orders'[i] = NoRow
    BY <1>6, <2>2 DEF AddInsert, TypeOK, TradeSafety, RowsInv, OrderIds
  <2>7. ASSUME NEW i \in Rows, orderLock[i] = Trader PROVE orderLock'[i] = Trader
    BY <1>6, <2>7, ReleaseOther, ClientsOther DEF AddInsert, Rows
  <2>8. ASSUME NEW d \in Clients, req'[d].pc = "del_owner"
        PROVE  req'[d].oid \in Rows' /\ orderLock'[req'[d].oid] = d
    <3>1. d # c /\ req'[d] = req[d]
      BY <1>6, <2>8 DEF AddInsert, ReachAdd, TypeOK
    <3>2. req[d].oid \in Rows /\ orderLock[req[d].oid] = d
      BY <2>8, <3>1 DEF TradeSafety, LockInv
    <3> QED
      BY <1>6, <2>3, <3>1, <3>2, ReleaseOther DEF AddInsert, Rows
  <2> QED
    BY <1>6, <2>3, <2>5, <2>6, <2>7, <2>8 DEF AddInsert, RowsKept
<1>7. CASE AddRespond(c)
  <2>1. NoReq.pc # "del_owner"
    BY DEF NoReq
  <2> QED
    BY <1>7, <2>1, MoveKeeps DEF AddRespond, Answer
<1>8. CASE DelLockUser(c)
  <2> DEFINE r == [pc |-> "del_order", user |-> req[c].user, oid |-> req[c].oid]
  <2>1. r.pc # "del_owner"
    OBVIOUS
  <2>2. req' = [req EXCEPT ![c] = r] /\ UNCHANGED <<orders, nextId, orderLock, tr>>
    BY <1>8 DEF DelLockUser, ReachDel
  <2> HIDE DEF r
  <2> QED
    BY <2>1, <2>2, MoveKeeps
<1>9. CASE DelLockOrder(c)
  <2>1. req[c] \in DelReq /\ req[c].oid \in Rows
    BY <1>9, RequestKind DEF DelLockOrder, DelPcs, DelReq, Rows
  <2>2. orderLock[req[c].oid] \in {Free, c}
    BY <1>9, ClientsOther, NotHeld DEF DelLockOrder, Blockers, RequestBlockers
  <2>3. Rows' = Rows /\ UNCHANGED <<orders, nextId>>
    BY <1>9 DEF DelLockOrder, Rows
  <2>4. \A i \in OrderIds : i # req[c].oid => orderLock'[i] = orderLock[i]
    BY <1>9 DEF DelLockOrder, LockOrder, TypeOK
  <2>5. ASSUME NEW d \in Clients, req'[d].pc = "del_owner"
        PROVE  req'[d].oid \in Rows' /\ orderLock'[req'[d].oid] = d
    <3>1. CASE d = c
      BY <1>9, <2>1, <2>3, <3>1 DEF DelLockOrder, LockOrder, ReachDel, TypeOK, Rows
    <3>2. CASE d # c
      <4>1. req'[d] = req[d]
        BY <1>9, <3>2 DEF DelLockOrder, ReachDel, TypeOK
      <4>2. req[d].oid \in Rows /\ orderLock[req[d].oid] = d
        BY <2>5, <4>1 DEF TradeSafety, LockInv
      <4>3. req[d].oid # req[c].oid
        BY <2>2, <3>2, <4>2, ClientsOther
      <4> QED
        BY <2>3, <2>4, <4>1, <4>2, <4>3 DEF Rows
    <3> QED
      BY <3>1, <3>2
  <2>6. \A i \in Rows : orderLock[i] = Trader => orderLock'[i] = Trader
    BY <2>2, <2>4, ClientsOther DEF Rows
  <2> QED
    BY <1>9, <2>3, <2>5, <2>6 DEF DelLockOrder, RowsKept, TradeSafety, RowsInv
<1>10. CASE DelCancel(c)
  <2> DEFINE k == req[c].oid
  <2>1. k \in Rows /\ orderLock[k] = c /\ orders[k] \in Row /\ k \in OrderIds
    BY <1>10 DEF DelCancel, TradeSafety, LockInv, TypeOK, Rows
  <2>2. orders' = [orders EXCEPT ![k] = [@ EXCEPT !.closed = TRUE]]
    BY <1>10 DEF DelCancel
  <2>3. orders'[k] = [orders[k] EXCEPT !.closed = TRUE] /\ orders'[k] \in Row
    BY <2>1, <2>2 DEF TypeOK, Row
  <2>4. orders'[k].trade = orders[k].trade /\ orders'[k].closed /\ orders'[k] # NoRow
    BY <2>1, <2>3, ExchangeAssumption DEF Row
  <2>5. \A i \in OrderIds : i # k => orders'[i] = orders[i]
    BY <2>2 DEF TypeOK
  <2>6. Rows' = Rows
    BY <2>1, <2>4, <2>5 DEF Rows
  <2>7. \A i \in Rows : orderLock[i] = Trader => i # k
    BY <2>1, ClientsOther
  <2>8. ASSUME NEW i \in Rows, orderLock[i] = Trader PROVE orderLock'[i] = Trader
    BY <1>10, <2>8, ReleaseOther, ClientsOther DEF DelCancel, Rows
  <2>9. ASSUME NEW d \in Clients, req'[d].pc = "del_owner"
        PROVE  req'[d].oid \in Rows' /\ orderLock'[req'[d].oid] = d
    <3>1. d # c /\ req'[d] = req[d]
      BY <1>10, <2>9 DEF DelCancel, Answer, NoReq, TypeOK
    <3>2. req[d].oid \in Rows /\ orderLock[req[d].oid] = d
      BY <2>9, <3>1 DEF TradeSafety, LockInv
    <3> QED
      BY <1>10, <2>6, <3>1, <3>2, ReleaseOther DEF DelCancel, Rows
  <2> HIDE DEF k
  <2>10. \A i \in OrderIds : i >= nextId' => orders'[i] = NoRow
    BY <1>10, <2>1, <2>5 DEF DelCancel, TradeSafety, RowsInv, Rows
  <2>11. \A i \in Rows' : orders'[i].trade # 0 => orders'[i].closed
    BY <2>4, <2>5, <2>6 DEF TradeSafety, RowsInv, Rows
  <2>12. \A i \in Rows : orders'[i].trade = orders[i].trade
         /\ (orderLock[i] = Trader => orders'[i] = orders[i])
    BY <2>4, <2>5, <2>7 DEF Rows
  <2> QED
    BY <1>10, <2>6, <2>8, <2>9, <2>10, <2>11, <2>12 DEF DelCancel, RowsKept
<1> QED
  BY <1>1, <1>2, <1>3, <1>4, <1>5, <1>6, <1>7, <1>8, <1>9, <1>10 DEF Request

LEMMA RequestSafe ==
    ASSUME TypeOK, TradeSafety, RowsKept, UNCHANGED tr
    PROVE  TradeSafety'
<1>1. tr.pc \in TryPcs => Traded \cup tr.todo \subseteq Rows
  BY DEF TradeSafety, RowsInv, Traded
<1>2. Traded' = Traded
  BY DEF Traded
<1>3. Rows \subseteq Rows'
  BY DEF RowsKept
<1>4. RowsInv'
  <2>1. tr'.pc = "highest" => tr'.low \in Rows'
    BY <1>3 DEF TradeSafety, RowsInv
  <2>2. tr'.pc \in TryPcs => tr'.cand \in Rows' /\ tr'.todo \cup tr'.targets \subseteq Rows'
    BY <1>3 DEF TradeSafety, RowsInv
  <2>3. tr'.pc \in {"target_user", "target_reserve"} => tr'.to \in Rows'
    BY <1>3 DEF TradeSafety, RowsInv
  <2> QED
    BY <2>1, <2>2, <2>3 DEF RowsInv, RowsKept
<1>5. \A i \in Rows : Held(i) => Held(i)'
  BY DEF Held, RowsKept
<1>6. LockInv'
  <2>1. tr.pc = "cand_user" => orderLock'[tr.cand] = Trader
    BY <1>1 DEF TradeSafety, LockInv, RowsInv, RowsKept, TryPcs, TraderPcs
  <2>2. tr.inTx /\ tr.pc \notin {"cand", "cand_user"} =>
          \A i \in Traded \cup tr.todo : Held(i)'
    BY <1>1, <1>5 DEF TradeSafety, LockInv
  <2>3. tr.inTx /\ tr.pc \in {"target_user", "target_reserve"} => Held(tr.to)'
    BY <1>5 DEF TradeSafety, LockInv, RowsInv, Held
  <2>4. \A c \in Clients : req'[c].pc = "del_owner" =>
                             req'[c].oid \in Rows' /\ orderLock'[req'[c].oid] = c
    BY DEF RowsKept
  <2>5. tr.inTx /\ tr.pc \notin {"cand", "cand_user"} =>
          \A i \in Traded \cup tr.todo : orderLock'[i] = Trader /\ ~orders'[i].closed
    BY <2>2 DEF Held
  <2>6. tr.inTx /\ tr.pc \in {"target_user", "target_reserve"} =>
          orderLock'[tr.to] = Trader /\ ~orders'[tr.to].closed
    BY <2>3 DEF Held
  <2> QED
    BY <1>2, <2>1, <2>4, <2>5, <2>6 DEF TradeSafety, LockInv, Held
<1>7. TradeInv'
  <2>1. \A pc \in {"reserve", "scan", "target", "target_user", "target_reserve", "insert",
                   "update"} : pc \in TryPcs
    BY DEF TryPcs, TraderPcs
  <2>2. \A i \in Rows : orders[i].trade = 0 => orders'[i].trade = 0
    BY DEF RowsKept
  <2>3. tr.pc \in {"target_user", "target_reserve"} => tr.to \in Rows
    BY DEF TradeSafety, RowsInv
  <2> QED
    BY <1>1, <1>2, <2>1, <2>2, <2>3 DEF TradeSafety, TradeInv
<1> QED
  BY <1>4, <1>6, <1>7 DEF TradeSafety

\* A step of the trader that leaves the orders alone, takes no lock somebody
\* else has, and no request moves.
LocksKept ==
    /\ UNCHANGED <<orders, nextId, req>>
    /\ \A i \in OrderIds : orderLock[i] \notin {Free, Trader} => orderLock'[i] = orderLock[i]

LEMMA QuietRows ==
    ASSUME TypeOK, TradeSafety, LocksKept
    PROVE  /\ Rows' = Rows
           /\ \A i \in OrderIds : i >= nextId' => orders'[i] = NoRow
           /\ \A i \in Rows' : orders'[i].trade # 0 => orders'[i].closed
           /\ \A c \in Clients : req'[c].pc = "del_owner" =>
                                    req'[c].oid \in Rows' /\ orderLock'[req'[c].oid] = c
<1>1. Rows' = Rows
  BY DEF LocksKept, Rows
<1>2. ASSUME NEW c \in Clients, req[c].pc = "del_owner"
      PROVE  req[c].oid \in Rows /\ orderLock'[req[c].oid] = c
  <2>1. req[c].oid \in Rows /\ orderLock[req[c].oid] = c
    BY <1>2 DEF TradeSafety, LockInv
  <2> QED
    BY <2>1, ClientsOther DEF LocksKept, Rows
<1> QED
  BY <1>1, <1>2 DEF LocksKept, TradeSafety, RowsInv

\* The trader gives its locks back, and takes one nobody else has.
LEMMA TraderLocks ==
    ASSUME TypeOK, UNCHANGED <<orders, nextId, req>>,
           \/ UNCHANGED orderLock
           \/ Release(Trader)
           \/ \E i \in OrderIds : LockOrder(Trader, i) /\ orderLock[i] \in {Free, Trader}
    PROVE  LocksKept
BY DEF LocksKept, Release, Unlock, LockOrder, TypeOK

\* Out of tryTrade nothing is held and nothing is promised.
LEMMA LeaveSafe ==
    ASSUME TypeOK, TradeSafety, LocksKept, NEW pc \in {"off", "lowest", "next", "down"},
           tr' = At(pc)
    PROVE  TradeSafety'
<1>1. tr'.pc = pc /\ tr'.inTx = FALSE
  BY DEF At
<1>2. pc \notin TryPcs
  BY DEF TryPcs
<1>3. RowsInv'
  BY <1>1, <1>2, QuietRows DEF RowsInv
<1>4. LockInv'
  BY <1>1, <1>2, QuietRows DEF LockInv
<1>5. TradeInv'
  BY <1>1, <1>2 DEF TradeInv
<1> QED
  BY <1>3, <1>4, <1>5 DEF TradeSafety

\* The part of TradeSafety that speaks of the trader.
TraderSafe ==
    /\ tr.pc = "highest" => tr.low \in Rows
    /\ tr.pc \in TryPcs => tr.cand \in Rows /\ tr.todo \subseteq Rows /\ tr.targets \subseteq Rows
    /\ tr.pc \in {"target_user", "target_reserve"} => tr.to \in Rows
    /\ tr.inTx => tr.pc \in TryPcs
    /\ tr.pc \in {"cand", "cand_user", "reserve", "scan"} =>
         tr.inTx /\ tr.targets = {} /\ tr.todo = {}
    /\ tr.pc = "cand_user" => orderLock[tr.cand] = Trader
    /\ tr.inTx /\ tr.pc \notin {"cand", "cand_user"} =>
         /\ Held(tr.cand)
         /\ \A i \in tr.targets : Held(i)
         /\ \A i \in tr.todo : Held(i)
    /\ tr.inTx /\ tr.pc \in {"target_user", "target_reserve"} => Held(tr.to)
    /\ tr.pc \in {"reserve", "scan", "target", "target_user", "target_reserve", "insert",
                  "update"} =>
         orders[tr.cand].trade = 0 /\ \A i \in tr.targets : orders[i].trade = 0
    /\ (tr.pc = "target_user" /\ tr.fresh) \/ tr.pc = "target_reserve" =>
         orders[tr.to].trade = 0

LEMMA TraderPart == TradeSafety => TraderSafe
BY DEF TradeSafety, RowsInv, LockInv, TradeInv, TraderSafe, Traded

LEMMA QuietStep ==
    ASSUME TypeOK, TradeSafety, LocksKept, TraderSafe'
    PROVE  TradeSafety'
<1>1. RowsInv'
  BY QuietRows DEF RowsInv, TraderSafe
<1>2. LockInv'
  BY QuietRows DEF LockInv, TraderSafe, Traded
<1>3. TradeInv'
  BY DEF TradeInv, TraderSafe, Traded
<1> QED
  BY <1>1, <1>2, <1>3 DEF TradeSafety

LEMMA RunTradeSafe ==
    ASSUME TypeOK, TradeSafety,
           ReadLowest \/ ReadHighest \/ NextCandidate \/ Return \/ FinishRun
    PROVE  TradeSafety'
<1> USE DEF TraderUnchanged, dbVars, lockVars
<1>1. CASE ReadLowest
  <2>0. LocksKept
    BY <1>1, TraderLocks DEF ReadLowest
  <2>1. CASE tr' = At("next")
    BY <2>0, <2>1, LeaveSafe
  <2>2. CASE \E i \in Top("sell") : tr' = [At("highest") EXCEPT !.low = i]
    <3>1. PICK i \in Top("sell") : tr' = [At("highest") EXCEPT !.low = i]
      BY <2>2
    <3>2. i \in Rows'
      BY <2>0, QuietRows DEF Top, Open
    <3>3. tr'.pc = "highest" /\ tr'.low = i /\ tr'.inTx = FALSE
      BY <3>1 DEF At
    <3>4. TraderSafe'
      BY <3>2, <3>3 DEF TraderSafe, TryPcs
    <3> QED
      BY <2>0, <3>4, QuietStep
  <2> QED
    BY <1>1, <2>1, <2>2 DEF ReadLowest
<1>2. CASE ReadHighest
  BY <1>2, TraderLocks, LeaveSafe DEF ReadHighest
<1>3. CASE NextCandidate
  <2>0. LocksKept
    BY <1>3, TraderLocks DEF NextCandidate
  <2>1. Head(stack) \in Frame
    BY <1>3 DEF NextCandidate, TypeOK
  <2>2. Head(Head(stack).left) \in Rows
    BY <1>3, <2>1 DEF NextCandidate, Frame
  <2>3. /\ tr'.pc = "cand" /\ tr'.cand = Head(Head(stack).left) /\ tr'.inTx = TRUE
        /\ tr'.todo = {} /\ tr'.targets = {}
    BY <1>3 DEF NextCandidate, At
  <2>4. Rows' = Rows
    BY <2>0, QuietRows
  <2>5. TraderSafe'
    BY <2>2, <2>3, <2>4 DEF TraderSafe, TryPcs, TraderPcs
  <2> QED
    BY <2>0, <2>5, QuietStep
<1>4. CASE Return
  <2>0. LocksKept
    BY <1>4, TraderLocks DEF Return
  <2>1. TraderSafe'
    BY <1>4, TraderPart DEF Return, TraderSafe, Rows, Held
  <2> QED
    BY <2>0, <2>1, QuietStep
<1>5. CASE FinishRun
  BY <1>5, TraderLocks, LeaveSafe DEF FinishRun
<1> QED
  BY <1>1, <1>2, <1>3, <1>4, <1>5

LEMMA UndoSafe ==
    ASSUME TypeOK, TradeSafety,
           \/ CandidateClosed \/ ReserveCandidateFails \/ CancelReserves \/ CancelAndThrow
           \/ VictimCandidate \/ VictimScan \/ VictimTarget
    PROVE  TradeSafety'
<1> USE DEF TraderUnchanged, dbVars, lockVars
<1>1. CASE CandidateClosed \/ ReserveCandidateFails \/ CancelReserves \/ CancelAndThrow
             \/ VictimCandidate
  <2>1. Release(Trader) /\ tr' = At("next") /\ UNCHANGED <<orders, nextId, req>>
    BY <1>1 DEF CandidateClosed, ReserveCandidateFails, CancelReserves, CancelAndThrow,
       VictimCandidate, GiveUp, Throw
  <2> QED
    BY <2>1, TraderLocks, LeaveSafe
<1>2. CASE VictimScan
  <2>0. LocksKept
    BY <1>2, TraderLocks DEF VictimScan
  <2>1. /\ tr.pc = "scan" /\ tr'.pc = "cancel_throw" /\ tr'.inTx = FALSE
        /\ tr'.cand = tr.cand /\ tr'.todo = tr.todo /\ tr'.targets = tr.targets
    BY <1>2 DEF VictimScan, TypeOK, TraderType
  <2>2. Rows' = Rows
    BY <2>0, QuietRows
  <2>3. TraderSafe'
    BY <2>1, <2>2, TraderPart DEF TraderSafe, TryPcs, TraderPcs
  <2> QED
    BY <2>0, <2>3, QuietStep
<1>3. CASE VictimTarget
  <2>0. LocksKept
    BY <1>3, TraderLocks DEF VictimTarget
  <2>1. /\ tr.pc = "target_user" /\ tr'.pc = "target" /\ tr'.inTx = FALSE
        /\ tr'.cand = tr.cand /\ tr'.todo = tr.todo /\ tr'.targets = tr.targets
    BY <1>3 DEF VictimTarget, TypeOK, TraderType
  <2>2. Rows' = Rows /\ orders' = orders
    BY <1>3, <2>0, QuietRows DEF VictimTarget
  <2>3. TraderSafe'
    BY <2>1, <2>2, TraderPart DEF TraderSafe, TryPcs, TraderPcs
  <2> QED
    BY <2>0, <2>3, QuietStep
<1> QED
  BY <1>1, <1>2, <1>3

LEMMA ReadSafe ==
    ASSUME TypeOK, TradeSafety,
           \/ LockCandidate \/ LockCandidateUser \/ ReserveCandidate \/ ScanRow
           \/ SelectTargets \/ ReadTarget
    PROVE  TradeSafety'
<1> USE DEF TraderUnchanged, dbVars, lockVars
<1>1. CASE LockCandidate
  <2>1. tr.cand \in Rows /\ tr.inTx /\ tr.targets = {} /\ tr.todo = {}
    BY <1>1, TraderPart DEF LockCandidate, TraderSafe, TryPcs, TraderPcs
  <2>2. orderLock[tr.cand] \in {Free, Trader}
    BY <1>1, NotHeld DEF LockCandidate, Blockers, TraderBlockers
  <2>3. tr.cand \in OrderIds
    BY <2>1 DEF Rows
  <2>4. LocksKept
    BY <1>1, <2>2, <2>3, TraderLocks DEF LockCandidate
  <2>5. /\ tr'.pc = "cand_user" /\ tr'.cand = tr.cand /\ tr'.inTx = tr.inTx
        /\ tr'.todo = tr.todo /\ tr'.targets = tr.targets
    BY <1>1 DEF LockCandidate, Goto, TypeOK, TraderType
  <2>6. orderLock'[tr.cand] = Trader
    BY <1>1, <2>3 DEF LockCandidate, LockOrder, TypeOK
  <2>7. Rows' = Rows
    BY <2>4, QuietRows
  <2>8. TraderSafe'
    BY <2>1, <2>5, <2>6, <2>7 DEF TraderSafe, TryPcs, TraderPcs
  <2> QED
    BY <2>4, <2>8, QuietStep
<1>2. CASE LockCandidateUser
  <2>1. tr.cand \in Rows /\ tr.inTx /\ tr.targets = {} /\ tr.todo = {} /\ orderLock[tr.cand] = Trader
    BY <1>2, TraderPart DEF LockCandidateUser, TraderSafe, TryPcs, TraderPcs
  <2>2. orders[tr.cand].trade = 0 /\ ~orders[tr.cand].closed
    <3>1. ~orders[tr.cand].closed
      BY <1>2 DEF LockCandidateUser
    <3> QED
      BY <2>1, <3>1 DEF TradeSafety, RowsInv
  <2>3. LocksKept
    BY <1>2, TraderLocks DEF LockCandidateUser
  <2>4. /\ tr'.pc = "reserve" /\ tr'.cand = tr.cand /\ tr'.inTx = tr.inTx
        /\ tr'.todo = tr.todo /\ tr'.targets = tr.targets
    BY <1>2 DEF LockCandidateUser, Goto, TypeOK, TraderType
  <2>5. Rows' = Rows /\ orders' = orders /\ orderLock' = orderLock
    BY <1>2, <2>3, QuietRows DEF LockCandidateUser
  <2>6. TraderSafe'
    BY <2>1, <2>2, <2>4, <2>5 DEF TraderSafe, TryPcs, TraderPcs, Held
  <2> QED
    BY <2>3, <2>6, QuietStep
<1>3. CASE ReserveCandidate
  <2>1. LocksKept
    BY <1>3, TraderLocks DEF ReserveCandidate
  <2>2. /\ tr.pc = "reserve" /\ tr'.pc = "scan" /\ tr'.cand = tr.cand /\ tr'.inTx = tr.inTx
        /\ tr'.todo = tr.todo /\ tr'.targets = tr.targets
    BY <1>3 DEF ReserveCandidate, TypeOK, TraderType
  <2>3. Rows' = Rows /\ orders' = orders /\ orderLock' = orderLock
    BY <1>3, <2>1, QuietRows DEF ReserveCandidate
  <2>4. TraderSafe'
    BY <2>2, <2>3, TraderPart DEF TraderSafe, TryPcs, TraderPcs, Held
  <2> QED
    BY <2>1, <2>4, QuietStep
<1>4. CASE ScanRow
  <2>1. PICK i \in Lowest(Unscanned) : LockOrder(Trader, i)
    BY <1>4 DEF ScanRow
  <2>2. i \in OrderIds
    BY DEF Lowest, Unscanned, Open, Rows
  <2>3. HeldBy(orderLock[i], Trader) = {}
    BY <1>4 DEF ScanRow, Blockers, TraderBlockers
  <2>4. orderLock[i] \in {Free, Trader}
    BY <2>3, NotHeld
  <2>5. LocksKept
    BY <1>4, <2>1, <2>2, <2>4, TraderLocks DEF ScanRow
  <2>6. Rows' = Rows /\ orders' = orders /\ tr' = tr
    BY <1>4, <2>5, QuietRows DEF ScanRow
  <2>7. \A k \in Rows : orderLock[k] = Trader => orderLock'[k] = Trader
    BY <2>1 DEF LockOrder, TypeOK, Rows
  <2>8. tr.pc = "scan" /\ tr.cand \in Rows /\ tr.targets = {} /\ tr.todo = {} /\ Held(tr.cand)
        /\ tr.inTx
    BY <1>4, TraderPart DEF ScanRow, TraderSafe, TryPcs, TraderPcs
  <2>9. TraderSafe'
    BY <2>6, <2>7, <2>8, TraderPart DEF TraderSafe, Held
  <2> QED
    BY <2>5, <2>9, QuietStep
<1>5. CASE SelectTargets
  <2>1. LocksKept
    BY <1>5, TraderLocks DEF SelectTargets
  <2>2. /\ tr.pc = "scan" /\ tr'.pc = "target" /\ tr'.cand = tr.cand /\ tr'.inTx = tr.inTx
        /\ tr'.todo = Targets(tr.cand) /\ tr'.targets = tr.targets
    BY <1>5 DEF SelectTargets, TypeOK, TraderType
  <2>3. Rows' = Rows /\ orders' = orders /\ orderLock' = orderLock
    BY <1>5, <2>1, QuietRows DEF SelectTargets
  <2>4. \A i \in Targets(tr.cand) : i \in Open(Other(orders[tr.cand].type))
    BY DEF Targets
  <2>5. \A i \in Open(Other(orders[tr.cand].type)) : i \in Rows /\ Held(i)
    BY <1>5 DEF SelectTargets, Unscanned, Open, Held
  <2>6. tr.cand \in Rows /\ tr.targets = {} /\ Held(tr.cand) /\ orders[tr.cand].trade = 0
    BY <2>2, TraderPart DEF TraderSafe, TryPcs, TraderPcs
  <2>7. TraderSafe'
    BY <2>2, <2>3, <2>4, <2>5, <2>6 DEF TraderSafe, TryPcs, TraderPcs, Held
  <2> QED
    BY <2>1, <2>7, QuietStep
<1>6. CASE ReadTarget
  <2>1. LocksKept
    BY <1>6, TraderLocks DEF ReadTarget
  <2>2. PICK i \in First(tr.todo) :
          tr' = [tr EXCEPT !.pc = "target_user", !.to = i, !.todo = @ \ {i},
                           !.fresh = ~orders[i].closed]
    BY <1>6 DEF ReadTarget
  <2>3. /\ tr.pc = "target" /\ tr'.pc = "target_user" /\ tr'.cand = tr.cand /\ tr'.inTx = tr.inTx
        /\ tr'.todo = tr.todo \ {i} /\ tr'.targets = tr.targets /\ tr'.to = i
        /\ tr'.fresh = ~orders[i].closed
    BY <1>6, <2>2 DEF ReadTarget, TypeOK, TraderType
  <2>4. i \in tr.todo
    BY DEF First
  <2>5. Rows' = Rows /\ orders' = orders /\ orderLock' = orderLock
    BY <1>6, <2>1, QuietRows DEF ReadTarget
  <2>6. i \in Rows /\ (tr.inTx => Held(i))
    BY <2>3, <2>4, TraderPart DEF TraderSafe, TryPcs, TraderPcs
  <2>7. ~orders[i].closed => orders[i].trade = 0
    BY <2>6 DEF TradeSafety, RowsInv
  <2>8. TraderSafe'
    BY <2>3, <2>5, <2>6, <2>7, TraderPart DEF TraderSafe, TryPcs, TraderPcs, Held
  <2> QED
    BY <2>1, <2>8, QuietStep
<1> QED
  BY <1>1, <1>2, <1>3, <1>4, <1>5, <1>6

\* The rows of a trade are closed and get its id in one statement.
LEMMA CloseSafe ==
    ASSUME TypeOK, TradeSafety, NEW id \in Nat, orders' = Closed(id), Traded \subseteq Rows,
           UNCHANGED <<nextId, req>>, UNCHANGED orderLock \/ Release(Trader), TraderSafe'
    PROVE  TradeSafety'
<1>1. \A i \in Rows : i \in OrderIds /\ orders[i] \in Row
  BY DEF TypeOK, Rows
<1>2. Rows' = Rows
  BY ClosedType DEF Rows
<1>3. \A i \in Rows \ Traded : orders'[i] = orders[i]
  BY <1>1 DEF Closed
<1>4. \A i \in Traded : orders'[i].closed
  <2>1. ASSUME NEW i \in Traded PROVE [orders[i] EXCEPT !.closed = TRUE, !.trade = id].closed
    BY <1>1 DEF Row
  <2> QED
    BY <1>1, <2>1 DEF Closed
<1>5. \A i \in OrderIds : i >= nextId' => orders'[i] = NoRow
  BY ClosedType DEF TradeSafety, RowsInv, Rows
<1>6. ASSUME NEW c \in Clients, req[c].pc = "del_owner"
      PROVE  req[c].oid \in Rows /\ orderLock'[req[c].oid] = c
  <2>1. req[c].oid \in Rows /\ orderLock[req[c].oid] = c
    BY <1>6 DEF TradeSafety, LockInv
  <2> QED
    BY <1>1, <2>1, ClientsOther, ReleaseOther
<1>7. RowsInv'
  BY <1>2, <1>3, <1>4, <1>5 DEF RowsInv, TraderSafe, TradeSafety
<1>8. LockInv'
  BY <1>2, <1>6 DEF LockInv, TraderSafe, Traded
<1>9. TradeInv'
  BY DEF TradeInv, TraderSafe, Traded
<1> QED
  BY <1>7, <1>8, <1>9 DEF TradeSafety

\* tryTrade only moves on to another statement.
LEMMA GotoKeeps ==
    ASSUME TypeOK, NEW pc, Goto(pc)
    PROVE  /\ tr'.pc = pc /\ tr'.cand = tr.cand /\ tr'.inTx = tr.inTx /\ tr'.todo = tr.todo
           /\ tr'.targets = tr.targets /\ tr'.to = tr.to /\ tr'.fresh = tr.fresh
BY DEF Goto, TypeOK, TraderType

LEMMA SettleSafe ==
    ASSUME TypeOK, TradeSafety,
           \/ LockTargetUser \/ ReserveTarget \/ ReserveTargetFails \/ NoOrderForTrade
           \/ InsertTrade \/ UpdateLocksRow \/ UpdateOrders \/ CommitAtBank \/ CommitTrade
    PROVE  TradeSafety'
<1> USE DEF TraderUnchanged, dbVars, lockVars
<1>1. CASE LockTargetUser
  <2>1. LocksKept
    BY <1>1, TraderLocks DEF LockTargetUser
  <2>2. Rows' = Rows /\ orders' = orders /\ orderLock' = orderLock
    BY <1>1, <2>1, QuietRows DEF LockTargetUser
  <2>3. tr.pc = "target_user" /\ Goto(IF Usable(tr.to) THEN "target_reserve" ELSE "target")
    BY <1>1 DEF LockTargetUser
  <2>4. TraderSafe'
    <3>1. CASE Usable(tr.to)
      <4>1. tr'.pc = "target_reserve" /\ tr.fresh
        BY <2>3, <3>1, GotoKeeps DEF Usable
      <4>2. orders[tr.to].trade = 0
        BY <2>3, <4>1 DEF TradeSafety, TradeInv
      <4> QED
        BY <2>2, <2>3, <4>1, <4>2, GotoKeeps, TraderPart
           DEF TraderSafe, TryPcs, TraderPcs, Held
    <3>2. CASE ~Usable(tr.to)
      <4>1. tr'.pc = "target"
        BY <2>3, <3>2, GotoKeeps
      <4> QED
        BY <2>2, <2>3, <4>1, GotoKeeps, TraderPart DEF TraderSafe, TryPcs, TraderPcs, Held
    <3> QED
      BY <3>1, <3>2
  <2> QED
    BY <2>1, <2>4, QuietStep
<1>2. CASE ReserveTarget
  <2>1. LocksKept
    BY <1>2, TraderLocks DEF ReserveTarget
  <2>2. Rows' = Rows /\ orders' = orders /\ orderLock' = orderLock
    BY <1>2, <2>1, QuietRows DEF ReserveTarget
  <2>3. /\ tr.pc = "target_reserve" /\ tr'.pc \in {"insert", "target"}
        /\ tr'.cand = tr.cand /\ tr'.inTx = tr.inTx
        /\ tr'.todo = tr.todo /\ tr'.targets = tr.targets \cup {tr.to}
    BY <1>2 DEF ReserveTarget, TypeOK, TraderType
  <2>4. TraderSafe'
    BY <2>2, <2>3, TraderPart DEF TraderSafe, TryPcs, TraderPcs, Held
  <2> QED
    BY <2>1, <2>4, QuietStep
<1>3. CASE ReserveTargetFails
  <2>1. LocksKept
    BY <1>3, TraderLocks DEF ReserveTargetFails
  <2>2. Rows' = Rows /\ orders' = orders /\ orderLock' = orderLock
    BY <1>3, <2>1, QuietRows DEF ReserveTargetFails
  <2>3. tr.pc = "target_reserve" /\ Goto("target")
    BY <1>3 DEF ReserveTargetFails
  <2>4. TraderSafe'
    BY <2>2, <2>3, GotoKeeps, TraderPart DEF TraderSafe, TryPcs, TraderPcs, Held
  <2> QED
    BY <2>1, <2>4, QuietStep
<1>4. CASE NoOrderForTrade
  <2>1. LocksKept
    BY <1>4, TraderLocks DEF NoOrderForTrade
  <2>2. Rows' = Rows /\ orders' = orders /\ orderLock' = orderLock
    BY <1>4, <2>1, QuietRows DEF NoOrderForTrade
  <2>3. /\ tr.pc = "target" /\ tr'.pc \in {"cancel", "insert"}
        /\ tr'.cand = tr.cand /\ tr'.inTx = tr.inTx
        /\ tr'.todo = tr.todo /\ tr'.targets = tr.targets
    BY <1>4, GotoKeeps DEF NoOrderForTrade
  <2>4. TraderSafe'
    BY <2>2, <2>3, TraderPart DEF TraderSafe, TryPcs, TraderPcs, Held
  <2> QED
    BY <2>1, <2>4, QuietStep
<1>5. CASE InsertTrade \/ CommitAtBank
  <2>1. LocksKept
    BY <1>5, TraderLocks DEF InsertTrade, CommitAtBank
  <2>2. Rows' = Rows /\ orders' = orders /\ orderLock' = orderLock
    BY <1>5, <2>1, QuietRows DEF InsertTrade, CommitAtBank
  <2>3. \/ tr.pc = "insert" /\ Goto("update")
        \/ tr.pc = "bank" /\ Goto("commit")
    BY <1>5 DEF InsertTrade, CommitAtBank
  <2>4. TraderSafe'
    BY <2>2, <2>3, GotoKeeps, TraderPart DEF TraderSafe, TryPcs, TraderPcs, Held
  <2> QED
    BY <2>1, <2>4, QuietStep
<1>6. CASE UpdateOrders
  <2>1. tr.pc = "update" /\ Goto("bank") /\ UNCHANGED <<nextId, req>>
    BY <1>6 DEF UpdateOrders
  <2>2. Traded \subseteq Rows
    BY <2>1, TradedRows DEF TradeSafety, TryPcs, TraderPcs
  <2>3. CASE tr.inTx
    <3>1. orders' = orders /\ orderLock' = orderLock
      BY <1>6, <2>3 DEF UpdateOrders
    <3>2. LocksKept
      BY <2>1, <3>1, TraderLocks
    <3>3. Rows' = Rows
      BY <3>2, QuietRows
    <3>4. TraderSafe'
      BY <2>1, <3>1, <3>3, GotoKeeps, TraderPart DEF TraderSafe, TryPcs, TraderPcs, Held
    <3> QED
      BY <3>2, <3>4, QuietStep
  <2>4. CASE ~tr.inTx
    <3>1. orders' = Closed(Len(trades)) /\ Len(trades) \in Nat /\ Release(Trader)
      BY <1>6, <2>4 DEF UpdateOrders, TypeOK
    <3>2. Rows' = Rows
      BY <2>2, <3>1, ClosedType DEF Rows
    <3>3. TraderSafe'
      BY <2>1, <2>4, <3>2, GotoKeeps, TraderPart DEF TraderSafe, TryPcs, TraderPcs
    <3> QED
      BY <2>1, <2>2, <3>1, <3>3, CloseSafe
  <2> QED
    BY <2>3, <2>4
<1>7. CASE CommitTrade
  <2>1. tr.pc = "commit" /\ tr' = At("lowest") /\ Release(Trader) /\ UNCHANGED <<nextId, req>>
    BY <1>7 DEF CommitTrade
  <2>2. CASE tr.inTx
    <3>1. orders' = Closed(Len(trades) + 1) /\ Len(trades) + 1 \in Nat
      BY <1>7, <2>2 DEF CommitTrade, TypeOK
    <3>2. Traded \subseteq Rows
      BY <2>1, TradedRows DEF TradeSafety, TryPcs, TraderPcs
    <3>3. TraderSafe'
      BY <2>1 DEF TraderSafe, At, TryPcs
    <3> QED
      BY <2>1, <3>1, <3>2, <3>3, CloseSafe
  <2>3. CASE ~tr.inTx
    BY <1>7, <2>1, <2>3, TraderLocks, LeaveSafe DEF CommitTrade
  <2> QED
    BY <2>2, <2>3
<1>8. CASE UpdateLocksRow
  <2>1. PICK i \in Lowest(Unwritten) : LockOrder(Trader, i)
    BY <1>8 DEF UpdateLocksRow
  <2>2. i \in Traded /\ tr.pc = "update"
    BY <1>8 DEF Lowest, Unwritten, UpdateLocksRow
  <2>3. i \in OrderIds
    BY <2>2, TradedRows DEF TradeSafety, TryPcs, TraderPcs, Rows
  <2>4. HeldBy(orderLock[i], Trader) = {}
    BY <1>8 DEF UpdateLocksRow, Blockers, TraderBlockers
  <2>5. orderLock[i] \in {Free, Trader}
    BY <2>4, NotHeld
  <2>6. LocksKept
    BY <1>8, <2>1, <2>3, <2>5, TraderLocks DEF UpdateLocksRow
  <2>7. Rows' = Rows /\ orders' = orders /\ tr' = tr
    BY <1>8, <2>6, QuietRows DEF UpdateLocksRow
  <2>8. \A k \in OrderIds : Held(k) => Held(k)'
    BY <2>1, <2>7 DEF LockOrder, TypeOK, Held
  <2>9. \A k \in Traded \cup tr.todo : k \in OrderIds
    BY <2>2, TraderPart DEF TraderSafe, Traded, TryPcs, TraderPcs, Rows
  <2>10. TraderSafe'
    BY <2>2, <2>7, <2>8, <2>9, TraderPart DEF TraderSafe, Traded
  <2> QED
    BY <2>6, <2>10, QuietStep
<1> QED
  BY <1>1, <1>2, <1>3, <1>4, <1>5, <1>6, <1>7, <1>8

LEMMA ExitSafe ==
    ASSUME TypeOK, TradeSafety, Exit
    PROVE  TradeSafety'
<1>1. UNCHANGED <<orders, nextId>> /\ Rows' = Rows
  BY DEF Exit, dbVars, Rows
<1>2. \A c \in Clients : req'[c].pc # "del_owner"
  BY DEF Exit, NoReq
<1>3. tr'.pc = "down" /\ tr'.inTx = FALSE /\ "down" \notin TryPcs
  BY DEF Exit, At, TryPcs
<1>4. RowsInv'
  BY <1>1, <1>3 DEF TradeSafety, RowsInv
<1>5. LockInv'
  BY <1>2, <1>3 DEF LockInv
<1>6. TradeInv'
  BY <1>3 DEF TradeInv
<1> QED
  BY <1>4, <1>5, <1>6 DEF TradeSafety

\* Nothing TradeSafety speaks of has moved.
LEMMA StillSafe ==
    ASSUME TypeOK, TradeSafety, UNCHANGED <<orders, nextId, orderLock, req, tr>>
    PROVE  TradeSafety'
<1>1. LocksKept
  BY DEF LocksKept
<1>2. Rows' = Rows
  BY <1>1, QuietRows
<1>3. TraderSafe'
  BY <1>2, TraderPart DEF TraderSafe, Held
<1> QED
  BY <1>1, <1>3, QuietStep

LEMMA EnvironmentSafe ==
    ASSUME TypeOK, TradeSafety, Environment
    PROVE  TradeSafety'
<1> USE DEF dbVars, lockVars, procVars
<1>1. CASE TimerFires
  <2>1. CASE tr' = At("lowest")
    BY <1>1, <2>1, TraderLocks, LeaveSafe DEF TimerFires
  <2>2. CASE tr' = tr
    BY <1>1, <2>2, StillSafe DEF TimerFires
  <2> QED
    BY <1>1, <2>1, <2>2 DEF TimerFires
<1>2. CASE CommitRefused \/ CommitLost \/ CancelFails \/ Crash
  BY <1>2, ExitSafe DEF CommitRefused, CommitLost, CancelFails, Crash
<1>3. CASE Restart
  BY <1>3, TraderLocks, LeaveSafe DEF Restart
<1>4. CASE Lapse
  BY <1>4, StillSafe DEF Lapse
<1> QED
  BY <1>1, <1>2, <1>3, <1>4 DEF Environment

LEMMA InitSafe == Init => TradeSafety
<1> SUFFICES ASSUME Init PROVE TradeSafety
  OBVIOUS
<1>1. \A i \in OrderIds : i >= nextId => orders[i] = NoRow
  BY DEF Init, OrderIds
<1>2. \A i \in Rows : orders[i].trade = 0
  BY DEF Init, Rows, NewRow
<1>3. tr.pc = "off" /\ tr.inTx = FALSE /\ "off" \notin TryPcs
  BY DEF Init, At, TryPcs
<1>4. \A c \in Clients : req[c].pc = "idle"
  BY DEF Init, NoReq
<1> QED
  BY <1>1, <1>2, <1>3, <1>4 DEF TradeSafety, RowsInv, LockInv, TradeInv

LEMMA StepSafe ==
    ASSUME TypeOK, TradeSafety, [Next]_vars
    PROVE  TradeSafety'
<1>1. CASE \E c \in Clients : Request(c)
  BY <1>1, RequestKeeps, RequestSafe
<1>2. CASE TraderStep
  BY <1>2, RunTradeSafe, ReadSafe, SettleSafe, UndoSafe, ExitSafe
     DEF TraderStep, VictimUpdate
<1>3. CASE Environment
  BY <1>3, EnvironmentSafe
<1>4. CASE UNCHANGED vars
  BY <1>4, StillSafe DEF vars, dbVars, lockVars, procVars
<1> QED
  BY <1>1, <1>2, <1>3, <1>4 DEF Next

\* A step of any kind leaves a traded row as it is.
RowsFinal == \A i \in OrderIds : orders[i] # NoRow /\ orders[i].trade # 0
                                    => orders'[i] = orders[i]

LEMMA RequestFinal ==
    ASSUME TypeOK, TradeSafety, NEW c \in Clients, Request(c)
    PROVE  RowsFinal
<1>1. CASE AddInsert(c)
  <2>1. orders[nextId] = NoRow /\ nextId \in OrderIds
    BY <1>1 DEF AddInsert, TradeSafety, RowsInv, OrderIds
  <2> QED
    BY <1>1, <2>1 DEF AddInsert, RowsFinal, TypeOK
<1>2. CASE DelCancel(c)
  <2> DEFINE k == req[c].oid
  <2>1. k \in Rows /\ ~orders[k].closed
    BY <1>2 DEF DelCancel, MayCancel, TradeSafety, LockInv
  <2>2. orders[k].trade = 0
    BY <2>1 DEF TradeSafety, RowsInv
  <2>3. \A i \in OrderIds : i # k => orders'[i] = orders[i]
    BY <1>2 DEF DelCancel, TypeOK
  <2> QED
    BY <2>2, <2>3 DEF RowsFinal
<1>3. CASE ~AddInsert(c) /\ ~DelCancel(c)
  <2>1. UNCHANGED orders
    BY <1>3 DEF Request, PostOrder, RequestDelete, AddLockUser, AddCheckOk, AddCheckFails,
       AddRespond, DelLockUser, DelNoOrder, DelLockOrder, DelRefused, VictimRequest, dbVars
  <2> QED
    BY <2>1 DEF RowsFinal
<1> QED
  BY <1>1, <1>2, <1>3

LEMMA TraderFinal ==
    ASSUME TypeOK, TradeSafety, TraderStep
    PROVE  RowsFinal
<1>1. ASSUME NEW id, orders' = Closed(id), \A i \in Traded : orders[i].trade = 0
      PROVE  RowsFinal
  BY <1>1 DEF Closed, RowsFinal
<1>2. CASE UpdateOrders
  <2>1. \A i \in Traded : orders[i].trade = 0
    BY <1>2 DEF UpdateOrders, TradeSafety, TradeInv
  <2> QED
    BY <1>1, <1>2, <2>1 DEF UpdateOrders, RowsFinal
<1>3. CASE CommitTrade
  <2>1. CASE tr.inTx
    <3>1. \A i \in Traded : i \in Rows /\ ~orders[i].closed
      BY <1>3, <2>1, TradedRows
         DEF CommitTrade, TradeSafety, LockInv, Held, TryPcs, TraderPcs
    <3>2. \A i \in Traded : orders[i].trade = 0
      BY <3>1 DEF TradeSafety, RowsInv
    <3> QED
      BY <1>1, <1>3, <2>1, <3>2 DEF CommitTrade
  <2>2. CASE ~tr.inTx
    BY <1>3, <2>2 DEF CommitTrade, RowsFinal
  <2> QED
    BY <2>1, <2>2
<1>4. CASE ~UpdateOrders /\ ~CommitTrade
  <2>1. UNCHANGED orders
    BY <1>4 DEF TraderStep, ReadLowest, ReadHighest, NextCandidate, Return, FinishRun,
       LockCandidate, LockCandidateUser, CandidateClosed, ReserveCandidate,
       ReserveCandidateFails, ScanRow, SelectTargets, ReadTarget, LockTargetUser,
       ReserveTarget, ReserveTargetFails, NoOrderForTrade, InsertTrade, CommitAtBank,
       UpdateLocksRow, CancelReserves, CancelAndThrow, VictimCandidate, VictimScan,
       VictimTarget, VictimUpdate, Exit, dbVars
  <2> QED
    BY <2>1 DEF RowsFinal
<1> QED
  BY <1>2, <1>3, <1>4

LEMMA StepFinal ==
    ASSUME TypeOK, TradeSafety, [Next]_vars
    PROVE  RowsFinal
<1>1. CASE Environment \/ UNCHANGED vars
  <2>1. UNCHANGED orders
    BY <1>1 DEF Environment, TimerFires, CommitRefused, CommitLost, CancelFails, Crash,
       Exit, Restart, Lapse, vars, dbVars
  <2> QED
    BY <2>1 DEF RowsFinal
<1> QED
  BY <1>1, RequestFinal, TraderFinal DEF Next
-----------------------------------------------------------------------------
(* The theorems. *)

\* The tables, the locks, the locals of every handler and of the matching run,
\* and the bank's rows keep their shape through every interleaving and failure;
\* what the matching run is about to trade was traded by nobody else, and what
\* it holds in its transaction is open.
THEOREM ExchangeInvariant == Spec => [](TypeOK /\ TradeSafety)
<1>1. Init => TypeOK /\ TradeSafety
  BY InitType, InitSafe
<1>2. TypeOK /\ TradeSafety /\ [Next]_vars => (TypeOK /\ TradeSafety)'
  <2> SUFFICES ASSUME TypeOK, TradeSafety, [Next]_vars PROVE (TypeOK /\ TradeSafety)'
    OBVIOUS
  <2>1. RowsInv /\ LockInv
    BY DEF TradeSafety
  <2> QED
    BY <2>1, StepType, StepSafe
<1> QED
  BY <1>1, <1>2, PTL DEF Spec

\* The tables, the locks and every local keep their shape.
THEOREM ExchangeTypeOK == Spec => []TypeOK
BY ExchangeInvariant, PTL

\* A row is in at most one trade, and whoever cancels or trades one holds it:
\* the invariant of tryTrade, addOrder and deleteOrders together.
THEOREM ExchangeTradeSafety == Spec => []TradeSafety
BY ExchangeInvariant, PTL

\* From the reservation of the candidate to the COMMIT, no DELETE /order/:id and
\* no other statement closes an order tryTrade is about to trade.
THEOREM ExchangeOpenWhileInTransaction == Spec => []OpenWhileInTransaction
<1>1. TypeOK /\ TradeSafety => OpenWhileInTransaction
  <2> SUFFICES ASSUME TypeOK, TradeSafety, tr.inTx, tr.pc \notin {"cand", "cand_user"},
                      NEW i \in Traded
               PROVE  i \in Rows /\ orderLock[i] = Trader /\ ~orders[i].closed
    BY DEF OpenWhileInTransaction
  <2>1. tr.pc \in TryPcs /\ Held(i)
    BY DEF TradeSafety, LockInv
  <2> QED
    BY <2>1, TradedRows DEF Held, TradeSafety
<1> QED
  BY <1>1, ExchangeInvariant, PTL

\* A row whose trade_id is set never changes again: no order is traded twice,
\* cancelled after its trade, or moved to another trade -- whether the trade was
\* committed in its transaction or, after a swallowed deadlock, without one.
THEOREM ExchangeOneTradePerOrder == Spec => OneTradePerOrder
<1>1. TypeOK /\ TradeSafety /\ [Next]_vars
        => [\A i \in OrderIds : orders[i] # NoRow /\ orders[i].trade # 0
                                   => orders'[i] = orders[i]]_vars
  BY StepFinal DEF RowsFinal
<1> QED
  BY <1>1, ExchangeInvariant, PTL DEF Spec, OneTradePerOrder
=============================================================================
