--------------------------- MODULE PaymentProofs ---------------------------
(***************************************************************************)
(* The money and the chairs of Exchange, for every book, every deposit and *)
(* every set of faults: what tryTrade plans, what it reserves, what the    *)
(* tables record, and what the bank settles.  Each part is an invariant    *)
(* relative to the ones before it, and to ExchangeInvariant.               *)
(***************************************************************************)
EXTENDS ExchangeProofs, SumTheorems

-----------------------------------------------------------------------------
(* Sums of the two tables. *)

LEMMA OrdersFinite == \A S \in SUBSET OrderIds : IsFiniteSet(S)
<1>1. IsFiniteSet(OrderIds)
  BY ExchangeAssumption, FS_Interval DEF OrderIds
<1> QED
  BY <1>1, FS_Subset

\* The amounts of the orders, and of the entries, each as one function.
LEMMA AmountSum ==
    ASSUME NEW S \in SUBSET OrderIds
    PROVE  Amount(S) = SumFunctionOnSet([i \in OrderIds |-> orders[i].amount], S)
<1> DEFINE f == [i \in S |-> orders[i].amount]
           g == [i \in OrderIds |-> orders[i].amount]
<1>1. IsFiniteSet(S) /\ DOMAIN f = S
  BY OrdersFinite
<1>2. \A i \in S : f[i] = g[i]
  OBVIOUS
<1>3. Amount(S) = SumFunctionOnSet(f, S)
  BY <1>1 DEF Amount, SumFunction
<1> HIDE DEF f, g
<1>4. SumFunctionOnSet(f, S) = SumFunctionOnSet(g, S)
  BY <1>1, <1>2, SumSame
<1> QED
  BY <1>3, <1>4 DEF g

LEMMA RowAmount ==
    ASSUME TypeOK, NEW i \in Rows
    PROVE  /\ i \in OrderIds /\ orders[i] \in Row
           /\ orders[i].amount \in Nat \ {0} /\ orders[i].price \in Nat \ {0}
           /\ orders[i].type \in Types /\ orders[i].user \in Users
           /\ orders[i].closed \in BOOLEAN /\ orders[i].trade \in Nat
BY DEF TypeOK, Rows, Row

LEMMA AmountFacts ==
    ASSUME TypeOK, NEW S \in SUBSET Rows
    PROVE  /\ Amount(S) \in Int
           /\ Amount({}) = 0
           /\ \A i \in Rows \ S : Amount(S \cup {i}) = Amount(S) + orders[i].amount
           /\ \A i \in Rows : Amount({i}) = orders[i].amount
<1> DEFINE g == [i \in OrderIds |-> orders[i].amount]
<1>1. S \subseteq OrderIds /\ Rows \subseteq OrderIds /\ IsFiniteSet(S)
  BY OrdersFinite DEF Rows
<1>2. \A i \in Rows : g[i] = orders[i].amount /\ g[i] \in Int
  BY RowAmount
<1>3. \A T \in SUBSET OrderIds : Amount(T) = SumFunctionOnSet(g, T)
  BY AmountSum
<1> HIDE DEF g
<1>4. Amount(S) \in Int
  BY <1>1, <1>2, <1>3, SumInt
<1>5. Amount({}) = 0
  BY <1>3, SumEmpty
<1>6. ASSUME NEW i \in Rows \ S PROVE Amount(S \cup {i}) = Amount(S) + orders[i].amount
  <2>1. SumFunctionOnSet(g, S \cup {i}) = SumFunctionOnSet(g, S) + g[i]
    BY <1>1, <1>2, SumAdd
  <2> QED
    BY <1>1, <1>2, <1>3, <2>1
<1>7. ASSUME NEW i \in Rows PROVE Amount({i}) = orders[i].amount
  BY <1>1, <1>2, <1>3, SumSingle
<1> QED
  BY <1>4, <1>5, <1>6, <1>7

LEMMA TotalSum ==
    ASSUME NEW S \in SUBSET Bank!Entry, IsFiniteSet(S)
    PROVE  Bank!Total(S) = SumFunctionOnSet([e \in Bank!Entry |-> e.amount], S)
<1> DEFINE f == [e \in S |-> e.amount]
           g == [e \in Bank!Entry |-> e.amount]
<1>1. DOMAIN f = S /\ \A e \in S : f[e] = g[e]
  OBVIOUS
<1>2. Bank!Total(S) = SumFunctionOnSet(f, S)
  BY <1>1 DEF Bank!Total, Bank!SumFunction, Bank!SumFunctionOnSet, SumFunctionOnSet,
     Bank!FoldFunctionOnSet, FoldFunctionOnSet, Bank!MapThenFoldSet, MapThenFoldSet
<1> HIDE DEF f, g
<1>3. SumFunctionOnSet(f, S) = SumFunctionOnSet(g, S)
  BY <1>1, SumSame
<1> QED
  BY <1>2, <1>3 DEF g

LEMMA TotalFacts ==
    ASSUME NEW S \in SUBSET Bank!Entry, IsFiniteSet(S)
    PROVE  /\ Bank!Total(S) \in Int
           /\ Bank!Total({}) = 0
           /\ \A e \in Bank!Entry \ S : Bank!Total(S \cup {e}) = Bank!Total(S) + e.amount
           /\ \A T \in SUBSET Bank!Entry : IsFiniteSet(T) /\ S \cap T = {} =>
                Bank!Total(S \cup T) = Bank!Total(S) + Bank!Total(T)
<1> DEFINE g == [e \in Bank!Entry |-> e.amount]
<1>1. \A e \in Bank!Entry : g[e] = e.amount /\ g[e] \in Int
  BY DEF Bank!Entry
<1>2. \A T \in SUBSET Bank!Entry : IsFiniteSet(T) => Bank!Total(T) = SumFunctionOnSet(g, T)
  BY TotalSum
<1> HIDE DEF g
<1>3. Bank!Total(S) \in Int
  BY <1>1, <1>2, SumInt
<1>4. Bank!Total({}) = 0
  BY <1>2, FS_EmptySet, SumEmpty
<1>5. ASSUME NEW e \in Bank!Entry \ S PROVE Bank!Total(S \cup {e}) = Bank!Total(S) + e.amount
  <2>1. SumFunctionOnSet(g, S \cup {e}) = SumFunctionOnSet(g, S) + g[e]
    BY <1>1, SumAdd
  <2>2. S \cup {e} \in SUBSET Bank!Entry /\ IsFiniteSet(S \cup {e})
    BY FS_AddElement
  <2> QED
    BY <1>1, <1>2, <2>1, <2>2
<1>6. ASSUME NEW T \in SUBSET Bank!Entry, IsFiniteSet(T), S \cap T = {}
      PROVE  Bank!Total(S \cup T) = Bank!Total(S) + Bank!Total(T)
  <2>1. SumFunctionOnSet(g, S \cup T) = SumFunctionOnSet(g, S) + SumFunctionOnSet(g, T)
    BY <1>1, <1>6, SumUnion
  <2>2. S \cup T \in SUBSET Bank!Entry /\ IsFiniteSet(S \cup T)
    BY <1>6, FS_Union
  <2> QED
    BY <1>2, <1>6, <2>1, <2>2
<1> QED
  BY <1>3, <1>4, <1>5, <1>6
-----------------------------------------------------------------------------
(* What an order offers never changes; only closed_at and trade_id do.     *)
RowsStatic ==
    \A i \in Rows :
        /\ i \in Rows'
        /\ orders'[i].type = orders[i].type /\ orders'[i].user = orders[i].user
        /\ orders'[i].amount = orders[i].amount /\ orders'[i].price = orders[i].price

LEMMA ClosedStatic ==
    ASSUME TypeOK, Traded \subseteq Rows, NEW id \in Nat, orders' = Closed(id)
    PROVE  RowsStatic
<1>1. \A i \in Rows : i \in OrderIds /\ orders[i] \in Row /\ orders'[i] # NoRow
  BY RowAmount, ClosedType
<1> QED
  BY <1>1 DEF Closed, RowsStatic, Row, Rows

LEMMA RequestStatic ==
    ASSUME TypeOK, TradeSafety, NEW c \in Clients, Request(c)
    PROVE  RowsStatic
<1>1. CASE AddInsert(c)
  <2>1. orders[nextId] = NoRow /\ nextId \in OrderIds
    BY <1>1 DEF AddInsert, TradeSafety, RowsInv, OrderIds
  <2> QED
    BY <1>1, <2>1 DEF AddInsert, RowsStatic, TypeOK, Rows
<1>2. CASE DelCancel(c)
  <2> DEFINE k == req[c].oid
  <2>1. k \in Rows /\ orders[k] \in Row
    BY <1>2, RowAmount DEF DelCancel, TradeSafety, LockInv
  <2>2. orders' = [orders EXCEPT ![k] = [@ EXCEPT !.closed = TRUE]]
    BY <1>2 DEF DelCancel
  <2>3. orders'[k] = [orders[k] EXCEPT !.closed = TRUE] /\ orders'[k] \in Row
    BY <2>1, <2>2 DEF TypeOK, Row, Rows
  <2>4. \A i \in OrderIds : i # k => orders'[i] = orders[i]
    BY <2>2 DEF TypeOK
  <2>5. orders'[k] # NoRow
    BY <2>3, ExchangeAssumption
  <2>6. \A i \in Rows : i \in Rows'
    BY <2>4, <2>5 DEF Rows
  <2> QED
    BY <2>1, <2>3, <2>4, <2>6 DEF RowsStatic, Row, Rows
<1>3. CASE ~AddInsert(c) /\ ~DelCancel(c)
  <2>1. UNCHANGED orders
    BY <1>3 DEF Request, PostOrder, RequestDelete, AddLockUser, AddCheckOk, AddCheckFails,
       AddRespond, DelLockUser, DelNoOrder, DelLockOrder, DelRefused, VictimRequest, dbVars
  <2> QED
    BY <2>1 DEF RowsStatic, Rows
<1> QED
  BY <1>1, <1>2, <1>3

\* The two statements of tryTrade that write, and all the others.
LEMMA OrdersWritten ==
    ASSUME TraderStep \/ Environment \/ UNCHANGED vars, ~UpdateOrders, ~CommitTrade
    PROVE  UNCHANGED orders
BY DEF TraderStep, ReadLowest, ReadHighest, NextCandidate, Return, FinishRun,
   LockCandidate, LockCandidateUser, CandidateClosed, ReserveCandidate,
   ReserveCandidateFails, ScanRow, SelectTargets, ReadTarget, LockTargetUser,
   ReserveTarget, ReserveTargetFails, NoOrderForTrade, InsertTrade, CommitAtBank,
   CancelReserves, CancelAndThrow, VictimCandidate, VictimScan, VictimTarget, dbVars,
   UpdateLocksRow, VictimUpdate, Environment, TimerFires, CommitRefused, CommitLost, CancelFails, Crash, Exit,
   Restart, Lapse, vars

LEMMA StepStatic ==
    ASSUME TypeOK, TradeSafety, [Next]_vars
    PROVE  RowsStatic
<1>1. CASE UNCHANGED orders
  BY <1>1 DEF RowsStatic, Rows
<1>2. CASE UpdateOrders \/ CommitTrade
  <2>1. Traded \subseteq Rows
    BY <1>2, TradedRows DEF UpdateOrders, CommitTrade, TradeSafety, TryPcs, TraderPcs
  <2>2. Len(trades) \in Nat /\ Len(trades) + 1 \in Nat
    BY DEF TypeOK
  <2> QED
    BY <1>1, <1>2, <2>1, <2>2, ClosedStatic DEF UpdateOrders, CommitTrade
<1> QED
  BY <1>1, <1>2, RequestStatic, OrdersWritten DEF Next

LEMMA AmountKept ==
    ASSUME RowsStatic, NEW S \in SUBSET Rows
    PROVE  SumFunction([i \in S |-> orders'[i].amount]) = Amount(S)
<1>1. [i \in S |-> orders'[i].amount] = [i \in S |-> orders[i].amount]
  BY DEF RowsStatic
<1> QED
  BY <1>1 DEF Amount
-----------------------------------------------------------------------------
(* What tryTrade is about to trade: orders of the other type, each at a    *)
(* price its owner asked for, that together with restAmount make up the    *)
(* candidate's amount.                                                     *)

WorkPcs == {"scan", "target", "target_user", "target_reserve", "insert", "update", "bank"}
PlanPcs == WorkPcs \cup {"commit"}
FullPcs == {"insert", "update", "bank", "commit"}

Opposite(i) == orders[i].type = Other(orders[tr.cand].type) /\ Crosses(tr.cand, i)

PlanTargets ==
    tr.pc \in PlanPcs =>
        /\ tr.rest \in Nat
        /\ tr.rest + Amount(tr.targets) = orders[tr.cand].amount
        /\ \A i \in tr.todo : Opposite(i)
        /\ \A i \in tr.targets : Opposite(i)
        /\ tr.todo \cap tr.targets = {}
PlanNext ==
    /\ tr.pc \in {"target_user", "target_reserve"} =>
         Opposite(tr.to) /\ tr.to \notin tr.todo /\ tr.to \notin tr.targets
    /\ tr.pc = "target_reserve" => orders[tr.to].amount <= tr.rest
    /\ tr.pc \in FullPcs => tr.rest = 0
PlanInv == PlanTargets /\ PlanNext

LEMMA PlanRows ==
    ASSUME TypeOK, TradeSafety, tr.pc \in PlanPcs
    PROVE  /\ tr.cand \in Rows /\ tr.todo \subseteq Rows /\ tr.targets \subseteq Rows
           /\ tr.pc \in TryPcs
           /\ tr.pc \in {"target_user", "target_reserve"} => tr.to \in Rows
<1>1. tr.pc \in TryPcs
  BY DEF PlanPcs, WorkPcs, TryPcs, TraderPcs
<1> QED
  BY <1>1, TraderPart DEF TraderSafe

LEMMA OppositeKept ==
    ASSUME RowsStatic, tr.cand \in Rows, tr'.cand = tr.cand, NEW i \in Rows, Opposite(i)
    PROVE  /\ orders'[i].type = Other(orders'[tr'.cand].type)
           /\ IF orders'[tr'.cand].type = "buy" THEN orders'[i].price <= orders'[tr'.cand].price
                                                ELSE orders'[i].price >= orders'[tr'.cand].price
BY DEF RowsStatic, Opposite, Crosses

\* Moving on within tryTrade keeps what was planned.
LEMMA PlanKept ==
    ASSUME TypeOK, TradeSafety, PlanTargets, RowsStatic, tr.pc \in PlanPcs,
           tr'.cand = tr.cand, tr'.targets = tr.targets, tr'.rest = tr.rest,
           tr'.todo \subseteq tr.todo
    PROVE  PlanTargets'
<1>1. tr.cand \in Rows /\ tr.todo \subseteq Rows /\ tr.targets \subseteq Rows
  BY PlanRows
<1>2. SumFunction([i \in tr'.targets |-> orders'[i].amount]) = Amount(tr.targets)
  BY <1>1, AmountKept
<1>3. tr'.rest + SumFunction([i \in tr'.targets |-> orders'[i].amount]) = orders'[tr'.cand].amount
  BY <1>1, <1>2 DEF RowsStatic, PlanTargets
<1>4. \A i \in tr.todo \cup tr.targets : Opposite(i) /\ i \in Rows
  BY <1>1 DEF PlanTargets
<1>5. \A i \in tr'.todo \cup tr'.targets :
        /\ orders'[i].type = Other(orders'[tr'.cand].type)
        /\ IF orders'[tr'.cand].type = "buy" THEN orders'[i].price <= orders'[tr'.cand].price
                                             ELSE orders'[i].price >= orders'[tr'.cand].price
  BY <1>1, <1>4, OppositeKept
<1> QED
  BY <1>3, <1>5 DEF PlanTargets, Amount, Opposite, Crosses

\* Outside the plan there is nothing to keep.
LEMMA PlanLeft == ASSUME tr'.pc \notin PlanPcs PROVE PlanInv'
BY DEF PlanInv, PlanTargets, PlanNext, PlanPcs, WorkPcs, FullPcs

LEMMA PlanSame ==
    ASSUME TypeOK, TradeSafety, PlanInv, RowsStatic, UNCHANGED tr
    PROVE  PlanInv'
<1>1. CASE tr.pc \in PlanPcs
  <2>1. PlanTargets'
    BY <1>1, PlanKept DEF PlanInv
  <2>2. tr.pc \in {"target_user", "target_reserve"} => tr.to \in Rows /\ tr.cand \in Rows
    BY <1>1, PlanRows
  <2>3. tr.pc \in {"target_user", "target_reserve"} => (Opposite(tr.to))'
    BY <2>2, OppositeKept DEF PlanInv, PlanNext, Opposite, Crosses
  <2>4. tr.pc = "target_reserve" => orders'[tr'.to].amount <= tr'.rest
    BY <2>2 DEF PlanInv, PlanNext, RowsStatic
  <2> QED
    BY <2>1, <2>3, <2>4 DEF PlanInv, PlanNext
<1>2. CASE tr.pc \notin PlanPcs
  BY <1>2, PlanLeft
<1> QED
  BY <1>1, <1>2

\* The steps that change what is planned, or what comes next.
LEMMA PlanStep ==
    ASSUME TypeOK, TradeSafety, PlanInv, RowsStatic,
           \/ ReserveCandidate \/ SelectTargets \/ ReadTarget \/ LockTargetUser
           \/ ReserveTarget \/ ReserveTargetFails \/ NoOrderForTrade
           \/ InsertTrade \/ UpdateOrders \/ CommitAtBank \/ VictimTarget
    PROVE  PlanInv'
<1> USE DEF dbVars
<1>1. CASE ReserveCandidate
  <2>1. /\ tr'.pc = "scan" /\ tr'.rest = orders[tr.cand].amount
        /\ tr'.cand = tr.cand /\ tr'.todo = tr.todo /\ tr'.targets = tr.targets
    BY <1>1 DEF ReserveCandidate, TypeOK, TraderType
  <2>2. tr.cand \in Rows /\ tr.targets = {} /\ tr.todo = {}
    BY <1>1, TraderPart DEF ReserveCandidate, TraderSafe, TryPcs, TraderPcs
  <2>3. Amount({}) = 0 /\ orders[tr.cand].amount \in Nat
    BY <2>2, AmountFacts, RowAmount
  <2>4. SumFunction([i \in tr'.targets |-> orders'[i].amount]) = 0
    BY <2>1, <2>2, <2>3, AmountKept
  <2>5. PlanTargets'
    BY <1>1, <2>1, <2>2, <2>3, <2>4 DEF PlanTargets, Amount, ReserveCandidate
  <2> QED
    BY <2>1, <2>5 DEF PlanInv, PlanNext, FullPcs
<1>2. CASE SelectTargets
  <2>1. /\ tr.pc = "scan" /\ tr'.pc = "target" /\ tr'.rest = tr.rest
        /\ tr'.cand = tr.cand /\ tr'.todo = Targets(tr.cand) /\ tr'.targets = tr.targets
    BY <1>2 DEF SelectTargets, TypeOK, TraderType
  <2>2. tr.pc \in PlanPcs /\ tr.targets = {} /\ UNCHANGED orders
    BY <1>2, <2>1, TraderPart DEF SelectTargets, TraderSafe, PlanPcs, WorkPcs
  <2>3. \A i \in Targets(tr.cand) : Opposite(i)
    BY DEF Targets, Opposite, Open
  <2>4. PlanTargets'
    BY <2>1, <2>2, <2>3 DEF PlanInv, PlanTargets, Amount, Opposite, Crosses
  <2> QED
    BY <2>1, <2>4 DEF PlanInv, PlanNext, FullPcs
<1>3. CASE ReadTarget
  <2>1. PICK i \in First(tr.todo) :
          tr' = [tr EXCEPT !.pc = "target_user", !.to = i, !.todo = @ \ {i},
                           !.fresh = ~orders[i].closed]
    BY <1>3 DEF ReadTarget
  <2>2. /\ tr.pc = "target" /\ tr'.pc = "target_user" /\ tr'.rest = tr.rest /\ tr'.to = i
        /\ tr'.cand = tr.cand /\ tr'.todo = tr.todo \ {i} /\ tr'.targets = tr.targets
    BY <1>3, <2>1 DEF ReadTarget, TypeOK, TraderType
  <2>3. i \in tr.todo /\ tr.pc \in PlanPcs /\ UNCHANGED orders
    BY <1>3, <2>2 DEF First, PlanPcs, WorkPcs, ReadTarget
  <2>4. PlanTargets'
    BY <2>2, <2>3, PlanKept DEF PlanInv
  <2>5. Opposite(i) /\ i \notin tr.targets
    BY <2>3 DEF PlanInv, PlanTargets
  <2>6. (Opposite(tr.to))'
    BY <2>2, <2>3, <2>5 DEF Opposite, Crosses
  <2> QED
    BY <2>2, <2>4, <2>5, <2>6 DEF PlanInv, PlanNext, FullPcs
<1>4. CASE LockTargetUser
  <2>1. tr.pc = "target_user" /\ tr.pc \in PlanPcs /\ UNCHANGED orders
    BY <1>4 DEF LockTargetUser, PlanPcs, WorkPcs
  <2>2. /\ tr'.cand = tr.cand /\ tr'.todo = tr.todo /\ tr'.targets = tr.targets
        /\ tr'.rest = tr.rest /\ tr'.to = tr.to
        /\ tr'.pc = IF Usable(tr.to) THEN "target_reserve" ELSE "target"
    BY <1>4 DEF LockTargetUser, Goto, TypeOK, TraderType
  <2>3. PlanTargets'
    BY <2>1, <2>2, PlanKept DEF PlanInv
  <2>4. (Opposite(tr.to))' /\ tr.to \notin tr.todo /\ tr.to \notin tr.targets
    BY <2>1, <2>2 DEF PlanInv, PlanNext, Opposite, Crosses
  <2> QED
    BY <2>1, <2>2, <2>3, <2>4 DEF PlanInv, PlanNext, FullPcs, Usable
<1>5. CASE ReserveTarget
  <2> DEFINE left == tr.rest - orders[tr.to].amount
  <2>1. /\ tr.pc = "target_reserve" /\ tr.pc \in PlanPcs /\ UNCHANGED orders
        /\ tr'.pc = IF left = 0 THEN "insert" ELSE "target"
        /\ tr'.cand = tr.cand /\ tr'.todo = tr.todo /\ tr'.rest = left
        /\ tr'.targets = tr.targets \cup {tr.to}
    BY <1>5 DEF ReserveTarget, TypeOK, TraderType, PlanPcs, WorkPcs
  <2>2. tr.cand \in Rows /\ tr.todo \subseteq Rows /\ tr.targets \subseteq Rows /\ tr.to \in Rows
    BY <2>1, PlanRows
  <2>3. Opposite(tr.to) /\ tr.to \notin tr.todo /\ tr.to \notin tr.targets
        /\ orders[tr.to].amount <= tr.rest
    BY <2>1 DEF PlanInv, PlanNext
  <2>4. Amount(tr.targets \cup {tr.to}) = Amount(tr.targets) + orders[tr.to].amount
        /\ Amount(tr.targets) \in Int /\ orders[tr.to].amount \in Nat /\ orders[tr.cand].amount \in Nat
    BY <2>2, <2>3, AmountFacts, RowAmount
  <2>5. tr.rest \in Nat /\ tr.rest + Amount(tr.targets) = orders[tr.cand].amount
    BY <2>1 DEF PlanInv, PlanTargets
  <2>6. left \in Nat /\ left + Amount(tr.targets \cup {tr.to}) = orders[tr.cand].amount
    BY <2>3, <2>4, <2>5
  <2>7. left + Amount(tr.targets)' = orders'[tr.cand].amount
    BY <2>1, <2>6 DEF Amount
  <2> HIDE DEF left
  <2>8. PlanTargets'
    BY <2>1, <2>3, <2>6, <2>7 DEF PlanInv, PlanTargets, Opposite, Crosses
  <2> QED
    BY <2>1, <2>8 DEF PlanInv, PlanNext, FullPcs
<1>6. CASE ReserveTargetFails \/ VictimTarget
  <2>1. /\ tr.pc \in {"target_user", "target_reserve"} /\ tr.pc \in PlanPcs
        /\ UNCHANGED orders /\ tr'.pc = "target"
        /\ tr'.cand = tr.cand /\ tr'.todo = tr.todo /\ tr'.targets = tr.targets /\ tr'.rest = tr.rest
    BY <1>6 DEF ReserveTargetFails, VictimTarget, Goto, TypeOK, TraderType, PlanPcs, WorkPcs
  <2>2. PlanTargets'
    BY <2>1, PlanKept DEF PlanInv
  <2> QED
    BY <2>1, <2>2 DEF PlanInv, PlanNext, FullPcs
<1>7. CASE NoOrderForTrade
  <2>1. /\ tr.pc = "target" /\ tr.pc \in PlanPcs /\ UNCHANGED orders
        /\ tr'.pc = IF tr.rest > 0 THEN "cancel" ELSE "insert"
        /\ tr'.cand = tr.cand /\ tr'.todo = tr.todo /\ tr'.targets = tr.targets /\ tr'.rest = tr.rest
    BY <1>7 DEF NoOrderForTrade, Goto, TypeOK, TraderType, PlanPcs, WorkPcs
  <2>2. tr.rest \in Nat
    BY <2>1 DEF PlanInv, PlanTargets
  <2>3. PlanTargets'
    BY <2>1, PlanKept DEF PlanInv
  <2> QED
    BY <2>1, <2>2, <2>3 DEF PlanInv, PlanNext, FullPcs
<1>8. CASE InsertTrade \/ UpdateOrders \/ CommitAtBank
  <2>1. /\ tr.pc \in FullPcs /\ tr.pc \in PlanPcs /\ tr'.pc \in FullPcs
        /\ tr'.cand = tr.cand /\ tr'.todo = tr.todo /\ tr'.targets = tr.targets /\ tr'.rest = tr.rest
    BY <1>8 DEF InsertTrade, UpdateOrders, CommitAtBank, Goto, TypeOK, TraderType,
       PlanPcs, WorkPcs, FullPcs
  <2>2. PlanTargets'
    BY <2>1, PlanKept DEF PlanInv
  <2> QED
    BY <2>1, <2>2 DEF PlanInv, PlanNext, FullPcs
<1> QED
  BY <1>1, <1>2, <1>3, <1>4, <1>5, <1>6, <1>7, <1>8

\* Every other step leaves the locals of tryTrade, or is outside it.
LEMMA OtherStep ==
    ASSUME TypeOK, [Next]_vars,
           ~(\/ ReserveCandidate \/ SelectTargets \/ ReadTarget \/ LockTargetUser
             \/ ReserveTarget \/ ReserveTargetFails \/ NoOrderForTrade
             \/ InsertTrade \/ UpdateOrders \/ CommitAtBank \/ VictimTarget)
    PROVE  UNCHANGED tr \/ tr'.pc \notin PlanPcs
<1> USE DEF PlanPcs, WorkPcs
<1>1. \A pc \in {"off", "lowest", "next", "down", "highest", "cand"} : pc \notin PlanPcs
                                                          /\ At(pc).pc = pc
  BY DEF At
<1>2. CASE \E c \in Clients : Request(c)
  <2>1. UNCHANGED tr
    BY <1>2 DEF Request, PostOrder, RequestDelete, AddLockUser, AddCheckOk, AddCheckFails,
       AddInsert, AddRespond, DelLockUser, DelNoOrder, DelLockOrder, DelCancel, DelRefused,
       VictimRequest, RestUnchanged
  <2> QED
    BY <2>1
<1>3. CASE ReadLowest \/ ReadHighest \/ NextCandidate \/ Return \/ FinishRun
  BY <1>3, <1>1 DEF ReadLowest, ReadHighest, NextCandidate, Return, FinishRun, At
<1>4. CASE LockCandidate \/ LockCandidateUser \/ ScanRow \/ UpdateLocksRow \/ VictimScan
  BY <1>4 DEF LockCandidate, LockCandidateUser, ScanRow, UpdateLocksRow, VictimScan, Goto,
     TypeOK, TraderType
<1>5. CASE CandidateClosed \/ ReserveCandidateFails \/ CancelReserves \/ CancelAndThrow
           \/ VictimCandidate \/ VictimUpdate \/ CommitTrade
  BY <1>5, <1>1 DEF CandidateClosed, ReserveCandidateFails, CancelReserves, CancelAndThrow,
     VictimCandidate, VictimUpdate, CommitTrade, GiveUp, Throw, Exit
<1>6. CASE Environment
  BY <1>6, <1>1 DEF Environment, TimerFires, CommitRefused, CommitLost, CancelFails, Crash,
     Exit, Restart, Lapse, procVars
<1>7. CASE UNCHANGED vars
  BY <1>7 DEF vars, procVars
<1> QED
  BY <1>2, <1>3, <1>4, <1>5, <1>6, <1>7 DEF Next, TraderStep

LEMMA StepPlan ==
    ASSUME TypeOK, TradeSafety, PlanInv, [Next]_vars
    PROVE  PlanInv'
<1>1. RowsStatic
  BY StepStatic
<1> QED
  BY <1>1, PlanStep, OtherStep, PlanSame, PlanLeft
-----------------------------------------------------------------------------
(* What tryTrade has reserved: for each order of the plan one reservation, *)
(* which together are worth what is still missing.                         *)

ReservePcs == WorkPcs \cup {"cancel", "cancel_throw"}
Own == {e \in rsv : e.id \in tr.reserves}
OwnFor(i) == {e \in Own : e.ref = i}
Paying(i, n) == [id |-> n, acct |-> orders[i].user, ref |-> i, amount |-> Cost(i, Price)]
Owed == IF orders[tr.cand].type = "buy" THEN -(tr.rest * Price) ELSE tr.rest * Price

BankTables ==
    /\ IsFiniteSet(rsv) /\ IsFiniteSet(ledger)
    /\ \A e \in rsv : e.id < nextRsv
    /\ \A e \in ledger : e.id < nextRsv
    /\ rsv \cap ledger = {}
    /\ Bank!Total(ledger) = 0
BankWork ==
    /\ \A n \in tr.reserves : n < nextRsv
    /\ tr.pc \notin ReservePcs /\ tr.pc # "commit" => tr.reserves = {}
    /\ tr.pc \in ReservePcs => /\ tr.reserves \subseteq {e.id : e \in Own}
                               /\ \A e \in Own : e.ref \in Traded
    /\ tr.pc = "commit" => Own = {}
    /\ tr.pc \in WorkPcs =>
         /\ Bank!Total(Own) = Owed
         /\ \A i \in Traded : \E n \in tr.reserves : OwnFor(i) = {Paying(i, n)}
BankInv == BankTables /\ BankWork

LEMMA OwnEntries ==
    ASSUME TypeOK, BankTables
    PROVE  /\ Own \subseteq rsv /\ rsv \subseteq Bank!Entry /\ ledger \subseteq Bank!Entry
           /\ nextRsv \in Nat \ {0} /\ IsFiniteSet(Own)
<1>1. Own \subseteq rsv
  BY DEF Own
<1> QED
  BY <1>1, FS_Subset DEF BankTables, TypeOK, Bank!BankTypeOK

LEMMA ReserveTables ==
    ASSUME TypeOK, BankTables, NEW i \in Rows, tr.cand \in Rows, Reserve(i)
    PROVE  /\ BankTables'
           /\ rsv' = rsv \cup {Paying(i, nextRsv)} /\ nextRsv' = nextRsv + 1
           /\ Paying(i, nextRsv) \in Bank!Entry \ rsv
<1> DEFINE new == Paying(i, nextRsv)
<1>1. Cost(i, Price) \in Int /\ orders[i].user \in Users /\ i \in OrderIds
  BY PriceType, CostType
<1>2. nextRsv \in Nat \ {0} /\ rsv \subseteq Bank!Entry /\ ledger \subseteq Bank!Entry
  BY OwnEntries
<1>3. new \in Bank!Entry /\ new.id = nextRsv
  BY <1>1, <1>2 DEF Paying, Bank!Entry
<1>4. \A e \in rsv \cup ledger : e.id < nextRsv /\ e.id \in Nat
  BY <1>2 DEF BankTables, Bank!Entry
<1>5. new \notin rsv /\ new \notin ledger
  BY <1>2, <1>3, <1>4
<1>6. rsv' = rsv \cup {new} /\ nextRsv' = nextRsv + 1 /\ ledger' = ledger
  BY DEF Reserve, Bank!Reserve, Paying
<1> HIDE DEF new
<1>7. IsFiniteSet(rsv') /\ rsv' \cap ledger' = {}
  BY <1>5, <1>6, FS_AddElement DEF BankTables
<1>8. \A e \in rsv' \cup ledger' : e.id < nextRsv'
  BY <1>2, <1>3, <1>4, <1>6
<1>9. BankTables'
  BY <1>6, <1>7, <1>8 DEF BankTables, Bank!Total, Bank!SumFunction
<1> QED
  BY <1>3, <1>5, <1>6, <1>9 DEF new

\* Settling everything a trade reserved moves nothing in or out of the bank.
LEMMA CommitTables ==
    ASSUME TypeOK, BankTables, Bank!Total(Own) = 0, Bank!Commit(tr.reserves)
    PROVE  BankTables'
<1>1. ledger' = ledger \cup Own /\ rsv' = rsv \ Own /\ nextRsv' = nextRsv
  BY DEF Bank!Commit, Own
<1>2. Own \subseteq Bank!Entry /\ ledger \subseteq Bank!Entry /\ IsFiniteSet(Own)
      /\ IsFiniteSet(ledger) /\ IsFiniteSet(rsv) /\ ledger \cap Own = {} /\ Own \subseteq rsv
  BY OwnEntries DEF BankTables
<1>3. Bank!Total(ledger \cup Own) = Bank!Total(ledger) + Bank!Total(Own)
  BY <1>2, TotalFacts
<1>4. Bank!Total(ledger \cup Own) = 0
  BY <1>3 DEF BankTables
<1>5. Bank!Total(ledger)' = 0
  BY <1>1, <1>4 DEF Bank!Total, Bank!SumFunction
<1>6. IsFiniteSet(ledger') /\ IsFiniteSet(rsv')
  BY <1>1, <1>2, FS_Union, FS_Subset
<1>7. rsv' \cap ledger' = {}
  BY <1>1 DEF BankTables
<1> QED
  BY <1>1, <1>2, <1>5, <1>6, <1>7 DEF BankTables

\* Dropping reservations, or doing nothing, neither.
LEMMA DropTables ==
    ASSUME BankTables, rsv' \subseteq rsv, UNCHANGED <<ledger, nextRsv>>
    PROVE  BankTables'
<1>1. IsFiniteSet(rsv')
  BY FS_Subset DEF BankTables
<1> QED
  BY <1>1 DEF BankTables, Bank!Total, Bank!SumFunction

\* Out of tryTrade nothing is reserved.
LEMMA WorkLeft ==
    ASSUME tr'.reserves = {}, tr'.pc \notin ReservePcs, tr'.pc # "commit"
    PROVE  BankWork'
BY DEF BankWork, ReservePcs, WorkPcs

\* Moving on, while others may reserve and their reservations lapse.
LEMMA WorkKept ==
    ASSUME TypeOK, TradeSafety, BankWork, RowsStatic, Own' = Own, nextRsv' \in {nextRsv, nextRsv + 1},
           tr'.cand = tr.cand, tr'.targets = tr.targets, tr'.rest = tr.rest,
           tr'.reserves = tr.reserves,
           \/ tr'.pc = tr.pc
           \/ tr.pc \in WorkPcs /\ tr'.pc \in ReservePcs
           \/ tr.pc \notin ReservePcs \cup {"commit"} /\ tr'.pc \notin ReservePcs \cup {"commit"}
    PROVE  BankWork'
<1> USE DEF ReservePcs, WorkPcs
<1>1. nextRsv \in Nat /\ tr.reserves \subseteq Nat
  BY DEF TypeOK, Bank!BankTypeOK, TraderType
<1>2. \A n \in tr'.reserves : n < nextRsv'
  BY <1>1 DEF BankWork
<1>3. tr'.pc \notin ReservePcs /\ tr'.pc # "commit" => tr'.reserves = {}
  BY DEF BankWork
<1>4. tr'.pc \in ReservePcs => /\ tr'.reserves \subseteq {e.id : e \in Own'}
                               /\ \A e \in Own' : e.ref \in Traded'
  BY DEF BankWork, Traded
<1>5. tr'.pc = "commit" => Own' = {}
  BY DEF BankWork
<1>6. ASSUME tr'.pc \in WorkPcs
      PROVE  /\ Bank!Total(Own)' = Owed'
             /\ \A i \in Traded' : \E n \in tr'.reserves : OwnFor(i)' = {Paying(i, n)'}
  <2>1. tr.pc \in WorkPcs
    BY <1>6
  <2>2. tr.cand \in Rows /\ Traded \subseteq Rows /\ Traded' = Traded
    BY <2>1, PlanRows DEF PlanPcs, Traded
  <2>3. Price' = Price /\ Owed' = Owed
    BY <2>2 DEF Price, Owed, RowsStatic
  <2>4. Bank!Total(Own)' = Bank!Total(Own)
    BY DEF Bank!Total, Bank!SumFunction
  <2>5. ASSUME NEW i \in Traded PROVE \E n \in tr'.reserves : OwnFor(i)' = {Paying(i, n)'}
    <3>1. PICK n \in tr.reserves : OwnFor(i) = {Paying(i, n)}
      BY <2>1 DEF BankWork
    <3>2. OwnFor(i)' = OwnFor(i) /\ Paying(i, n)' = Paying(i, n)
      BY <2>2, <2>3 DEF OwnFor, Paying, Cost, RowsStatic
    <3> QED
      BY <3>1, <3>2
  <2> QED
    BY <2>1, <2>2, <2>3, <2>4, <2>5 DEF BankWork
<1> HIDE DEF ReservePcs, WorkPcs
<1> QED
  BY <1>2, <1>3, <1>4, <1>5, <1>6 DEF BankWork

LEMMA Distribute == \A r, a, p \in Int : r * p - a * p = (r - a) * p /\ 0 * p = 0 /\ a * p \in Int
OBVIOUS
\* A step of tryTrade that asks the bank for nothing, or in vain.
LEMMA QuietBank ==
    ASSUME TypeOK, TradeSafety, BankInv, RowsStatic, UNCHANGED bankVars,
           \/ LockCandidate \/ LockCandidateUser \/ ScanRow \/ SelectTargets \/ ReadTarget
           \/ LockTargetUser \/ ReserveTargetFails \/ NoOrderForTrade
           \/ InsertTrade \/ UpdateOrders \/ VictimScan \/ VictimTarget
    PROVE  BankInv'
<1>1. /\ tr'.cand = tr.cand /\ tr'.targets = tr.targets /\ tr'.rest = tr.rest
      /\ tr'.reserves = tr.reserves
  <2>1. CASE LockCandidate \/ LockCandidateUser \/ ScanRow \/ SelectTargets
    BY <2>1 DEF LockCandidate, LockCandidateUser, ScanRow, SelectTargets, Goto, TypeOK, TraderType
  <2>2. CASE ReadTarget \/ LockTargetUser \/ ReserveTargetFails \/ NoOrderForTrade
    BY <2>2 DEF ReadTarget, LockTargetUser, ReserveTargetFails, NoOrderForTrade, Goto, TypeOK,
       TraderType
  <2>3. CASE InsertTrade \/ UpdateOrders \/ VictimScan \/ VictimTarget
    BY <2>3 DEF InsertTrade, UpdateOrders, VictimScan, VictimTarget, Goto, TypeOK, TraderType
  <2> QED
    BY <2>1, <2>2, <2>3
<1>2. \/ tr'.pc = tr.pc
      \/ tr.pc \in WorkPcs /\ tr'.pc \in ReservePcs
      \/ tr.pc \notin ReservePcs \cup {"commit"} /\ tr'.pc \notin ReservePcs \cup {"commit"}
  <2> USE DEF Goto, TypeOK, TraderType, ReservePcs, WorkPcs
  <2>1. CASE LockCandidate \/ LockCandidateUser \/ ScanRow \/ SelectTargets
    BY <2>1 DEF LockCandidate, LockCandidateUser, ScanRow, SelectTargets
  <2>2. CASE ReadTarget \/ LockTargetUser \/ ReserveTargetFails \/ NoOrderForTrade
    BY <2>2 DEF ReadTarget, LockTargetUser, ReserveTargetFails, NoOrderForTrade
  <2>3. CASE InsertTrade \/ UpdateOrders \/ VictimScan \/ VictimTarget
    BY <2>3 DEF InsertTrade, UpdateOrders, VictimScan, VictimTarget
  <2> QED
    BY <2>1, <2>2, <2>3
<1>3. Own' = Own /\ nextRsv' = nextRsv
  BY <1>1 DEF Own, bankVars
<1>4. BankWork'
  BY <1>1, <1>2, <1>3, WorkKept DEF BankInv
<1>5. BankTables'
  BY DropTables DEF BankInv, bankVars
<1> QED
  BY <1>4, <1>5 DEF BankInv

\* A reservation made, its answer lost: nobody will settle it.
LEMMA LostBank ==
    ASSUME TypeOK, TradeSafety, BankInv, RowsStatic, ReserveTargetFails, Reserve(tr.to)
    PROVE  BankInv'
<1>1. tr.cand \in Rows /\ tr.to \in Rows /\ tr.pc = "target_reserve"
  BY PlanRows DEF ReserveTargetFails, PlanPcs, WorkPcs
<1>2. /\ BankTables' /\ rsv' = rsv \cup {Paying(tr.to, nextRsv)} /\ nextRsv' = nextRsv + 1
  BY <1>1, ReserveTables DEF BankInv
<1>3. /\ tr'.cand = tr.cand /\ tr'.targets = tr.targets /\ tr'.rest = tr.rest
      /\ tr'.reserves = tr.reserves /\ tr'.pc = "target"
  BY DEF ReserveTargetFails, Goto, TypeOK, TraderType
<1>4. nextRsv \notin tr.reserves
  BY DEF BankInv, BankWork, TypeOK, TraderType, Bank!BankTypeOK
<1>5. Own' = Own
  BY <1>2, <1>3, <1>4 DEF Own, Paying
<1>6. BankWork'
  BY <1>1, <1>2, <1>3, <1>5, WorkKept DEF BankInv, WorkPcs, ReservePcs
<1> QED
  BY <1>2, <1>6 DEF BankInv

\* The reservations of the plan, with the one just made.
LEMMA OwnMore ==
    ASSUME TypeOK, BankInv, NEW i \in Rows, tr.cand \in Rows, Reserve(i),
           tr'.reserves = tr.reserves \cup {nextRsv}
    PROVE  /\ Own' = Own \cup {Paying(i, nextRsv)}
           /\ Bank!Total(Own') = Bank!Total(Own) + Cost(i, Price)
           /\ \A n \in tr'.reserves : n < nextRsv'
           /\ \A e \in Own : e.id # nextRsv
<1> DEFINE new == Paying(i, nextRsv)
<1>1. rsv' = rsv \cup {new} /\ nextRsv' = nextRsv + 1 /\ new \in Bank!Entry \ rsv
  BY ReserveTables DEF BankInv
<1>2. Own \subseteq rsv /\ rsv \subseteq Bank!Entry /\ IsFiniteSet(Own) /\ nextRsv \in Nat \ {0}
  BY OwnEntries DEF BankInv
<1>3. \A e \in rsv : e.id # nextRsv
  BY <1>2 DEF BankInv, BankTables, Bank!Entry
<1>4. Own' = Own \cup {new}
  BY <1>1, <1>3 DEF Own, Paying
<1>5. new \in Bank!Entry \ Own /\ new.amount = Cost(i, Price)
  BY <1>1, <1>2 DEF Paying
<1>6. Bank!Total(Own \cup {new}) = Bank!Total(Own) + Cost(i, Price)
  <2> HIDE DEF new
  <2> QED
    BY <1>2, <1>5, TotalFacts
<1>7. \A n \in tr'.reserves : n < nextRsv'
  BY <1>1, <1>2 DEF BankInv, BankWork, TypeOK, TraderType
<1> QED
  BY <1>2, <1>3, <1>4, <1>6, <1>7

LEMMA CandidateBank ==
    ASSUME TypeOK, TradeSafety, BankInv, ReserveCandidate
    PROVE  BankInv'
<1>1. /\ tr.cand \in Rows /\ tr.targets = {} /\ tr.pc = "reserve"
  BY TraderPart DEF ReserveCandidate, TraderSafe, TryPcs, TraderPcs
<1>2. tr.reserves = {}
  BY <1>1 DEF BankInv, BankWork, ReservePcs, WorkPcs
<1>3. /\ tr'.pc = "scan" /\ tr'.rest = orders[tr.cand].amount /\ tr'.cand = tr.cand
      /\ tr'.targets = {} /\ tr'.reserves = tr.reserves \cup {nextRsv} /\ tr'.reserves = {nextRsv}
      /\ UNCHANGED orders /\ Reserve(tr.cand)
  BY <1>1, <1>2 DEF ReserveCandidate, TypeOK, TraderType, dbVars
<1>4. BankTables'
  BY <1>1, <1>3, ReserveTables DEF BankInv
<1>5. Own = {}
  BY <1>2 DEF Own
<1>6. Own' = {Paying(tr.cand, nextRsv)} /\ Bank!Total(Own') = Bank!Total(Own) + Cost(tr.cand, Price)
      /\ \A n \in tr'.reserves : n < nextRsv'
  BY <1>1, <1>3, <1>5, OwnMore
<1>7. Bank!Total(Own) = 0
  BY <1>5, TotalFacts, FS_EmptySet
<1>8. Price \in Nat /\ orders[tr.cand].amount \in Nat
  BY <1>1, PriceType
<1>9. Bank!Total(Own') = Cost(tr.cand, Price) /\ Cost(tr.cand, Price) = Owed'
  <2>1. Cost(tr.cand, Price) \in Int
    BY <1>1, <1>8, CostType
  <2>2. Cost(tr.cand, Price) = Owed'
    BY <1>3 DEF Cost, Owed, Price
  <2> QED
    BY <1>6, <1>7, <2>1, <2>2
<1>10. Traded' = {tr.cand} /\ Paying(tr.cand, nextRsv).ref = tr.cand
       /\ Paying(tr.cand, nextRsv).id = nextRsv
  BY <1>3 DEF Traded, Paying
<1>11. \A i \in Traded' : \E n \in tr'.reserves : OwnFor(i)' = {Paying(i, n)'}
  <2>1. OwnFor(tr.cand)' = {Paying(tr.cand, nextRsv)}
    BY <1>3, <1>6, <1>10 DEF OwnFor
  <2>2. Paying(tr.cand, nextRsv) = [id |-> nextRsv, acct |-> orders'[tr.cand].user, ref |-> tr.cand,
                 amount |-> IF orders'[tr.cand].type = "buy" THEN -(orders'[tr.cand].amount * orders'[tr'.cand].price)
                    ELSE orders'[tr.cand].amount * orders'[tr'.cand].price]
    BY <1>3 DEF Paying, Cost, Price
  <2> QED
    BY <1>3, <1>10, <2>1, <2>2 DEF OwnFor, Paying, Cost, Price
<1>12. Bank!Total(Own)' = Owed'
  BY <1>9 DEF Bank!Total, Bank!SumFunction
<1>13. BankWork'
  BY <1>3, <1>6, <1>10, <1>11, <1>12 DEF BankWork, ReservePcs, WorkPcs
<1> QED
  BY <1>4, <1>13 DEF BankInv

LEMMA TargetBank ==
    ASSUME TypeOK, TradeSafety, PlanInv, BankInv, ReserveTarget
    PROVE  BankInv'
<1> DEFINE left == tr.rest - orders[tr.to].amount
           new == Paying(tr.to, nextRsv)
<1>1. /\ tr.pc = "target_reserve" /\ tr.pc \in PlanPcs /\ tr.pc \in WorkPcs
  BY DEF ReserveTarget, PlanPcs, WorkPcs
<1>2. /\ tr'.pc \in {"insert", "target"} /\ tr'.rest = left /\ tr'.cand = tr.cand
      /\ tr'.targets = tr.targets \cup {tr.to} /\ tr'.reserves = tr.reserves \cup {nextRsv}
      /\ UNCHANGED orders /\ Reserve(tr.to)
  BY DEF ReserveTarget, TypeOK, TraderType, dbVars
<1>3. tr.cand \in Rows /\ tr.targets \subseteq Rows /\ tr.to \in Rows
  BY <1>1, PlanRows
<1>4. Opposite(tr.to) /\ tr.to \notin tr.targets /\ tr.rest \in Nat
  BY <1>1 DEF PlanInv, PlanNext, PlanTargets
<1>5. BankTables' /\ new \in Bank!Entry
  BY <1>2, <1>3, ReserveTables DEF BankInv
<1>6. /\ Own' = Own \cup {new} /\ Bank!Total(Own') = Bank!Total(Own) + Cost(tr.to, Price)
      /\ \A n \in tr'.reserves : n < nextRsv' /\ \A e \in Own : e.id # nextRsv
  BY <1>2, <1>3, OwnMore
<1>7. /\ Bank!Total(Own) = Owed /\ \A e \in Own : e.ref \in Traded
      /\ tr.reserves \subseteq {e.id : e \in Own}
      /\ \A i \in Traded : \E n \in tr.reserves : OwnFor(i) = {Paying(i, n)}
  BY <1>1 DEF BankInv, BankWork, ReservePcs
<1>8. Bank!Total(Own)' = Owed'
  <2>1. Price \in Int /\ orders[tr.to].amount \in Int /\ tr.rest \in Int
        /\ orders[tr.cand].type \in Types
    BY <1>3, <1>4, PriceType, RowAmount
  <2>2. tr.rest * Price - orders[tr.to].amount * Price = left * Price
        /\ tr.rest * Price \in Int /\ orders[tr.to].amount * Price \in Int /\ left * Price \in Int
    BY <2>1, Distribute
  <2>3. Owed' = IF orders[tr.cand].type = "buy" THEN -(left * Price) ELSE left * Price
    BY <1>2 DEF Owed, Price
  <2>4. CASE orders[tr.cand].type = "buy"
    <3>1. orders[tr.to].type = "sell"
      BY <1>4, <2>4 DEF Opposite, Other
    <3>2. Cost(tr.to, Price) = orders[tr.to].amount * Price /\ Owed = -(tr.rest * Price)
      BY <2>4, <3>1 DEF Cost, Owed
    <3> HIDE DEF left
    <3>3. Owed + Cost(tr.to, Price) = -(left * Price)
      BY <2>2, <3>2
    <3> QED
      BY <1>6, <1>7, <2>3, <2>4, <3>3 DEF Bank!Total, Bank!SumFunction
  <2>5. CASE orders[tr.cand].type # "buy"
    <3>1. orders[tr.to].type = "buy"
      BY <1>4, <2>5 DEF Opposite, Other
    <3>2. Cost(tr.to, Price) = -(orders[tr.to].amount * Price) /\ Owed = tr.rest * Price
      BY <2>5, <3>1 DEF Cost, Owed
    <3> HIDE DEF left
    <3>3. Owed + Cost(tr.to, Price) = left * Price
      BY <2>2, <3>2
    <3> QED
      BY <1>6, <1>7, <2>3, <2>5, <3>3 DEF Bank!Total, Bank!SumFunction
  <2> QED
    BY <2>4, <2>5
<1>9. Traded' = Traded \cup {tr.to} /\ tr.to \notin Traded
  <2>1. tr.to # tr.cand
    BY <1>3, <1>4, RowAmount DEF Opposite, Other, Types
  <2> QED
    BY <1>2, <1>4, <2>1 DEF Traded
<1>10. new.ref = tr.to /\ new.id = nextRsv
  BY DEF Paying
<1>11. ASSUME NEW i \in Traded' PROVE \E n \in tr'.reserves : OwnFor(i)' = {Paying(i, n)'}
  <2>1. \A n : Paying(i, n) = [id |-> n, acct |-> orders'[i].user, ref |-> i,
                 amount |-> IF orders'[i].type = "buy" THEN -(orders'[i].amount * orders'[tr'.cand].price)
                    ELSE orders'[i].amount * orders'[tr'.cand].price]
    BY <1>2 DEF Paying, Cost, Price
  <2>2. OwnFor(i)' = {e \in Own \cup {new} : e.ref = i}
    BY <1>6 DEF OwnFor
  <2>3. CASE i = tr.to
    <3>1. OwnFor(i)' = {new}
      BY <1>7, <1>9, <1>10, <2>2, <2>3
    <3>2. new = Paying(i, nextRsv) /\ nextRsv \in tr'.reserves
      BY <1>2, <2>3
    <3> HIDE DEF new
    <3> QED
      BY <2>1, <3>1, <3>2 DEF Paying, Cost, Price
  <2>4. CASE i # tr.to
    <3>1. PICK n \in tr.reserves : OwnFor(i) = {Paying(i, n)}
      BY <1>7, <1>9, <2>4
    <3>2. OwnFor(i)' = {Paying(i, n)} /\ n \in tr'.reserves
      BY <1>2, <1>10, <2>2, <2>4, <3>1 DEF OwnFor
    <3> HIDE DEF new
    <3> QED
      BY <2>1, <3>2 DEF Paying, Cost, Price
  <2> QED
    BY <2>3, <2>4
<1>12. tr'.reserves \subseteq {e.id : e \in Own'} /\ \A e \in Own' : e.ref \in Traded'
  BY <1>2, <1>6, <1>7, <1>9, <1>10
<1> HIDE DEF new, left
<1>13. BankWork'
  BY <1>2, <1>6, <1>8, <1>11, <1>12 DEF BankWork, ReservePcs, WorkPcs
<1> QED
  BY <1>5, <1>13 DEF BankInv
\* When the plan is complete the reservations cancel out.
LEMMA NothingOwed ==
    ASSUME TypeOK, TradeSafety, PlanInv, BankInv, tr.pc = "bank"
    PROVE  Bank!Total(Own) = 0 /\ \A i \in Traded : \E n \in tr.reserves : OwnFor(i) = {Paying(i, n)}
<1>1. tr.cand \in Rows /\ tr.rest = 0
  BY PlanRows DEF PlanInv, PlanNext, PlanPcs, WorkPcs, FullPcs
<1>2. Price \in Int
  BY <1>1, PriceType
<1>3. Owed = 0
  BY <1>1, <1>2, Distribute DEF Owed
<1> QED
  BY <1>3 DEF BankInv, BankWork, WorkPcs

LEMMA CommitBank ==
    ASSUME TypeOK, TradeSafety, PlanInv, BankInv, CommitAtBank \/ CommitLost
    PROVE  BankInv'
<1>1. tr.pc = "bank" /\ Bank!Commit(tr.reserves)
  BY DEF CommitAtBank, CommitLost
<1>2. BankTables'
  BY <1>1, NothingOwed, CommitTables DEF BankInv
<1>3. CASE CommitAtBank
  <2>1. tr'.pc = "commit" /\ tr'.reserves = tr.reserves /\ nextRsv' = nextRsv
    BY <1>3 DEF CommitAtBank, Goto, TypeOK, TraderType, Bank!Commit
  <2>2. Own' = {}
    BY <1>1, <2>1 DEF Own, Bank!Commit
  <2>3. BankWork'
    BY <2>1, <2>2 DEF BankInv, BankWork, ReservePcs, WorkPcs
  <2> QED
    BY <1>2, <2>3 DEF BankInv
<1>4. CASE CommitLost
  <2>1. tr'.reserves = {} /\ tr'.pc = "down"
    BY <1>4 DEF CommitLost, Exit, At
  <2>2. BankWork'
    BY <2>1, WorkLeft DEF ReservePcs, WorkPcs
  <2> QED
    BY <1>2, <2>2 DEF BankInv
<1> QED
  BY <1>3, <1>4

\* The ways out of tryTrade, and the steps outside it.
LEMMA AtRest ==
    ASSUME NEW pc \in {"off", "lowest", "next", "down", "highest", "cand"}
    PROVE  At(pc).reserves = {} /\ At(pc).pc = pc /\ pc \notin ReservePcs /\ pc # "commit"
BY DEF At, ReservePcs, WorkPcs

LEMMA LeaveBank ==
    ASSUME BankInv, TypeOK,
           \/ ReadLowest \/ ReadHighest \/ NextCandidate \/ FinishRun
           \/ CandidateClosed \/ CommitTrade \/ CancelReserves \/ CancelAndThrow
           \/ VictimCandidate \/ VictimUpdate \/ CommitRefused \/ CancelFails \/ Crash
           \/ Restart
    PROVE  BankInv'
<1>1. tr'.reserves = {} /\ tr'.pc \notin ReservePcs /\ tr'.pc # "commit"
  <2>1. \/ \E pc \in {"off", "lowest", "next", "down"} : tr' = At(pc)
        \/ \E i : tr' = [At("highest") EXCEPT !.low = i]
        \/ \E i : tr' = [At("cand") EXCEPT !.cand = i, !.inTx = TRUE]
    BY DEF ReadLowest, ReadHighest, NextCandidate, FinishRun, CandidateClosed, CommitTrade,
       CancelReserves, CancelAndThrow, VictimCandidate, VictimUpdate, CommitRefused,
       CancelFails, Crash, Restart, GiveUp, Throw, Exit
  <2>2. CASE \E pc \in {"off", "lowest", "next", "down"} : tr' = At(pc)
    BY <2>2, AtRest
  <2>3. CASE \E i : tr' = [At("highest") EXCEPT !.low = i]
    BY <2>3, AtRest DEF At
  <2>4. CASE \E i : tr' = [At("cand") EXCEPT !.cand = i, !.inTx = TRUE]
    BY <2>4, AtRest DEF At
  <2> QED
    BY <2>1, <2>2, <2>3, <2>4
<1>2. rsv' \subseteq rsv /\ UNCHANGED <<ledger, nextRsv>>
  BY DEF ReadLowest, ReadHighest, NextCandidate, FinishRun, CandidateClosed, CommitTrade,
     CancelReserves, CancelAndThrow, VictimCandidate, VictimUpdate, CommitRefused,
     CancelFails, Crash, Restart, Bank!Cancel, bankVars
<1> QED
  BY <1>1, <1>2, WorkLeft, DropTables DEF BankInv

LEMMA CandidateFailsBank ==
    ASSUME TypeOK, TradeSafety, BankInv, ReserveCandidateFails
    PROVE  BankInv'
<1>1. tr'.reserves = {} /\ tr'.pc \notin ReservePcs /\ tr'.pc # "commit"
  BY AtRest DEF ReserveCandidateFails, Throw
<1>2. CASE UNCHANGED bankVars
  BY <1>1, <1>2, WorkLeft, DropTables DEF BankInv, bankVars
<1>3. CASE Reserve(tr.cand)
  <2>1. tr.cand \in Rows
    BY TraderPart DEF ReserveCandidateFails, TraderSafe, TryPcs, TraderPcs
  <2> QED
    BY <1>1, <1>3, <2>1, ReserveTables, WorkLeft DEF BankInv
<1> QED
  BY <1>2, <1>3 DEF ReserveCandidateFails, ReserveFails

\* The trader does not move, and what it has reserved is left alone.
LEMMA StillBank ==
    ASSUME TypeOK, TradeSafety, BankInv, RowsStatic, UNCHANGED <<tr, ledger, nextRsv>>,
           rsv' \subseteq rsv, \A e \in rsv \ rsv' : e.id \notin tr.reserves
    PROVE  BankInv'
<1>1. Own' = Own
  BY DEF Own
<1>2. BankWork'
  BY <1>1, WorkKept DEF BankInv
<1> QED
  BY <1>2, DropTables DEF BankInv

LEMMA StillSteps ==
    ASSUME TypeOK,
           \/ \E c \in Clients : Request(c)
           \/ Return \/ UpdateLocksRow \/ (TimerFires /\ tr' = tr) \/ Lapse
           \/ UNCHANGED vars
    PROVE  /\ UNCHANGED <<tr, ledger, nextRsv>> /\ rsv' \subseteq rsv
           /\ \A e \in rsv \ rsv' : e.id \notin tr.reserves
<1>1. CASE \E c \in Clients : Request(c)
  BY <1>1 DEF Request, PostOrder, RequestDelete, AddLockUser, AddCheckOk, AddCheckFails,
     AddInsert, AddRespond, DelLockUser, DelNoOrder, DelLockOrder, DelCancel, DelRefused,
     VictimRequest, RestUnchanged, bankVars
<1>2. CASE Return \/ UpdateLocksRow \/ (TimerFires /\ tr' = tr) \/ UNCHANGED vars
  BY <1>2 DEF Return, UpdateLocksRow, TimerFires, vars, procVars, bankVars
<1>3. CASE Lapse
  BY <1>3 DEF Lapse, Bank!Lapse, procVars
<1> QED
  BY <1>1, <1>2, <1>3

LEMMA StepBank ==
    ASSUME TypeOK, TradeSafety, PlanInv, BankInv, [Next]_vars
    PROVE  BankInv'
<1>0. RowsStatic
  BY StepStatic
<1>1. CASE \/ \E c \in Clients : Request(c)
           \/ Return \/ UpdateLocksRow \/ (TimerFires /\ tr' = tr) \/ Lapse
           \/ UNCHANGED vars
  BY <1>0, <1>1, StillSteps, StillBank
<1>2. CASE TimerFires /\ tr' = At("lowest")
  BY <1>2, AtRest, WorkLeft, DropTables DEF TimerFires, BankInv, bankVars
<1>3. CASE TraderStep
  <2>1. CASE \/ LockCandidate \/ LockCandidateUser \/ ScanRow \/ SelectTargets \/ ReadTarget
             \/ LockTargetUser \/ NoOrderForTrade
             \/ InsertTrade \/ UpdateOrders \/ VictimScan \/ VictimTarget
    <3>1. UNCHANGED bankVars
      BY <2>1 DEF LockCandidate, LockCandidateUser, ScanRow, SelectTargets, ReadTarget,
         LockTargetUser, NoOrderForTrade, InsertTrade, UpdateOrders, VictimScan, VictimTarget
    <3> QED
      BY <1>0, <2>1, <3>1, QuietBank
  <2>2. CASE ReserveTargetFails
    BY <1>0, <2>2, QuietBank, LostBank DEF ReserveTargetFails, ReserveFails
  <2>3. CASE ReserveCandidate \/ ReserveCandidateFails \/ ReserveTarget \/ CommitAtBank
    BY <2>3, CandidateBank, CandidateFailsBank, TargetBank, CommitBank
  <2>4. CASE \/ ReadLowest \/ ReadHighest \/ NextCandidate \/ FinishRun
             \/ CandidateClosed \/ CommitTrade \/ CancelReserves \/ CancelAndThrow
             \/ VictimCandidate \/ VictimUpdate
    BY <2>4, LeaveBank
  <2>5. CASE Return \/ UpdateLocksRow
    BY <1>1, <2>5
  <2> QED
    BY <1>3, <2>1, <2>2, <2>3, <2>4, <2>5 DEF TraderStep
<1>4. CASE Environment
  BY <1>1, <1>2, <1>4, CommitBank, LeaveBank DEF Environment, TimerFires
<1> QED
  BY <1>1, <1>3, <1>4 DEF Next
-----------------------------------------------------------------------------
(* What the tables record.                                                 *)

Balances(S, trade) ==
    LET buys == {i \in S : orders[i].type = "buy"}
    IN /\ Amount(buys) = trade.amount /\ Amount(S \ buys) = trade.amount
       /\ \A i \in S : IF i \in buys THEN orders[i].price >= trade.price
                                     ELSE orders[i].price <= trade.price
Balanced(t) == Balances(SettledBy(t), trades[t])
\* After a swallowed deadlock the trade is inserted, visible, before its orders
\* are closed.
Unfinished == tr.pc = "update" /\ ~tr.inTx
ThisTrade == [amount |-> orders[tr.cand].amount, price |-> Price]

RecordInv ==
    /\ \A i \in Rows : orders[i].trade <= Len(trades)
    /\ Unfinished => /\ Len(trades) # 0 /\ SettledBy(Len(trades)) = {}
                     /\ trades[Len(trades)] = ThisTrade
BalanceInv ==
    \A t \in 1..Len(trades) :
        \/ Balanced(t)
        \/ SettledBy(t) = {} /\ (t \in cutOff.trades \/ (Unfinished /\ t = Len(trades)))

\* What a process left half done is remembered, and only its end adds to it.
LEMMA CutOffGrows ==
    ASSUME [Next]_vars
    PROVE  /\ cutOff' = cutOff \/ Exit
           /\ cutOff.trades \subseteq cutOff'.trades /\ cutOff.reserves \subseteq cutOff'.reserves
<1>1. CASE \E c \in Clients : Request(c)
  BY <1>1 DEF Request, PostOrder, RequestDelete, AddLockUser, AddCheckOk, AddCheckFails,
     AddInsert, AddRespond, DelLockUser, DelNoOrder, DelLockOrder, DelCancel, DelRefused,
     VictimRequest, RestUnchanged
<1>2. CASE TraderStep
  <2>1. TraderStep /\ ~VictimUpdate => cutOff' = cutOff
    BY DEF TraderStep, ReadLowest, ReadHighest, NextCandidate, Return, FinishRun,
       LockCandidate, LockCandidateUser, CandidateClosed, ReserveCandidate,
       ReserveCandidateFails, ScanRow, SelectTargets, ReadTarget, LockTargetUser,
       ReserveTarget, ReserveTargetFails, NoOrderForTrade, InsertTrade, UpdateLocksRow,
       UpdateOrders, CommitAtBank, CommitTrade, CancelReserves, CancelAndThrow,
       VictimCandidate, VictimScan, VictimTarget, TraderUnchanged
  <2>2. VictimUpdate => Exit
    BY DEF VictimUpdate
  <2>3. Exit => cutOff.trades \subseteq cutOff'.trades /\ cutOff.reserves \subseteq cutOff'.reserves
    BY DEF Exit
  <2> QED
    BY <1>2, <2>1, <2>2, <2>3
<1>3. CASE Environment
  BY <1>3 DEF Environment, TimerFires, CommitRefused, CommitLost, CancelFails, Crash, Restart,
     Lapse, Exit
<1>4. CASE UNCHANGED vars
  BY <1>4 DEF vars
<1> QED
  BY <1>1, <1>2, <1>3, <1>4 DEF Next

\* Every row with a trade_id had it before.
IdsKept == \A i \in Rows' : orders'[i].trade # 0 => i \in Rows /\ orders[i].trade = orders'[i].trade

LEMMA BalancesKept ==
    ASSUME RowsStatic, NEW S \in SUBSET Rows, NEW trade, Balances(S, trade)
    PROVE  LET buys == {i \in S : orders'[i].type = "buy"}
           IN /\ SumFunction([i \in buys |-> orders'[i].amount]) = trade.amount
              /\ SumFunction([i \in S \ buys |-> orders'[i].amount]) = trade.amount
              /\ \A i \in S : IF i \in buys THEN orders'[i].price >= trade.price
                                            ELSE orders'[i].price <= trade.price
<1> DEFINE buys == {i \in S : orders'[i].type = "buy"}
<1>1. buys = {i \in S : orders[i].type = "buy"}
  BY DEF RowsStatic
<1>2. /\ SumFunction([i \in buys |-> orders'[i].amount]) = Amount(buys)
      /\ SumFunction([i \in S \ buys |-> orders'[i].amount]) = Amount(S \ buys)
  <2>1. buys \in SUBSET Rows /\ S \ buys \in SUBSET Rows
    OBVIOUS
  <2> HIDE DEF buys
  <2> QED
    BY <2>1, AmountKept
<1>3. Amount(buys) = trade.amount /\ Amount(S \ buys) = trade.amount
  BY <1>1 DEF Balances
<1>4. \A i \in S : IF i \in buys THEN orders'[i].price >= trade.price
                                 ELSE orders'[i].price <= trade.price
  BY <1>1 DEF Balances, RowsStatic
<1> QED
  BY <1>2, <1>3, <1>4

\* A trade whose orders are the same as before balances as before.
LEMMA BalancedKept ==
    ASSUME RowsStatic, NEW t, Balances(SettledBy(t), trades[t]),
           SettledBy(t)' = SettledBy(t), trades'[t] = trades[t]
    PROVE  Balances(SettledBy(t), trades[t])'
<1> DEFINE S == SettledBy(t)
<1>1. S \in SUBSET Rows
  BY DEF SettledBy
<1> HIDE DEF S
<1>2. LET buys == {i \in S : orders'[i].type = "buy"}
      IN /\ SumFunction([i \in buys |-> orders'[i].amount]) = trades[t].amount
         /\ SumFunction([i \in S \ buys |-> orders'[i].amount]) = trades[t].amount
         /\ \A i \in S : IF i \in buys THEN orders'[i].price >= trades[t].price
                                       ELSE orders'[i].price <= trades[t].price
  <2>1. Balances(S, trades[t])
    BY DEF S
  <2> QED
    BY <1>1, <2>1, BalancesKept
<1>3. SettledBy(t)' = S
  BY DEF S
<1> QED
  BY <1>2, <1>3 DEF Balances, Amount

LEMMA SettledKept ==
    ASSUME RowsStatic, RowsFinal, NEW t \in Nat \ {0},
           \A i \in Rows' : orders'[i].trade = t => i \in Rows /\ orders[i].trade = t
    PROVE  SettledBy(t)' = SettledBy(t)
<1>1. SettledBy(t)' \subseteq SettledBy(t)
  BY DEF SettledBy
<1>2. ASSUME NEW i \in SettledBy(t) PROVE i \in Rows' /\ orders'[i].trade = t
  <2>1. i \in Rows /\ orders[i].trade = t /\ i \in OrderIds /\ orders[i] # NoRow
    BY DEF SettledBy, Rows
  <2>2. i \in Rows'
    BY <2>1 DEF RowsStatic
  <2>3. orders'[i] = orders[i]
    BY <2>1 DEF RowsFinal
  <2> QED
    BY <2>1, <2>2, <2>3
<1> QED
  BY <1>1, <1>2 DEF SettledBy

\* The orders of a complete plan balance.
LEMMA PlanBalances ==
    ASSUME TypeOK, TradeSafety, PlanInv, tr.pc \in FullPcs
    PROVE  Traded \subseteq Rows /\ Balances(Traded, ThisTrade)
<1>1. tr.pc \in PlanPcs
  BY DEF FullPcs, PlanPcs, WorkPcs
<1>2. tr.cand \in Rows /\ tr.targets \subseteq Rows
  BY <1>1, PlanRows
<1>3. /\ tr.rest = 0 /\ tr.rest + Amount(tr.targets) = orders[tr.cand].amount
      /\ \A i \in tr.targets : Opposite(i)
  BY <1>1 DEF PlanInv, PlanTargets, PlanNext
<1>4. /\ Amount(tr.targets) = orders[tr.cand].amount
      /\ Amount({tr.cand}) = orders[tr.cand].amount
  BY <1>2, <1>3, AmountFacts
<1>5. orders[tr.cand].type \in Types /\ Price \in Nat /\ Price = orders[tr.cand].price
      /\ ThisTrade.amount = orders[tr.cand].amount /\ ThisTrade.price = Price
  BY <1>2, RowAmount DEF Price, ThisTrade
<1> DEFINE buys == {i \in Traded : orders[i].type = "buy"}
<1>6. ASSUME orders[tr.cand].type = "buy" PROVE Balances(Traded, ThisTrade)
  <2>1. \A i \in tr.targets : orders[i].type = "sell"
    BY <1>3, <1>6 DEF Opposite, Other
  <2>2. buys = {tr.cand} /\ Traded \ buys = tr.targets
    BY <1>6, <2>1 DEF Traded
  <2>3. \A i \in tr.targets : orders[i].price <= Price
    BY <1>3, <1>6 DEF Opposite, Crosses, Price
  <2>4. \A i \in Traded : IF i \in buys THEN orders[i].price >= Price ELSE orders[i].price <= Price
    BY <1>5, <2>2, <2>3
  <2>5. Amount(buys) = ThisTrade.amount /\ Amount(Traded \ buys) = ThisTrade.amount
    <3> HIDE DEF buys
    <3> QED
      BY <1>4, <1>5, <2>2
  <2> QED
    BY <1>5, <2>4, <2>5 DEF Balances
<1>7. ASSUME orders[tr.cand].type = "sell" PROVE Balances(Traded, ThisTrade)
  <2>1. \A i \in tr.targets : orders[i].type = "buy"
    BY <1>3, <1>7 DEF Opposite, Other
  <2>2. buys = tr.targets /\ Traded \ buys = {tr.cand}
    BY <1>7, <2>1 DEF Traded
  <2>3. \A i \in tr.targets : orders[i].price >= Price
    BY <1>3, <1>7 DEF Opposite, Crosses, Price
  <2>4. \A i \in Traded : IF i \in buys THEN orders[i].price >= Price ELSE orders[i].price <= Price
    BY <1>5, <2>2, <2>3
  <2>5. Amount(buys) = ThisTrade.amount /\ Amount(Traded \ buys) = ThisTrade.amount
    <3> HIDE DEF buys
    <3> QED
      BY <1>4, <1>5, <2>2
  <2> QED
    BY <1>5, <2>4, <2>5 DEF Balances
<1>8. Balances(Traded, ThisTrade)
  BY <1>5, <1>6, <1>7 DEF Types
<1> QED
  BY <1>2, <1>8 DEF Traded

\* Closing them under a new id makes a balanced trade of them.
LEMMA CloseBalances ==
    ASSUME TypeOK, TradeSafety, PlanInv, tr.pc \in FullPcs, RowsStatic,
           NEW id \in Nat \ {0}, SettledBy(id) = {}, orders' = Closed(id),
           trades'[id] = ThisTrade
    PROVE  /\ Balanced(id)'
           /\ \A i \in Rows' : \/ orders'[i].trade = id
                               \/ i \in Rows /\ orders'[i].trade = orders[i].trade
<1>1. Traded \subseteq Rows /\ Balances(Traded, ThisTrade)
  BY PlanBalances
<1>2. Rows' = Rows
  BY <1>1, ClosedType DEF Rows
<1>3. \A i \in Rows : orders'[i].trade = IF i \in Traded THEN id ELSE orders[i].trade
  BY RowAmount DEF Closed, Row
<1>4. SettledBy(id)' = Traded
  BY <1>1, <1>2, <1>3 DEF SettledBy
<1> DEFINE S == Traded
           trade == ThisTrade
<1>5. S \in SUBSET Rows /\ Balances(S, trade)
  BY <1>1
<1>6. SettledBy(id)' = S /\ trades'[id] = trade
  BY <1>4
<1> HIDE DEF S, trade
<1>7. LET buys == {i \in S : orders'[i].type = "buy"}
      IN /\ SumFunction([i \in buys |-> orders'[i].amount]) = trade.amount
         /\ SumFunction([i \in S \ buys |-> orders'[i].amount]) = trade.amount
         /\ \A i \in S : IF i \in buys THEN orders'[i].price >= trade.price
                                       ELSE orders'[i].price <= trade.price
  BY <1>5, BalancesKept
<1>8. Balanced(id)'
  BY <1>6, <1>7 DEF Balances, Balanced, Amount
<1> QED
  BY <1>2, <1>3, <1>8
LEMMA RequestIds ==
    ASSUME TypeOK, TradeSafety, NEW c \in Clients, Request(c)
    PROVE  IdsKept /\ UNCHANGED trades
<1>1. RowsKept
  BY RequestKeeps
<1>2. CASE AddInsert(c)
  <2>1. req[c].new.trade = 0 /\ nextId \in OrderIds
    BY <1>2, RequestKind DEF AddInsert, AddPcs, AddReq
  <2>2. \A i \in Rows' : i = nextId \/ i \in Rows
    BY <1>2 DEF AddInsert, Rows, TypeOK
  <2>3. orders'[nextId].trade = 0
    BY <1>2, <2>1 DEF AddInsert, TypeOK
  <2> QED
    BY <1>1, <1>2, <2>2, <2>3 DEF AddInsert, IdsKept, RowsKept
<1>3. CASE DelCancel(c)
  <2>1. req[c].oid \in Rows
    BY <1>3 DEF DelCancel, TradeSafety, LockInv
  <2>2. \A i \in Rows' : i \in Rows
    BY <1>3, <2>1 DEF DelCancel, Rows, TypeOK
  <2> QED
    BY <1>1, <1>3, <2>2 DEF DelCancel, IdsKept, RowsKept
<1>4. CASE ~AddInsert(c) /\ ~DelCancel(c)
  BY <1>4 DEF Request, PostOrder, RequestDelete, AddLockUser, AddCheckOk, AddCheckFails,
     AddRespond, DelLockUser, DelNoOrder, DelLockOrder, DelRefused, VictimRequest, dbVars,
     IdsKept, Rows
<1> QED
  BY <1>2, <1>3, <1>4

\* No trade is written and no row gets a trade_id.
LEMMA QuietRecord ==
    ASSUME TypeOK, RowsStatic, RowsFinal, IdsKept, RecordInv, BalanceInv, UNCHANGED trades,
           Unfinished => tr.cand \in Rows,
           cutOff.trades \subseteq cutOff'.trades,
           Unfinished => UNCHANGED tr \/ Len(trades) \in cutOff'.trades,
           Unfinished' => UNCHANGED tr
    PROVE  RecordInv' /\ BalanceInv'
<1>1. Len(trades) \in Nat
  BY DEF TypeOK
<1>2. \A i \in Rows' : orders'[i].trade <= Len(trades)
  BY <1>1 DEF IdsKept, RecordInv
<1>3. \A t \in 1..Len(trades) : SettledBy(t)' = SettledBy(t)
  <2> SUFFICES ASSUME NEW t \in 1..Len(trades) PROVE SettledBy(t)' = SettledBy(t)
    OBVIOUS
  <2>1. t \in Nat \ {0}
    BY <1>1
  <2>2. \A i \in Rows' : orders'[i].trade = t => i \in Rows /\ orders[i].trade = t
    BY <2>1 DEF IdsKept
  <2> QED
    BY <2>1, <2>2, SettledKept
<1>4. ASSUME Unfinished'
      PROVE  /\ Len(trades') # 0 /\ SettledBy(Len(trades))' = {}
             /\ trades'[Len(trades')] = ThisTrade'
  <2>1. UNCHANGED tr /\ Unfinished
    BY <1>4 DEF Unfinished
  <2>2. Len(trades) \in 1..Len(trades)
    BY <1>1, <2>1 DEF RecordInv
  <2>3. SettledBy(Len(trades)) = {} /\ trades[Len(trades)] = ThisTrade
    BY <2>1 DEF RecordInv
  <2>4. SettledBy(Len(trades))' = SettledBy(Len(trades))
    BY <1>3, <2>2 DEF SettledBy
  <2>5. ThisTrade' = ThisTrade
    BY <2>1 DEF ThisTrade, Price, RowsStatic
  <2> QED
    BY <2>1, <2>2, <2>3, <2>4, <2>5 DEF RecordInv
<1>5. ASSUME NEW t \in 1..Len(trades)
      PROVE  \/ Balanced(t)'
             \/ SettledBy(t)' = {} /\ (t \in cutOff'.trades \/ (Unfinished' /\ t = Len(trades)))
  <2>1. SettledBy(t)' = SettledBy(t)
    BY <1>3
  <2>2. Balanced(t) => Balanced(t)'
    BY <2>1, BalancedKept DEF Balanced
  <2>3. Unfinished => Unfinished' \/ Len(trades) \in cutOff'.trades
    BY DEF Unfinished
  <2> QED
    BY <2>1, <2>2, <2>3 DEF BalanceInv
<1> QED
  BY <1>2, <1>4, <1>5 DEF RecordInv, BalanceInv

LEMMA InsertRecord ==
    ASSUME TypeOK, TradeSafety, RowsStatic, RowsFinal, RecordInv, BalanceInv, InsertTrade, ~tr.inTx
    PROVE  RecordInv' /\ BalanceInv'
<1>1. /\ trades' = Append(trades, ThisTrade) /\ UNCHANGED orders
      /\ tr'.pc = "update" /\ tr'.inTx = tr.inTx /\ tr'.cand = tr.cand /\ tr.pc = "insert"
      /\ cutOff' = cutOff
  BY DEF InsertTrade, Goto, NewTrades, ThisTrade, TypeOK, TraderType, TraderUnchanged
<1>2. /\ Len(trades) \in Nat /\ Len(trades') = Len(trades) + 1
      /\ \A t \in 1..Len(trades) : trades'[t] = trades[t]
      /\ trades'[Len(trades) + 1] = ThisTrade
  BY <1>1 DEF TypeOK
<1>3. Unfinished' /\ ~Unfinished /\ ThisTrade' = ThisTrade /\ Rows' = Rows
  BY <1>1 DEF Unfinished, ThisTrade, Price, Rows
<1>4. \A i \in Rows : orders[i].trade <= Len(trades) /\ orders[i].trade \in Nat
  BY RowAmount DEF RecordInv
<1>5. \A t : SettledBy(t)' = SettledBy(t)
  BY <1>1 DEF SettledBy, Rows
<1>6. SettledBy(Len(trades) + 1) = {}
  BY <1>2, <1>4 DEF SettledBy
<1>7. SettledBy(Len(trades))' = {}
  BY <1>1, <1>2, <1>6 DEF SettledBy, Rows
<1>8. RecordInv'
  <2>1. \A i \in Rows' : orders'[i].trade <= Len(trades')
    BY <1>1, <1>2, <1>3, <1>4
  <2>2. Len(trades') # 0 /\ trades'[Len(trades')] = ThisTrade'
    BY <1>2, <1>3
  <2> QED
    BY <1>7, <2>1, <2>2 DEF RecordInv
<1>9. ASSUME NEW t \in 1..Len(trades')
      PROVE  \/ Balanced(t)'
             \/ SettledBy(t)' = {} /\ (t \in cutOff'.trades \/ (Unfinished' /\ t = Len(trades')))
  <2>1. CASE t = Len(trades) + 1
    BY <1>2, <1>3, <1>5, <1>6, <2>1
  <2>2. CASE t # Len(trades) + 1
    <3>1. t \in 1..Len(trades) /\ trades'[t] = trades[t]
      BY <1>2, <2>2
    <3>2. Balanced(t) => Balanced(t)'
      BY <1>5, <3>1, BalancedKept DEF Balanced
    <3>3. Balanced(t) \/ (SettledBy(t) = {} /\ t \in cutOff.trades)
      BY <1>3, <3>1 DEF BalanceInv
    <3> QED
      BY <1>1, <1>5, <3>2, <3>3
  <2> QED
    BY <2>1, <2>2
<1> QED
  BY <1>8, <1>9 DEF BalanceInv

\* The statement that closes the orders: at once, or with the COMMIT.
LEMMA CloseRecord ==
    ASSUME TypeOK, TradeSafety, PlanInv, RowsStatic, RowsFinal, RecordInv, BalanceInv,
           \/ UpdateOrders /\ ~tr.inTx
           \/ CommitTrade /\ tr.inTx
    PROVE  RecordInv' /\ BalanceInv'
<1>1. Len(trades) \in Nat /\ tr.pc \in FullPcs /\ ~Unfinished' /\ cutOff' = cutOff
  BY DEF TypeOK, UpdateOrders, CommitTrade, FullPcs, Unfinished, Goto, At, TraderType,
     TraderUnchanged
<1>2. \A i \in Rows : orders[i].trade <= Len(trades) /\ orders[i].trade \in Nat
  BY RowAmount DEF RecordInv
<1>3. PICK id \in Nat \ {0} :
        /\ SettledBy(id) = {} /\ orders' = Closed(id)
        /\ trades'[id] = ThisTrade /\ Len(trades') = id /\ Len(trades) <= id
        /\ Unfinished => id = Len(trades)
        /\ \A t \in 1..(id - 1) : t \in 1..Len(trades) /\ trades'[t] = trades[t]
  <2>1. CASE UpdateOrders /\ ~tr.inTx
    <3>1. Unfinished
      BY <2>1 DEF UpdateOrders, Unfinished
    <3>2. orders' = Closed(Len(trades)) /\ trades' = trades
      BY <2>1 DEF UpdateOrders
    <3> QED
      <4>1. Len(trades) \in Nat \ {0} /\ Len(trades) <= Len(trades) /\ Len(trades') = Len(trades)
        BY <1>1, <3>1, <3>2 DEF RecordInv
      <4>2. SettledBy(Len(trades)) = {} /\ trades'[Len(trades)] = ThisTrade
        BY <3>1, <3>2 DEF RecordInv
      <4>3. \A t \in 1..(Len(trades) - 1) : t \in 1..Len(trades) /\ trades'[t] = trades[t]
        BY <1>1, <3>2
      <4> QED
        BY <3>2, <4>1, <4>2, <4>3
  <2>2. CASE CommitTrade /\ tr.inTx
    <3>1. orders' = Closed(Len(trades) + 1) /\ trades' = Append(trades, ThisTrade)
      BY <2>2 DEF CommitTrade, NewTrades, ThisTrade
    <3>2. SettledBy(Len(trades) + 1) = {}
      BY <1>1, <1>2 DEF SettledBy
    <3>3. ~Unfinished
      BY <2>2 DEF CommitTrade, Unfinished
    <3>4. /\ Len(trades') = Len(trades) + 1 /\ trades'[Len(trades) + 1] = ThisTrade
          /\ \A t \in 1..Len(trades) : trades'[t] = trades[t]
      BY <3>1 DEF TypeOK
    <3>5. Len(trades) + 1 \in Nat \ {0} /\ Len(trades) <= Len(trades) + 1
      BY <1>1
    <3>6. \A t \in 1..((Len(trades) + 1) - 1) : t \in 1..Len(trades) /\ trades'[t] = trades[t]
      BY <1>1, <3>4
    <3> QED
      BY <3>1, <3>2, <3>3, <3>4, <3>5, <3>6
  <2> QED
    BY <2>1, <2>2
<1>4. /\ Balanced(id)'
      /\ \A i \in Rows' : orders'[i].trade = id \/ (i \in Rows /\ orders'[i].trade = orders[i].trade)
  BY <1>1, <1>3, CloseBalances
<1>6. RecordInv'
  <2>1. \A i \in Rows' : orders'[i].trade <= Len(trades')
    BY <1>1, <1>2, <1>3, <1>4
  <2> QED
    BY <1>1, <2>1 DEF RecordInv
<1>7. ASSUME NEW t \in 1..Len(trades'), t # id
      PROVE  Balanced(t)' \/ (SettledBy(t)' = {} /\ t \in cutOff'.trades)
  <2>1. t \in 1..Len(trades) /\ trades'[t] = trades[t] /\ t \in Nat \ {0}
    BY <1>3, <1>7
  <2>2. \A i \in Rows' : orders'[i].trade = t => i \in Rows /\ orders[i].trade = t
    BY <1>4, <1>7
  <2>3. SettledBy(t)' = SettledBy(t)
    BY <2>1, <2>2, SettledKept
  <2>4. Balanced(t) => Balanced(t)'
    BY <2>1, <2>3, BalancedKept DEF Balanced
  <2>5. ~(Unfinished /\ t = Len(trades))
    BY <1>3, <1>7
  <2> QED
    BY <1>1, <2>1, <2>3, <2>4, <2>5 DEF BalanceInv
<1>8. BalanceInv'
  <2> SUFFICES ASSUME NEW t \in 1..Len(trades')
               PROVE  Balanced(t)' \/ (SettledBy(t)' = {} /\ t \in cutOff'.trades)
    BY DEF BalanceInv
  <2> QED
    BY <1>4, <1>7
<1> QED
  BY <1>6, <1>8

\* Between the two statements only the end of the process can come.
LEMMA UpdateNext ==
    ASSUME TypeOK, [Next]_vars, ~InsertTrade, ~UpdateOrders
    PROVE  /\ tr'.pc = "update" => UNCHANGED tr
           /\ tr.pc = "update" => UNCHANGED tr \/ Exit
<1>1. tr'.pc = "update" => UNCHANGED tr
  <2>1. ASSUME \/ ReserveCandidate \/ SelectTargets \/ ReadTarget \/ LockTargetUser
               \/ ReserveTarget \/ ReserveTargetFails \/ NoOrderForTrade
               \/ CommitAtBank \/ VictimTarget
        PROVE  tr'.pc # "update"
    BY <2>1 DEF ReserveCandidate, SelectTargets, ReadTarget, LockTargetUser, ReserveTarget,
       ReserveTargetFails, NoOrderForTrade, CommitAtBank, VictimTarget, Goto, TypeOK, TraderType
  <2>2. "update" \in PlanPcs
    BY DEF PlanPcs, WorkPcs
  <2> QED
    BY <2>1, <2>2, OtherStep
<1>2. TraderStep /\ tr.pc = "update" => UNCHANGED tr \/ Exit
  BY DEF TraderStep, UpdateLocksRow, VictimUpdate, ReadLowest, ReadHighest, NextCandidate, Return, FinishRun,
     LockCandidate, LockCandidateUser, CandidateClosed, ReserveCandidate,
     ReserveCandidateFails, ScanRow, SelectTargets, ReadTarget, LockTargetUser,
     ReserveTarget, ReserveTargetFails, NoOrderForTrade, CommitAtBank, CommitTrade,
     CancelReserves, CancelAndThrow, VictimCandidate, VictimScan, VictimTarget
<1>3. (\E c \in Clients : Request(c)) \/ UNCHANGED vars => UNCHANGED tr
  BY StillSteps
<1>4. Environment /\ tr.pc = "update" => UNCHANGED tr \/ Exit
  BY DEF Environment, TimerFires, CommitRefused, CommitLost, CancelFails, Crash, Restart,
     Lapse, procVars
<1> QED
  BY <1>1, <1>2, <1>3, <1>4 DEF Next

LEMMA TradesWritten ==
    ASSUME TraderStep \/ Environment \/ UNCHANGED vars,
           ~(InsertTrade /\ ~tr.inTx), ~(CommitTrade /\ tr.inTx)
    PROVE  UNCHANGED trades
BY DEF TraderStep, ReadLowest, ReadHighest, NextCandidate, Return, FinishRun,
   LockCandidate, LockCandidateUser, CandidateClosed, ReserveCandidate,
   ReserveCandidateFails, ScanRow, SelectTargets, ReadTarget, LockTargetUser,
   ReserveTarget, ReserveTargetFails, NoOrderForTrade, InsertTrade, UpdateOrders, CommitAtBank,
   CommitTrade, CancelReserves, CancelAndThrow, VictimCandidate, VictimScan, VictimTarget,
   UpdateLocksRow, VictimUpdate, dbVars, Environment, TimerFires, CommitRefused, CommitLost, CancelFails, Crash, Exit,
   Restart, Lapse, vars

LEMMA StepRecord ==
    ASSUME TypeOK, TradeSafety, PlanInv, RecordInv, BalanceInv, [Next]_vars
    PROVE  RecordInv' /\ BalanceInv'
<1>1. RowsStatic /\ RowsFinal
  BY StepStatic, StepFinal
<1>2. Unfinished => tr.cand \in Rows
  BY PlanRows DEF Unfinished, PlanPcs, WorkPcs
<1>3. CASE (InsertTrade /\ ~tr.inTx) \/ (UpdateOrders /\ ~tr.inTx) \/ (CommitTrade /\ tr.inTx)
  BY <1>1, <1>3, InsertRecord, CloseRecord
<1>4. CASE (InsertTrade \/ UpdateOrders) /\ tr.inTx
  <2>1. UNCHANGED <<orders, trades>> /\ ~Unfinished /\ ~Unfinished'
    BY <1>4 DEF InsertTrade, UpdateOrders, Unfinished, Goto, TypeOK, TraderType
  <2>2. IdsKept
    BY <2>1 DEF IdsKept, Rows
  <2> QED
    BY <1>1, <2>1, <2>2, CutOffGrows, QuietRecord
<1>5. CASE ~InsertTrade /\ ~UpdateOrders /\ ~(CommitTrade /\ tr.inTx)
  <2>1. IdsKept /\ UNCHANGED trades
    <3>1. CASE \E c \in Clients : Request(c)
      BY <3>1, RequestIds
    <3>2. CASE TraderStep \/ Environment \/ UNCHANGED vars
      <4>1. UNCHANGED trades
        BY <1>5, <3>2, TradesWritten
      <4>2. UNCHANGED orders
        BY <1>5, <3>2, OrdersWritten DEF CommitTrade
      <4> QED
        BY <4>1, <4>2 DEF IdsKept, Rows
    <3> QED
      BY <3>1, <3>2 DEF Next
  <2>2. /\ Unfinished => UNCHANGED tr \/ Exit
        /\ Unfinished' => UNCHANGED tr
    BY <1>5, UpdateNext DEF Unfinished
  <2>3. Unfinished => UNCHANGED tr \/ Len(trades) \in cutOff'.trades
    BY <2>2 DEF Unfinished, Exit, HalfTraded
  <2> QED
    BY <1>1, <1>2, <2>1, <2>2, <2>3, CutOffGrows, QuietRecord
<1> QED
  BY <1>3, <1>4, <1>5
-----------------------------------------------------------------------------
(* What the bank settles, when nothing separates its commit from ours:     *)
(* no refused commit, no lost answer, no crash.                            *)

CommitsMeet == Faults \cap {"commit_refused", "commit_lost", "crash"} = {}

Paid(i) == {e \in ledger : e.ref = i}
PaidIds == {e.id : e \in ledger}
PaidRight(i) ==
    \E n \in PaidIds :
        Paid(i) = {[id |-> n, acct |-> orders[i].user, ref |-> i,
                    amount |-> Cost(i, trades[orders[i].trade].price)]}
PaidRow(i) == IF i \in Rows /\ orders[i].trade # 0 THEN PaidRight(i) ELSE Paid(i) = {}

\* The orders of the trade in hand are in one of the tables and not yet, or no
\* longer, in the other.
BetweenCommits == tr.pc \in {"bank", "commit"}
PaidRows == \A i \in OrderIds : ~(BetweenCommits /\ i \in Traded) => PaidRow(i)
PaidWork ==
    /\ BetweenCommits /\ ~tr.inTx =>
         /\ Len(trades) # 0 /\ trades[Len(trades)].price = Price
         /\ \A i \in Traded : orders[i].trade = Len(trades)
    /\ tr.pc = "bank" => \A i \in Traded : Paid(i) = {}
    /\ tr.pc = "commit" => \A i \in Traded : \E n \in PaidIds : Paid(i) = {Paying(i, n)}
PaidInv == PaidRows /\ PaidWork

TradesGrow == \A t \in 1..Len(trades) : t \in 1..Len(trades') /\ trades'[t] = trades[t]

\* What an order in a trade was settled at does not change.
LEMMA PaidRowKept ==
    ASSUME TypeOK, RowsFinal, RecordInv, TradesGrow, NEW i \in OrderIds, PaidRow(i),
           Paid(i)' = Paid(i), PaidIds \subseteq PaidIds',
           i \in Rows' /\ orders'[i].trade # 0 => i \in Rows /\ orders[i].trade = orders'[i].trade,
           i \in Rows => i \in Rows'
    PROVE  PaidRow(i)'
<1>1. CASE i \in Rows /\ orders[i].trade # 0
  <2>1. orders'[i] = orders[i] /\ i \in Rows'
    BY <1>1 DEF RowsFinal, Rows
  <2>2. orders[i].trade \in 1..Len(trades)
    BY <1>1, RowAmount DEF RecordInv, TypeOK
  <2>3. trades'[orders'[i].trade] = trades[orders[i].trade]
    BY <2>1, <2>2 DEF TradesGrow
  <2>4. PaidRight(i)
    BY <1>1 DEF PaidRow
  <2>5. PICK n \in PaidIds :
          Paid(i) = {[id |-> n, acct |-> orders[i].user, ref |-> i,
                      amount |-> Cost(i, trades[orders[i].trade].price)]}
    BY <2>4 DEF PaidRight
  <2>6. Paid(i)' = {[id |-> n, acct |-> orders'[i].user, ref |-> i,
                     amount |-> Cost(i, trades[orders[i].trade].price)']}
    BY <2>1, <2>3, <2>5 DEF Cost
  <2>7. PaidRight(i)'
    BY <2>5, <2>6 DEF PaidRight
  <2> QED
    BY <1>1, <2>1, <2>7 DEF PaidRow
<1>2. CASE ~(i \in Rows /\ orders[i].trade # 0)
  BY <1>2 DEF PaidRow
<1> QED
  BY <1>1, <1>2

\* A step away from both commits.
LEMMA QuietPaid ==
    ASSUME TypeOK, TradeSafety, RowsStatic, RowsFinal, RecordInv, PaidInv, IdsKept, TradesGrow,
           UNCHANGED ledger,
           BetweenCommits \/ BetweenCommits' => UNCHANGED <<tr, trades>>
    PROVE  PaidInv'
<1>1. ASSUME NEW i \in OrderIds, ~(BetweenCommits' /\ i \in Traded') PROVE PaidRow(i)'
  <2>1. PaidRow(i)
    BY <1>1 DEF PaidInv, PaidRows, BetweenCommits, Traded
  <2>2. Paid(i)' = Paid(i) /\ PaidIds' = PaidIds
    BY DEF Paid, PaidIds
  <2>3. i \in Rows' /\ orders'[i].trade # 0 => i \in Rows /\ orders[i].trade = orders'[i].trade
    BY DEF IdsKept
  <2> QED
    BY <2>1, <2>2, <2>3, PaidRowKept DEF RowsStatic
<1>2. ASSUME BetweenCommits' PROVE PaidWork'
  <2>1. UNCHANGED <<tr, trades, ledger>> /\ tr.pc \in PlanPcs /\ BetweenCommits
    BY <1>2 DEF BetweenCommits, PlanPcs, WorkPcs
  <2>2. tr.cand \in Rows /\ Traded \subseteq Rows /\ Traded' = Traded
    BY <2>1, PlanRows DEF Traded
  <2>3. Price' = Price
    BY <2>1, <2>2 DEF Price, RowsStatic
  <2>4. \A i \in Traded : \A n : Paying(i, n)' = Paying(i, n)
    BY <2>1, <2>2, <2>3 DEF Paying, Cost, RowsStatic
  <2>5. \A i \in Traded : orders[i].trade # 0 => orders'[i].trade = orders[i].trade
    BY <2>2 DEF RowsFinal, Rows
  <2>6. Paid(0)' = Paid(0) /\ PaidIds' = PaidIds /\ \A i : Paid(i)' = Paid(i)
    BY <2>1 DEF Paid, PaidIds
  <2>7. ~tr.inTx => \A i \in Traded' : orders'[i].trade = Len(trades')
    BY <2>1, <2>2, <2>5 DEF PaidInv, PaidWork
  <2>8. tr.pc = "bank" => \A i \in Traded' : Paid(i)' = {}
    BY <2>2, <2>6 DEF PaidInv, PaidWork
  <2>9. tr.pc = "commit" => \A i \in Traded' : \E n \in PaidIds' : Paid(i)' = {Paying(i, n)'}
    BY <2>2, <2>4, <2>6 DEF PaidInv, PaidWork
  <2> QED
    BY <2>1, <2>3, <2>7, <2>8, <2>9 DEF PaidInv, PaidWork
<1>3. ~BetweenCommits' => PaidWork'
  BY DEF PaidWork, BetweenCommits
<1> QED
  BY <1>1, <1>2, <1>3 DEF PaidInv, PaidRows

\* The orders of the trade are closed, and the bank not asked yet.
LEMMA UpdatePaid ==
    ASSUME TypeOK, TradeSafety, PlanInv, RowsStatic, RowsFinal, RecordInv, PaidInv, UpdateOrders
    PROVE  PaidInv'
<1>1. /\ tr.pc = "update" /\ tr'.pc = "bank" /\ tr'.inTx = tr.inTx /\ tr'.cand = tr.cand
      /\ tr'.targets = tr.targets /\ UNCHANGED <<trades, ledger>>
  BY DEF UpdateOrders, Goto, TypeOK, TraderType, bankVars
<1>2. Traded' = Traded /\ Traded \subseteq Rows /\ tr.cand \in Rows /\ Len(trades) \in Nat
  BY <1>1, PlanRows DEF Traded, PlanPcs, WorkPcs, TypeOK
<1>3. \A i \in Traded : orders[i].trade = 0
  BY <1>1, TraderPart DEF TraderSafe, Traded
<1>4. \A i \in OrderIds : PaidRow(i)
  BY <1>1 DEF PaidInv, PaidRows, BetweenCommits
<1>5. PaidIds' = PaidIds /\ \A i : Paid(i)' = Paid(i)
  BY <1>1 DEF Paid, PaidIds
<1>6. \A i \in Traded' : Paid(i)' = {}
  BY <1>2, <1>3, <1>4, <1>5 DEF PaidRow, Rows
<1>7. \A i \in OrderIds : i \notin Traded => orders'[i] = orders[i]
  BY DEF UpdateOrders, Closed
<1>8. ASSUME NEW i \in OrderIds, i \notin Traded PROVE PaidRow(i)'
  <2>1. TradesGrow
    BY <1>1 DEF TradesGrow
  <2>2. Paid(i)' = Paid(i) /\ PaidIds' = PaidIds
    BY <1>5
  <2>3. (i \in Rows' <=> i \in Rows) /\ orders'[i] = orders[i]
    BY <1>7, <1>8 DEF Rows
  <2> QED
    BY <1>4, <2>1, <2>2, <2>3, PaidRowKept
<1>9. ASSUME ~tr.inTx
      PROVE  /\ Len(trades') # 0 /\ trades'[Len(trades')].price = Price'
             /\ \A i \in Traded' : orders'[i].trade = Len(trades')
  <2>1. /\ Len(trades) # 0 /\ trades[Len(trades)] = ThisTrade
    BY <1>1, <1>9 DEF RecordInv, Unfinished
  <2>2. orders' = Closed(Len(trades))
    BY <1>9 DEF UpdateOrders
  <2>3. Price' = Price /\ ThisTrade.price = Price
    BY <1>1, <1>2 DEF Price, RowsStatic, ThisTrade
  <2>4. \A i \in Traded : orders'[i].trade = Len(trades)
    BY <1>2, <2>2, RowAmount DEF Closed, Row
  <2> QED
    BY <1>1, <1>2, <2>1, <2>3, <2>4
<1> QED
  BY <1>1, <1>2, <1>6, <1>8, <1>9 DEF PaidInv, PaidRows, PaidWork, BetweenCommits

\* The bank settles the plan: one entry for each of its orders, and no other.
LEMMA SettlePaid ==
    ASSUME TypeOK, TradeSafety, PlanInv, BankInv, RowsStatic, RowsFinal, RecordInv, PaidInv,
           CommitAtBank
    PROVE  PaidInv'
<1>1. /\ tr.pc = "bank" /\ tr'.pc = "commit" /\ tr'.inTx = tr.inTx /\ tr'.cand = tr.cand
      /\ tr'.targets = tr.targets /\ UNCHANGED <<trades, orders>>
      /\ ledger' = ledger \cup Own
  BY DEF CommitAtBank, Goto, TypeOK, TraderType, dbVars, Bank!Commit, Own
<1>2. Traded' = Traded /\ Price' = Price /\ Rows' = Rows
  BY <1>1 DEF Traded, Price, Rows
<1>3. \A e \in Own : e.ref \in Traded
  BY <1>1 DEF BankInv, BankWork, ReservePcs, WorkPcs
<1>4. \A i \in Traded : \E n \in tr.reserves : OwnFor(i) = {Paying(i, n)}
  BY <1>1, NothingOwed
<1>5. PaidIds \subseteq PaidIds' /\ \A e \in Own : e.id \in PaidIds'
  BY <1>1 DEF PaidIds
<1>6. \A i : Paid(i)' = Paid(i) \cup OwnFor(i)
  BY <1>1 DEF Paid, OwnFor
<1>7. ASSUME NEW i \in OrderIds, i \notin Traded PROVE PaidRow(i)'
  <2>1. OwnFor(i) = {}
    BY <1>3, <1>7 DEF OwnFor
  <2>2. Paid(i)' = Paid(i) /\ PaidRow(i) /\ TradesGrow
    BY <1>1, <1>6, <1>7, <2>1 DEF PaidInv, PaidRows, TradesGrow
  <2> QED
    BY <1>1, <1>2, <1>5, <2>2, PaidRowKept
<1>8. ASSUME NEW i \in Traded' PROVE \E n \in PaidIds' : Paid(i)' = {Paying(i, n)'}
  <2>1. PICK n \in tr.reserves : OwnFor(i) = {Paying(i, n)}
    BY <1>2, <1>4
  <2>2. Paid(i)' = {Paying(i, n)}
    BY <1>1, <1>2, <1>6, <2>1 DEF PaidInv, PaidWork
  <2>3. n \in PaidIds'
    <3>1. Paying(i, n) \in Own
      BY <2>1 DEF OwnFor
    <3>2. Paying(i, n).id = n
      BY DEF Paying
    <3> QED
      BY <1>5, <3>1, <3>2
  <2>4. Paying(i, n)' = Paying(i, n)
    BY <1>1, <1>2 DEF Paying, Cost
  <2> QED
    BY <2>2, <2>3, <2>4
<1>9. ~tr.inTx => /\ Len(trades') # 0 /\ trades'[Len(trades')].price = Price'
                  /\ \A i \in Traded' : orders'[i].trade = Len(trades')
  BY <1>1, <1>2 DEF PaidInv, PaidWork, BetweenCommits
<1> QED
  BY <1>1, <1>2, <1>7, <1>8, <1>9 DEF PaidInv, PaidRows, PaidWork, BetweenCommits

\* COMMIT: what was settled at the bank is now what the trade says.
LEMMA CommitPaid ==
    ASSUME TypeOK, TradeSafety, PlanInv, RowsStatic, RowsFinal, RecordInv, PaidInv, CommitTrade
    PROVE  PaidInv'
<1>1. tr.pc = "commit" /\ tr'.pc = "lowest" /\ UNCHANGED ledger
  BY AtRest DEF CommitTrade, At, bankVars
<1>2. Traded \subseteq Rows /\ tr.cand \in Rows /\ Len(trades) \in Nat
  BY <1>1, PlanRows DEF Traded, PlanPcs, WorkPcs, TypeOK
<1>3. PaidIds' = PaidIds /\ \A i : Paid(i)' = Paid(i)
  BY <1>1 DEF Paid, PaidIds
<1>4. TradesGrow
  BY <1>2 DEF CommitTrade, NewTrades, TradesGrow, TypeOK
<1>5. ASSUME NEW i \in OrderIds, i \notin Traded PROVE PaidRow(i)'
  <2>1. orders'[i] = orders[i] /\ (i \in Rows' <=> i \in Rows)
    BY <1>5 DEF CommitTrade, Closed, Rows
  <2>2. PaidRow(i)
    BY <1>5 DEF PaidInv, PaidRows
  <2> QED
    BY <1>3, <1>4, <2>1, <2>2, PaidRowKept
<1>6. PICK id \in Nat \ {0} :
        trades'[id].price = Price /\ \A i \in Traded : orders'[i].trade = id
  <2>1. CASE tr.inTx
    <3>1. trades'[Len(trades) + 1].price = Price
      BY <2>1, <1>2 DEF CommitTrade, NewTrades, TypeOK
    <3>2. \A i \in Traded : orders'[i].trade = Len(trades) + 1
      BY <2>1, <1>2, RowAmount DEF CommitTrade, Closed, Row
    <3> QED
      BY <1>2, <3>1, <3>2
  <2>2. CASE ~tr.inTx
    <3>1. UNCHANGED <<orders, trades>>
      BY <2>2 DEF CommitTrade
    <3>2. Len(trades) # 0 /\ trades[Len(trades)].price = Price
          /\ \A i \in Traded : orders[i].trade = Len(trades)
      BY <1>1, <2>2 DEF PaidInv, PaidWork, BetweenCommits
    <3> QED
      BY <1>2, <3>1, <3>2
  <2> QED
    BY <2>1, <2>2
<1>7. ASSUME NEW i \in Traded PROVE PaidRow(i)'
  <2>1. PICK n \in PaidIds : Paid(i) = {Paying(i, n)}
    BY <1>1 DEF PaidInv, PaidWork
  <2>2. i \in Rows /\ i \in Rows' /\ orders'[i].trade = id /\ orders'[i].trade # 0
    BY <1>2, <1>6 DEF RowsStatic
  <2>3. Paying(i, n) = [id |-> n, acct |-> orders'[i].user, ref |-> i,
                        amount |-> Cost(i, trades[orders[i].trade].price)']
    BY <1>6, <2>2 DEF Paying, Cost, RowsStatic
  <2>4. PaidRight(i)'
    BY <1>3, <2>1, <2>3 DEF PaidRight
  <2> QED
    BY <2>2, <2>4 DEF PaidRow
<1> QED
  BY <1>1, <1>5, <1>7 DEF PaidInv, PaidRows, PaidWork, BetweenCommits

\* The bank settles, the trade in hand changes and the two meet in three steps.
LEMMA OtherPaid ==
    ASSUME CommitsMeet, TypeOK, TradeSafety, [Next]_vars,
           ~UpdateOrders, ~CommitAtBank, ~CommitTrade
    PROVE  /\ UNCHANGED ledger /\ IdsKept /\ TradesGrow
           /\ BetweenCommits \/ BetweenCommits' => UNCHANGED <<tr, trades>>
<1>1. ~CommitRefused /\ ~CommitLost /\ ~Crash
  BY DEF CommitsMeet, CommitRefused, CommitLost, Crash
<1>2. UNCHANGED ledger
  <2>1. CASE TraderStep
    BY <2>1 DEF TraderStep, ReadLowest, ReadHighest, NextCandidate, Return, FinishRun,
       LockCandidate, LockCandidateUser, CandidateClosed, ReserveCandidate,
       ReserveCandidateFails, ReserveFails, Reserve, Bank!Reserve, ScanRow, SelectTargets,
       ReadTarget, LockTargetUser, ReserveTarget, ReserveTargetFails, NoOrderForTrade,
       InsertTrade, UpdateLocksRow, CancelReserves, CancelAndThrow, Bank!Cancel,
       VictimCandidate, VictimScan, VictimTarget, VictimUpdate, bankVars
  <2>2. CASE Environment
    BY <1>1, <2>2 DEF Environment, TimerFires, CancelFails, Restart, Lapse, Bank!Lapse, bankVars
  <2>3. CASE (\E c \in Clients : Request(c)) \/ UNCHANGED vars
    BY <2>3, StillSteps
  <2> QED
    BY <2>1, <2>2, <2>3 DEF Next
<1>3. CASE \E c \in Clients : Request(c)
  <2>1. IdsKept /\ UNCHANGED trades
    BY <1>3, RequestIds
  <2>2. UNCHANGED tr
    BY <1>3, StillSteps
  <2> QED
    BY <1>2, <2>1, <2>2 DEF TradesGrow
<1>4. CASE TraderStep \/ Environment \/ UNCHANGED vars
  <2>1. IdsKept
    <3>1. UNCHANGED orders
      BY <1>4, OrdersWritten
    <3> QED
      BY <3>1 DEF IdsKept, Rows
  <2>2. TradesGrow /\ (~InsertTrade => UNCHANGED trades)
    <3>1. Len(trades) \in Nat /\ trades \in Seq([amount : Nat \ {0}, price : Nat \ {0}])
      BY DEF TypeOK
    <3>2. CASE InsertTrade /\ ~tr.inTx
      BY <3>1, <3>2 DEF InsertTrade, NewTrades, TradesGrow
    <3>3. CASE ~(InsertTrade /\ ~tr.inTx)
      BY <1>4, <3>3, TradesWritten DEF TradesGrow, InsertTrade
    <3> QED
      BY <3>2, <3>3
  <2>3. BetweenCommits => UNCHANGED tr /\ ~InsertTrade
    <3>1. TraderStep => ~BetweenCommits
      BY DEF TraderStep, ReadLowest, ReadHighest, NextCandidate, Return, FinishRun,
         LockCandidate, LockCandidateUser, CandidateClosed, ReserveCandidate,
         ReserveCandidateFails, ScanRow, SelectTargets, ReadTarget, LockTargetUser,
         ReserveTarget, ReserveTargetFails, NoOrderForTrade, InsertTrade, UpdateLocksRow,
         CancelReserves, CancelAndThrow, VictimCandidate, VictimScan, VictimTarget,
         VictimUpdate, BetweenCommits
    <3>2. Environment /\ BetweenCommits => UNCHANGED tr
      BY <1>1 DEF Environment, TimerFires, CancelFails, Restart, Lapse, procVars, BetweenCommits
    <3>3. UNCHANGED vars => UNCHANGED tr
      BY DEF vars, procVars
    <3>4. InsertTrade => ~BetweenCommits
      BY DEF InsertTrade, BetweenCommits
    <3> QED
      BY <1>4, <3>1, <3>2, <3>3, <3>4
  <2>4. BetweenCommits' => UNCHANGED tr /\ ~InsertTrade
    <3>1. ASSUME \/ ReserveCandidate \/ SelectTargets \/ ReadTarget \/ LockTargetUser
                 \/ ReserveTarget \/ ReserveTargetFails \/ NoOrderForTrade
                 \/ InsertTrade \/ VictimTarget
          PROVE  ~BetweenCommits'
      BY <3>1 DEF ReserveCandidate, SelectTargets, ReadTarget, LockTargetUser, ReserveTarget,
         ReserveTargetFails, NoOrderForTrade, InsertTrade, VictimTarget, Goto, TypeOK,
         TraderType, BetweenCommits
    <3>2. "bank" \in PlanPcs /\ "commit" \in PlanPcs
      BY DEF PlanPcs, WorkPcs
    <3> QED
      BY <3>1, <3>2, OtherStep DEF BetweenCommits
  <2> QED
    BY <1>2, <2>1, <2>2, <2>3, <2>4
<1> QED
  BY <1>3, <1>4 DEF Next

LEMMA StepPaid ==
    ASSUME CommitsMeet, TypeOK, TradeSafety, PlanInv, BankInv, RecordInv, PaidInv, [Next]_vars
    PROVE  PaidInv'
<1>1. RowsStatic /\ RowsFinal
  BY StepStatic, StepFinal
<1>2. CASE UpdateOrders
  BY <1>1, <1>2, UpdatePaid
<1>3. CASE CommitAtBank
  BY <1>1, <1>3, SettlePaid
<1>4. CASE CommitTrade
  BY <1>1, <1>4, CommitPaid
<1>5. CASE ~UpdateOrders /\ ~CommitAtBank /\ ~CommitTrade
  BY <1>1, <1>5, OtherPaid, QuietPaid
<1> QED
  BY <1>2, <1>3, <1>4, <1>5
-----------------------------------------------------------------------------
(* What is reserved, when every answer to a reservation arrives.  What a    *)
(* process had reserved when it ended is nobody's any more.                *)

NothingLost == "reserve_lost" \notin Faults
StrandInv == \A e \in rsv : e.id \in tr.reserves \cup cutOff.reserves

\* Nothing is reserved beyond what tryTrade knows of, before or after.
LEMMA StrandKept ==
    ASSUME StrandInv, rsv' \subseteq rsv, cutOff.reserves \subseteq cutOff'.reserves,
           \/ tr'.reserves = tr.reserves \/ tr.reserves = {}
           \/ tr.reserves \subseteq cutOff'.reserves
           \/ \A e \in rsv' : e.id \in cutOff.reserves
    PROVE  StrandInv'
BY DEF StrandInv

LEMMA StrandMore ==
    ASSUME TypeOK, BankInv, StrandInv, NEW i \in Rows, tr.cand \in Rows, Reserve(i),
           tr'.reserves = tr.reserves \cup {nextRsv}, cutOff.reserves \subseteq cutOff'.reserves
    PROVE  StrandInv'
<1>1. rsv' = rsv \cup {Paying(i, nextRsv)}
  BY ReserveTables DEF BankInv
<1> QED
  BY <1>1 DEF StrandInv, Paying

LEMMA StepStrand ==
    ASSUME NothingLost, TypeOK, TradeSafety, BankInv, StrandInv, [Next]_vars
    PROVE  StrandInv'
<1>1. cutOff.reserves \subseteq cutOff'.reserves
  BY CutOffGrows
<1>2. \A i : ReserveFails(i) => UNCHANGED bankVars
  BY DEF NothingLost, ReserveFails
<1>3. /\ tr.pc \notin ReservePcs /\ tr.pc # "commit" => tr.reserves = {}
      /\ tr.pc = "commit" => Own = {}
  BY DEF BankInv, BankWork
<1>4. Own = {} => \A e \in rsv : e.id \in cutOff.reserves
  BY DEF StrandInv, Own
<1>5. CASE \/ \E c \in Clients : Request(c)
           \/ Return \/ UpdateLocksRow \/ Lapse \/ UNCHANGED vars
  BY <1>1, <1>5, StillSteps, StrandKept
<1>6. CASE TraderStep
  <2>1. CASE \/ LockCandidate \/ LockCandidateUser \/ ScanRow \/ SelectTargets \/ ReadTarget
             \/ LockTargetUser \/ NoOrderForTrade \/ ReserveTargetFails
             \/ InsertTrade \/ UpdateOrders \/ VictimScan \/ VictimTarget
    <3>1. UNCHANGED bankVars /\ tr'.reserves = tr.reserves
      BY <1>2, <2>1 DEF LockCandidate, LockCandidateUser, ScanRow, SelectTargets, ReadTarget,
         LockTargetUser, NoOrderForTrade, ReserveTargetFails, InsertTrade, UpdateOrders,
         VictimScan, VictimTarget, Goto, TypeOK, TraderType
    <3> QED
      BY <1>1, <3>1, StrandKept DEF bankVars
  <2>2. CASE \/ ReadLowest \/ ReadHighest \/ NextCandidate \/ FinishRun \/ CandidateClosed
             \/ VictimCandidate \/ ReserveCandidateFails
    <3>1. UNCHANGED bankVars
      BY <1>2, <2>2 DEF ReadLowest, ReadHighest, NextCandidate, FinishRun, CandidateClosed,
         VictimCandidate, ReserveCandidateFails
    <3>2. tr.pc \notin ReservePcs /\ tr.pc # "commit"
      BY <2>2 DEF ReadLowest, ReadHighest, NextCandidate, FinishRun, CandidateClosed,
         VictimCandidate, ReserveCandidateFails, ReservePcs, WorkPcs
    <3> QED
      BY <1>1, <1>3, <3>1, <3>2, StrandKept DEF bankVars
  <2>3. CASE ReserveCandidate
    <3>1. tr.cand \in Rows /\ tr.pc = "reserve"
      BY <2>3, TraderPart DEF ReserveCandidate, TraderSafe, TryPcs, TraderPcs
    <3>2. tr'.reserves = tr.reserves \cup {nextRsv} /\ Reserve(tr.cand)
      BY <1>3, <2>3, <3>1 DEF ReserveCandidate, ReservePcs, WorkPcs, TypeOK, TraderType
    <3> QED
      BY <1>1, <3>1, <3>2, StrandMore
  <2>4. CASE ReserveTarget
    <3>1. tr.cand \in Rows /\ tr.to \in Rows
      BY <2>4, PlanRows DEF ReserveTarget, PlanPcs, WorkPcs
    <3>2. tr'.reserves = tr.reserves \cup {nextRsv} /\ Reserve(tr.to)
      BY <2>4 DEF ReserveTarget, TypeOK, TraderType
    <3> QED
      BY <1>1, <3>1, <3>2, StrandMore
  <2>5. CASE CommitAtBank \/ CancelReserves \/ CancelAndThrow
    <3>1. rsv' = {e \in rsv : e.id \notin tr.reserves}
      BY <2>5 DEF CommitAtBank, CancelReserves, CancelAndThrow, Bank!Commit, Bank!Cancel
    <3>2. rsv' \subseteq rsv /\ \A e \in rsv' : e.id \in cutOff.reserves
      BY <3>1 DEF StrandInv
    <3> QED
      BY <1>1, <3>2, StrandKept
  <2>6. CASE CommitTrade
    <3>1. rsv' = rsv /\ \A e \in rsv : e.id \in cutOff.reserves
      BY <1>3, <1>4, <2>6 DEF CommitTrade, bankVars
    <3> QED
      BY <1>1, <3>1, StrandKept
  <2>7. CASE Return \/ UpdateLocksRow
    BY <1>5, <2>7
  <2>8. CASE VictimUpdate
    <3>1. tr.reserves \subseteq cutOff'.reserves /\ rsv' = rsv
      BY <2>8 DEF VictimUpdate, Exit, bankVars
    <3> QED
      BY <1>1, <3>1, StrandKept
  <2> QED
    BY <1>6, <2>1, <2>2, <2>3, <2>4, <2>5, <2>6, <2>7, <2>8 DEF TraderStep
<1>7. CASE Environment
  <2>1. CASE CommitRefused \/ CommitLost \/ CancelFails \/ Crash
    <3>1. rsv' \subseteq rsv /\ tr.reserves \subseteq cutOff'.reserves
      BY <2>1 DEF CommitRefused, CommitLost, CancelFails, Crash, Exit, Bank!Commit, bankVars
    <3> QED
      BY <1>1, <3>1, StrandKept
  <2>2. CASE TimerFires \/ Restart
    <3>1. UNCHANGED bankVars /\ tr.pc \notin ReservePcs /\ tr.pc # "commit"
      BY <2>2 DEF TimerFires, Restart, ReservePcs, WorkPcs
    <3> QED
      BY <1>1, <1>3, <3>1, StrandKept DEF bankVars
  <2> QED
    BY <1>5, <1>7, <2>1, <2>2 DEF Environment
<1> QED
  BY <1>5, <1>6, <1>7 DEF Next
-----------------------------------------------------------------------------
LEMMA InitPayments ==
    ASSUME Init
    PROVE  PlanInv /\ BankInv /\ RecordInv /\ BalanceInv /\ PaidInv /\ StrandInv
<1>1. /\ tr.pc = "off" /\ tr.reserves = {} /\ trades = <<>>
      /\ rsv = {} /\ ledger = {} /\ nextRsv = 1
      /\ \A i \in Rows : orders[i].trade = 0
  <2>1. PICK book \in Books :
          orders = [i \in OrderIds |-> IF i <= Len(book) THEN NewRow(book[i]) ELSE NoRow]
    BY DEF Init
  <2>2. \A i \in Rows : orders[i].trade = 0
    BY <2>1 DEF Rows, NewRow
  <2> QED
    BY <2>2 DEF Init, At, Bank!BankInit
<1>2. PlanInv
  BY <1>1 DEF PlanInv, PlanTargets, PlanNext, PlanPcs, WorkPcs, FullPcs
<1>3. BankInv
  <2>1. Bank!Total({}) = 0
    BY TotalFacts, FS_EmptySet
  <2>2. BankTables
    BY <1>1, <2>1, FS_EmptySet DEF BankTables
  <2>3. BankWork
    BY <1>1 DEF BankWork, ReservePcs, WorkPcs
  <2> QED
    BY <2>2, <2>3 DEF BankInv
<1>4. RecordInv /\ BalanceInv
  BY <1>1 DEF RecordInv, BalanceInv, Unfinished
<1>5. PaidInv /\ StrandInv
  BY <1>1 DEF PaidInv, PaidRows, PaidRow, PaidWork, Paid, BetweenCommits, StrandInv
<1> QED
  BY <1>2, <1>3, <1>4, <1>5

\* What tryTrade plans, what it has reserved for the plan, what the tables
\* record of a trade and what the bank has settled, each kept by every handler,
\* every statement of the run and every fault, with what the others say.
PaymentSafety == PlanInv /\ BankInv /\ RecordInv /\ BalanceInv

\* PaymentSafety is an invariant, whatever fails.
THEOREM ExchangePayments == Spec => [](TypeOK /\ TradeSafety /\ PaymentSafety)
<1>1. Init => PaymentSafety
  BY InitPayments DEF PaymentSafety
<1>2. TypeOK /\ TradeSafety /\ PaymentSafety /\ [Next]_vars => PaymentSafety'
  <2> SUFFICES ASSUME TypeOK, TradeSafety, PaymentSafety, [Next]_vars PROVE PaymentSafety'
    OBVIOUS
  <2>1. PlanInv /\ BankInv /\ RecordInv /\ BalanceInv
    BY DEF PaymentSafety
  <2> QED
    BY <2>1, StepPlan, StepBank, StepRecord DEF PaymentSafety
<1> QED
  BY <1>1, <1>2, ExchangeInvariant, PTL DEF Spec

\* The settled reservations add up to nothing, at every moment and whatever
\* fails: the bank never pays a seller what it does not take from the buyers.
THEOREM ExchangeMoneyConserved == Spec => []MoneyConserved
<1>1. PaymentSafety => MoneyConserved
  BY DEF PaymentSafety, BankInv, BankTables, MoneyConserved
<1> QED
  BY <1>1, ExchangePayments, PTL

\* Every trade buys as many chairs as it sells, as many as it records, each at a
\* price its owner asked for -- or is still without its orders, or for ever, when
\* its process ended between the two statements of the autocommit mode.
THEOREM ExchangeTradesBalanced == Spec => []TradesBalanced
<1>1. PaymentSafety => TradesBalanced
  <2> SUFFICES ASSUME BalanceInv, NEW t \in 1..Len(trades)
               PROVE  \/ Balances(SettledBy(t), trades[t])
                      \/ SettledBy(t) = {} /\ t \in cutOff.trades \cup HalfTraded
    BY DEF PaymentSafety, TradesBalanced, Balances
  <2> QED
    BY DEF BalanceInv, Balanced, Unfinished, HalfTraded
<1> QED
  BY <1>1, ExchangePayments, PTL

\* Every traded order is settled by exactly one entry, of its amount at the price
\* of its trade, and no entry is without its trade, as long as the bank neither
\* refuses a commit nor loses its answer, and the process does not crash.
THEOREM ExchangePaidExactlyOnce ==
    ASSUME CommitsMeet
    PROVE  Spec => []PaidExactlyOnce
<1>1. Init => PaidInv
  BY InitPayments
<1>2. TypeOK /\ TradeSafety /\ PaymentSafety /\ PaidInv /\ [Next]_vars => PaidInv'
  BY StepPaid DEF PaymentSafety
<1>3. PaidInv => PaidExactlyOnce
  <2> SUFFICES ASSUME PaidInv, tr.pc \notin {"bank", "commit"}, NEW i \in OrderIds
               PROVE  IF i \in Rows /\ orders[i].trade # 0
                      THEN \E n \in {e.id : e \in Paid(i)} :
                             Paid(i) = {[id |-> n, acct |-> orders[i].user, ref |-> i,
                                         amount |-> Cost(i, trades[orders[i].trade].price)]}
                      ELSE Paid(i) = {}
    BY DEF PaidExactlyOnce, Paid
  <2>1. PaidRow(i)
    BY DEF PaidInv, PaidRows, BetweenCommits
  <2>2. CASE i \in Rows /\ orders[i].trade # 0
    <3>1. PICK n \in PaidIds :
            Paid(i) = {[id |-> n, acct |-> orders[i].user, ref |-> i,
                        amount |-> Cost(i, trades[orders[i].trade].price)]}
      BY <2>1, <2>2 DEF PaidRow, PaidRight
    <3>2. n \in {e.id : e \in Paid(i)}
      BY <3>1
    <3> QED
      BY <2>2, <3>1, <3>2
  <2> QED
    BY <2>1, <2>2 DEF PaidRow
<1> QED
  BY <1>1, <1>2, <1>3, ExchangePayments, PTL DEF Spec

\* The running tryTrade knows every reservation alive at the bank, and for which
\* order of its plan it is, but for those a process had when it ended, as long as
\* no answer to a reservation is lost.
THEOREM ExchangeNoStrandedReserve ==
    ASSUME NothingLost
    PROVE  Spec => []NoStrandedReserve
<1>1. Init => StrandInv
  BY InitPayments
<1>2. TypeOK /\ TradeSafety /\ PaymentSafety /\ StrandInv /\ [Next]_vars => StrandInv'
  BY StepStrand DEF PaymentSafety
<1>3. PaymentSafety /\ StrandInv => NoStrandedReserve
  <2> SUFFICES ASSUME BankInv, StrandInv, NEW e \in rsv, e.id \notin cutOff.reserves
               PROVE  e.id \in tr.reserves /\ e.ref \in Traded
    BY DEF PaymentSafety, NoStrandedReserve
  <2>1. e \in Own /\ e.id \in tr.reserves
    BY DEF StrandInv, Own
  <2>2. tr.pc \in ReservePcs
    BY <2>1 DEF BankInv, BankWork
  <2> QED
    BY <2>1, <2>2 DEF BankInv, BankWork
<1> QED
  BY <1>1, <1>2, <1>3, ExchangePayments, PTL DEF Spec
=============================================================================
