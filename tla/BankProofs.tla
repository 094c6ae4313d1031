----------------------------- MODULE BankProofs -----------------------------
(***************************************************************************)
(* Theorems about Bank for every number of users and clients, every batch  *)
(* of reservations and every life time of one.                             *)
(***************************************************************************)
EXTENDS Bank, SumTheorems, TLAPS

\* An id not given out yet is in no use, and expire_at follows created_at.
FreshInv ==
    /\ \A i \in Ids : i >= nextId => uses[i] = 0
    /\ \A e \in rsv : e.expire = Expire(e.made)
SettleInv == TablesOK /\ RowsGuarded /\ SettledOnce /\ FreshInv

LEMMA InitSettle == Init => SettleInv
<1> SUFFICES ASSUME Init PROVE SettleInv
  OBVIOUS
<1> USE BankAssumption
<1>1. PICK s \in Starts :
        /\ rsv = {[id |-> i, acct |-> s[i].acct, amount |-> s[i].amount,
                   made |-> 0, expire |-> Expire(0)] : i \in DOMAIN s}
        /\ nextId = Len(s) + 1
  BY DEF Init
<1>2. /\ s \in Seq(Booking) /\ Len(s) <= MaxId
      /\ Len(s) \in Nat /\ DOMAIN s = 1..Len(s)
  OBVIOUS
<1>3. Expire(0) \in Nat
  BY DEF Expire
<1>4. rsv \subseteq Reservation
  <2> SUFFICES ASSUME NEW i \in 1..Len(s)
               PROVE  [id |-> i, acct |-> s[i].acct, amount |-> s[i].amount,
                       made |-> 0, expire |-> Expire(0)] \in Reservation
    BY <1>1, <1>2
  <2>1. s[i] \in Booking
    BY <1>2
  <2>2. i \in Ids /\ 0 \in 0..MaxTime
    BY <1>2 DEF Ids
  <2> QED
    BY <1>3, <2>1, <2>2 DEF Reservation, Booking
<1>5. nextId \in 1..(MaxId + 1) /\ \A e \in rsv : e.id < nextId /\ e.expire = Expire(e.made)
  BY <1>1, <1>2
<1>6. \A e, f \in rsv : e.id = f.id => e = f
  BY <1>1
<1>7. TablesOK
  BY <1>4, <1>5, <1>6 DEF Init, TablesOK, Idle, Request, Pcs
<1>8. RowsGuarded
  BY DEF Init, RowsGuarded, RowsHeld, Idle
<1>9. SettledOnce
  <2> SUFFICES ASSUME NEW i \in 1..(nextId - 1) PROVE i \in Alive /\ uses[i] = 0
    BY DEF SettledOnce
  <2>1. i \in DOMAIN s /\ i \in Ids
    <3>1. i \in Nat /\ 1 <= i /\ i <= Len(s) /\ i <= MaxId
      BY <1>1, <1>2
    <3> QED
      BY <1>2, <3>1 DEF Ids
  <2> DEFINE e == [id |-> i, acct |-> s[i].acct, amount |-> s[i].amount,
                   made |-> 0, expire |-> Expire(0)]
  <2>2. e \in rsv /\ e.id = i
    BY <1>1, <2>1
  <2> HIDE DEF e
  <2> QED
    BY <2>1, <2>2 DEF Alive, Init
<1> QED
  BY <1>5, <1>7, <1>8, <1>9 DEF SettleInv, FreshInv, Init

\* A request that moves on and writes nothing.
LEMMA MoveSettle ==
    ASSUME SettleInv, NEW c \in Clients, NEW r \in Request,
           UNCHANGED <<now, rsv, nextId, ledger, uses, late>>,
           req' = [req EXCEPT ![c] = r],
           r.pc # "apply" => r.users = {},
           r.pc \in {"first", "apply"} =>
             /\ r.ids \subseteq Alive /\ r.reserves = Rows(r.ids)
             /\ \A d \in Clients \ {c} : RowsHeld(d) \cap r.ids = {}
    PROVE  SettleInv'
<1> USE DEF SettleInv
<1>1. Alive' = Alive /\ \A ids : Rows(ids)' = Rows(ids)
  BY DEF Alive, Rows
<1>2. TablesOK'
  BY DEF TablesOK
<1>3. \A d \in Clients : req'[d] = IF d = c THEN r ELSE req[d]
  BY DEF TablesOK
<1>4. \A d \in Clients : RowsHeld(d)' =
        IF d = c THEN (IF r.pc \in {"first", "apply"} THEN r.ids ELSE {}) ELSE RowsHeld(d)
  BY <1>3 DEF RowsHeld
<1>5. RowsGuarded'
  <2> SUFFICES ASSUME NEW d \in Clients
               PROVE  /\ RowsHeld(d)' \subseteq Alive
                      /\ \A e \in Clients \ {d} : RowsHeld(d)' \cap RowsHeld(e)' = {}
                      /\ req'[d].pc \in {"first", "apply"} =>
                           req'[d].reserves = Rows(req'[d].ids)
                      /\ req'[d].pc \notin {"apply"} => req'[d].users = {}
    BY <1>1 DEF RowsGuarded
  <2>1. CASE d = c
    BY <1>3, <1>4, <2>1
  <2>2. CASE d # c
    BY <1>3, <1>4, <2>2 DEF RowsGuarded
  <2> QED
    BY <2>1, <2>2
<1>6. SettledOnce' /\ FreshInv'
  BY <1>1 DEF SettledOnce, FreshInv
<1> QED
  BY <1>2, <1>5, <1>6

LEMMA RequestRecord ==
    ASSUME SettleInv, NEW c \in Clients
    PROVE  /\ req[c] \in Request /\ Idle \in Request
           /\ req[c].pc # "apply" => req[c].users = {}
           /\ req[c].pc \in {"first", "apply"} =>
                /\ req[c].ids \subseteq Alive /\ req[c].reserves = Rows(req[c].ids)
                /\ \A d \in Clients \ {c} : RowsHeld(d) \cap req[c].ids = {}
<1>1. Idle \in Request
  BY DEF Idle, Request, Pcs
<1> QED
  BY <1>1 DEF SettleInv, TablesOK, RowsGuarded, RowsHeld

LEMMA LeaveSettle ==
    ASSUME SettleInv, NEW c \in Clients, Leave(c), NoWrite
    PROVE  SettleInv'
BY RequestRecord, MoveSettle DEF Leave, NoWrite, Idle, tables, history

LEMMA ProgressSettle ==
    ASSUME SettleInv, NEW c \in Clients,
           \/ Arrive(c) \/ Count(c) \/ CountRefused(c) \/ LockRows(c)
           \/ AlreadyCommitted(c) \/ LockFirstUser(c) \/ ApplyCredit(c) \/ Victim(c)
    PROVE  SettleInv'
<1> USE DEF NoWrite, tables, history
<1>0. req \in [Clients -> Request] /\ req[c] \in Request
  BY DEF SettleInv, TablesOK
<1>1. CASE Arrive(c)
  <2>1. PICK kind \in {"commit", "cancel"}, ids \in Batches :
          req' = [req EXCEPT ![c].kind = kind, ![c].pc = "count", ![c].ids = ids]
    BY <1>1 DEF Arrive
  <2> DEFINE r == [req[c] EXCEPT !.kind = kind, !.pc = "count", !.ids = ids]
  <2>2. r \in Request /\ r.pc = "count" /\ r.users = req[c].users
    BY <1>0, BankAssumption DEF Request, Pcs
  <2>3. req' = [req EXCEPT ![c] = r]
    BY <1>0, <2>1
  <2>4. r.users = {}
    BY <1>1, <2>2, RequestRecord DEF Arrive
  <2> HIDE DEF r
  <2> QED
    BY <1>1, <2>2, <2>3, <2>4, MoveSettle DEF Arrive
<1>2. CASE Count(c)
  <2> DEFINE r == [req[c] EXCEPT !.pc = "rows"]
  <2>1. r \in Request /\ r.pc = "rows" /\ r.users = req[c].users
    BY <1>0 DEF Request, Pcs
  <2>2. req' = [req EXCEPT ![c] = r]
    BY <1>0, <1>2 DEF Count
  <2>3. r.users = {}
    BY <1>2, <2>1, RequestRecord DEF Count
  <2> HIDE DEF r
  <2> QED
    BY <1>2, <2>1, <2>2, <2>3, MoveSettle DEF Count
<1>3. CASE CountRefused(c) \/ AlreadyCommitted(c) \/ Victim(c)
  BY <1>3, LeaveSettle DEF CountRefused, AlreadyCommitted, Victim
<1>4. CASE LockRows(c)
  <2> DEFINE r == [req[c] EXCEPT !.pc = "first", !.reserves = Rows(req[c].ids)]
  <2>1. Rows(req[c].ids) \subseteq Reservation
    BY DEF Rows, SettleInv, TablesOK
  <2>2. r \in Request /\ r.pc = "first" /\ r.users = req[c].users /\ r.ids = req[c].ids
        /\ r.reserves = Rows(req[c].ids)
    BY <1>0, <2>1 DEF Request, Pcs
  <2>3. req' = [req EXCEPT ![c] = r]
    BY <1>0, <1>4 DEF LockRows
  <2>4. r.users = {}
    BY <1>4, <2>2, RequestRecord DEF LockRows
  <2>5. r.ids \subseteq Alive /\ \A d \in Clients \ {c} : RowsHeld(d) \cap r.ids = {}
    BY <1>4, <2>2 DEF LockRows, Blockers, RowHolders
  <2> HIDE DEF r
  <2> QED
    BY <1>4, <2>2, <2>3, <2>4, <2>5, MoveSettle DEF LockRows
<1>5. CASE LockFirstUser(c)
  <2> DEFINE users == FirstOwner(req[c].reserves)
             todo == IF req[c].kind = "commit" THEN req[c].reserves ELSE {}
             r == [req[c] EXCEPT !.pc = "apply", !.users = users, !.todo = todo]
  <2>1. users \subseteq Users /\ todo \subseteq Reservation
    <3>1. Owners(req[c].reserves) \subseteq Users
      BY <1>0 DEF Owners, Request, Reservation
    <3> QED
      BY <1>0, <3>1 DEF Request, FirstOwner
  <2>2. /\ r \in Request /\ r.pc = "apply" /\ r.ids = req[c].ids
        /\ r.reserves = req[c].reserves
    BY <1>0, <2>1 DEF Request, Pcs
  <2>3. req' = [req EXCEPT ![c] = r]
    BY <1>0, <1>5 DEF LockFirstUser
  <2>4. req[c].pc \in {"first", "apply"} /\ UNCHANGED <<now, rsv, nextId, ledger, uses, late>>
    BY <1>5 DEF LockFirstUser
  <2> HIDE DEF r
  <2>5. /\ r.ids \subseteq Alive /\ r.reserves = Rows(r.ids)
        /\ \A d \in Clients \ {c} : RowsHeld(d) \cap r.ids = {}
    BY <2>2, <2>4, RequestRecord
  <2> QED
    BY <2>2, <2>3, <2>4, <2>5, MoveSettle
<1>6. CASE ApplyCredit(c)
  <2> DEFINE users == req[c].users \cup Owners(First(req[c].todo))
             todo == req[c].todo \ First(req[c].todo)
             r == [req[c] EXCEPT !.users = users, !.todo = todo]
  <2>1. users \subseteq Users /\ todo \subseteq Reservation
    BY <1>0 DEF Owners, First, Request, Reservation
  <2>2. /\ r \in Request /\ r.pc = "apply" /\ r.ids = req[c].ids
        /\ r.reserves = req[c].reserves
    BY <1>0, <1>6, <2>1 DEF Request, ApplyCredit
  <2>3. req' = [req EXCEPT ![c] = r]
    BY <1>0, <1>6 DEF ApplyCredit
  <2>4. req[c].pc \in {"first", "apply"} /\ UNCHANGED <<now, rsv, nextId, ledger, uses, late>>
    BY <1>6 DEF ApplyCredit
  <2> HIDE DEF r
  <2>5. /\ r.ids \subseteq Alive /\ r.reserves = Rows(r.ids)
        /\ \A d \in Clients \ {c} : RowsHeld(d) \cap r.ids = {}
    BY <2>2, <2>4, RequestRecord
  <2> QED
    BY <2>2, <2>3, <2>4, <2>5, MoveSettle
<1> QED
  BY <1>1, <1>2, <1>3, <1>4, <1>5, <1>6

\* The rows of a request that finishes are used once and disappear; no other
\* request has locked one of them.
LEMMA FinishSettle ==
    ASSUME SettleInv, NEW c \in Clients, CommitReserves(c) \/ CancelReserves(c)
    PROVE  SettleInv'
<1> DEFINE ids == req[c].ids
<1>1. Finish(c) /\ req[c] \in Request /\ req[c].pc = "apply" /\ RowsHeld(c) = ids
  BY DEF CommitReserves, CancelReserves, Finish, SettleInv, TablesOK, RowsHeld
<1>2. ids \subseteq Alive /\ ids \subseteq Ids /\ req[c].reserves = Rows(ids)
  BY <1>1, RequestRecord DEF Request
<1>3. /\ rsv' = {e \in rsv : e.id \notin ids} /\ UNCHANGED <<now, nextId>>
      /\ uses' = [i \in Ids |-> IF i \in ids THEN uses[i] + 1 ELSE uses[i]]
      /\ req' = [req EXCEPT ![c] = Idle]
  BY <1>1 DEF Finish, Remaining, Leave
<1>4. Alive' = Alive \ ids
  BY <1>3 DEF Alive
<1>5. Rows(ids) \subseteq rsv /\ Rows(ids) \subseteq Reservation
  BY DEF Rows, SettleInv, TablesOK
<1>6. ledger' \subseteq Posting /\ late' \subseteq Ids /\ \A e \in ledger' : e.id < nextId
  <2>1. CASE CommitReserves(c)
    <3>1. ledger' = ledger \cup {[id |-> e.id, acct |-> e.acct, amount |-> e.amount] :
                                   e \in Rows(ids)}
      BY <1>2, <2>1 DEF CommitReserves
    <3>2. late' = late \cup {e.id : e \in {r \in Rows(ids) : ~Counted(r)}}
      BY <1>2, <2>1 DEF CommitReserves
    <3>3. \A e \in Rows(ids) :
            /\ [id |-> e.id, acct |-> e.acct, amount |-> e.amount] \in Posting
            /\ e.id \in Ids /\ e.id < nextId
      BY <1>5 DEF Reservation, Posting, SettleInv, TablesOK
    <3>4. ledger \subseteq Posting /\ late \subseteq Ids /\ \A e \in ledger : e.id < nextId
      BY DEF SettleInv, TablesOK
    <3>5. ledger' \subseteq Posting
      BY <3>1, <3>3, <3>4
    <3>6. late' \subseteq Ids
      BY <3>2, <3>3, <3>4
    <3>7. ASSUME NEW e \in ledger' PROVE e.id < nextId
      <4>1. CASE e \in ledger
        BY <3>4, <4>1
      <4>2. CASE e \notin ledger
        <5>1. PICK f \in Rows(ids) : e = [id |-> f.id, acct |-> f.acct, amount |-> f.amount]
          BY <3>1, <4>2
        <5>2. e.id = f.id
          BY <5>1
        <5> QED
          BY <3>3, <5>2
      <4> QED
        BY <4>1, <4>2
    <3> QED
      BY <3>5, <3>6, <3>7
  <2>2. CASE CancelReserves(c)
    BY <2>2 DEF CancelReserves, SettleInv, TablesOK
  <2> QED
    BY <2>1, <2>2
<1> HIDE DEF ids
<1>7. uses' \in [Ids -> Nat]
  BY <1>3 DEF SettleInv, TablesOK
<1>8. TablesOK'
  BY <1>3, <1>6, <1>7, RequestRecord DEF SettleInv, TablesOK
<1>9. \A d \in Clients : req'[d] = IF d = c THEN Idle ELSE req[d]
  BY <1>3 DEF SettleInv, TablesOK
<1>10. \A d \in Clients : RowsHeld(d)' = IF d = c THEN {} ELSE RowsHeld(d)
  BY <1>9 DEF RowsHeld, Idle
<1>11. RowsGuarded'
  <2> SUFFICES ASSUME NEW d \in Clients
               PROVE  /\ RowsHeld(d)' \subseteq Alive'
                      /\ \A e \in Clients \ {d} : RowsHeld(d)' \cap RowsHeld(e)' = {}
                      /\ req'[d].pc \in {"first", "apply"} =>
                           req'[d].reserves = Rows(req[d].ids)'
                      /\ req'[d].pc \notin {"apply"} => req'[d].users = {}
    BY DEF RowsGuarded
  <2>1. CASE d = c
    BY <1>9, <1>10, <2>1 DEF Idle
  <2>2. CASE d # c
    <3>1. RowsHeld(d) \cap ids = {}
      BY <1>1, <2>2 DEF SettleInv, RowsGuarded
    <3>2. ASSUME req[d].pc \in {"first", "apply"} PROVE req[d].reserves = Rows(req[d].ids)'
      <4>1. req[d].ids \cap ids = {}
        BY <3>1, <3>2 DEF RowsHeld
      <4>2. Rows(req[d].ids)' = Rows(req[d].ids)
        BY <1>3, <1>9, <2>2, <4>1 DEF Rows
      <4> QED
        BY <3>2, <4>2 DEF SettleInv, RowsGuarded
    <3> QED
      BY <1>4, <1>9, <1>10, <2>2, <3>1, <3>2 DEF SettleInv, RowsGuarded
  <2> QED
    BY <2>1, <2>2
<1>12. SettledOnce' /\ FreshInv'
  <2>1. \A i \in ids : i < nextId /\ uses[i] = 0
    <3> SUFFICES ASSUME NEW i \in ids PROVE i < nextId /\ uses[i] = 0
      OBVIOUS
    <3>1. PICK e \in rsv : e.id = i
      BY <1>2 DEF Alive
    <3>2. i < nextId /\ i \in 1..(nextId - 1)
      BY <1>2, <3>1 DEF SettleInv, TablesOK, Ids
    <3> QED
      BY <1>2, <3>2 DEF SettleInv, SettledOnce
  <2>2. \A i \in 1..(nextId - 1) : i \in Ids
    BY BankAssumption DEF SettleInv, TablesOK, Ids
  <2>3. SettledOnce'
    BY <1>2, <1>3, <1>4, <2>1, <2>2 DEF SettleInv, SettledOnce
  <2>4. FreshInv'
    BY <1>3, <2>1 DEF SettleInv, FreshInv, TablesOK, Ids
  <2> QED
    BY <2>3, <2>4
<1> QED
  BY <1>8, <1>11, <1>12 DEF SettleInv

LEMMA ReserveSettle ==
    ASSUME SettleInv, NEW u \in Users, NEW amount \in Amounts, Reserve(u, amount)
    PROVE  SettleInv'
<1> DEFINE n == NewReservation(u, amount)
<1>1. /\ rsv' = rsv \cup {n} /\ nextId' = nextId + 1 /\ nextId <= MaxId
      /\ UNCHANGED <<now, ledger, req, uses, late>>
  BY DEF Reserve, history
<1>2. nextId \in Ids /\ nextId \in Nat /\ MaxId \in Nat
  BY <1>1, BankAssumption DEF SettleInv, TablesOK, Ids
<1>3. n \in Reservation /\ n.id = nextId /\ n.expire = Expire(n.made)
  <2>1. now \in 0..MaxTime /\ Expire(now) \in Nat
    BY BankAssumption DEF SettleInv, TablesOK, Expire
  <2> QED
    BY <1>2, <2>1, BankAssumption DEF NewReservation, Reservation
<1> HIDE DEF n
<1>4. Alive' = Alive \cup {nextId}
  BY <1>1, <1>3 DEF Alive
<1>5. TablesOK'
  <2>1. \A e \in rsv \cup ledger : e.id < nextId + 1
    BY <1>2 DEF SettleInv, TablesOK, Reservation, Posting, Ids
  <2>2. \A e \in rsv : e.id # nextId
    BY <1>2 DEF SettleInv, TablesOK
  <2>3. \A e, f \in rsv' : e.id = f.id => e = f
    BY <1>1, <1>3, <2>2 DEF SettleInv, TablesOK
  <2>4. \A e \in rsv' \cup ledger' : e.id < nextId'
    BY <1>1, <1>2, <1>3, <2>1
  <2>5. rsv' \subseteq Reservation /\ nextId' \in 1..(MaxId + 1)
    BY <1>1, <1>2, <1>3 DEF SettleInv, TablesOK
  <2> QED
    BY <1>1, <2>3, <2>4, <2>5 DEF SettleInv, TablesOK
<1>6. \A i \in Alive : i < nextId
  BY DEF Alive, SettleInv, TablesOK
<1>7. RowsGuarded'
  <2>1. \A d \in Clients : RowsHeld(d)' = RowsHeld(d)
    BY <1>1 DEF RowsHeld
  <2>2. ASSUME NEW d \in Clients, req[d].pc \in {"first", "apply"}
        PROVE  Rows(req[d].ids)' = Rows(req[d].ids)
    <3>1. nextId \notin req[d].ids
      BY <1>2, <1>6, <2>2, RequestRecord
    <3> QED
      BY <1>1, <1>3, <3>1 DEF Rows
  <2> QED
    BY <1>1, <1>4, <2>1, <2>2 DEF SettleInv, RowsGuarded
<1>8. SettledOnce'
  <2> SUFFICES ASSUME NEW i \in 1..nextId
               PROVE  uses[i] = IF i \in Alive' THEN 0 ELSE 1
    BY <1>1, <1>2 DEF SettledOnce
  <2>1. CASE i = nextId
    BY <1>2, <1>4, <2>1 DEF SettleInv, FreshInv
  <2>2. CASE i # nextId
    BY <1>2, <1>4, <2>2 DEF SettleInv, SettledOnce
  <2> QED
    BY <2>1, <2>2
<1>9. FreshInv'
  BY <1>1, <1>2, <1>3 DEF SettleInv, FreshInv, Ids
<1> QED
  BY <1>5, <1>7, <1>8, <1>9 DEF SettleInv

\* Nothing SettleInv speaks of has moved but the clock.
LEMMA StillSettle ==
    ASSUME SettleInv, UNCHANGED <<rsv, nextId, ledger, req, uses, late>>, now' \in 0..MaxTime
    PROVE  SettleInv'
<1>1. Alive' = Alive /\ (\A ids : Rows(ids)' = Rows(ids))
      /\ \A c \in Clients : RowsHeld(c)' = RowsHeld(c)
  BY DEF Alive, Rows, RowsHeld
<1>2. TablesOK'
  BY DEF SettleInv, TablesOK
<1>3. RowsGuarded'
  BY <1>1 DEF SettleInv, RowsGuarded
<1>4. SettledOnce' /\ FreshInv'
  BY <1>1 DEF SettleInv, SettledOnce, FreshInv
<1> QED
  BY <1>2, <1>3, <1>4 DEF SettleInv

LEMMA StepSettle ==
    ASSUME SettleInv, [Next]_vars
    PROVE  SettleInv'
<1>1. CASE \E u \in Users, amount \in Amounts : Reserve(u, amount)
  BY <1>1, ReserveSettle
<1>2. CASE \E u \in Users, price \in Prices : AddCredit(u, price)
  BY <1>2, StillSettle DEF AddCredit, history, SettleInv, TablesOK
<1>3. CASE \E c \in Clients : Arrive(c) \/ Progress(c)
  BY <1>3, ProgressSettle, FinishSettle DEF Progress
<1>4. CASE Tick
  <2>1. now' \in 0..MaxTime
    BY <1>4, BankAssumption DEF Tick, SettleInv, TablesOK
  <2> QED
    BY <1>4, <2>1, StillSettle DEF Tick, tables, history
<1>5. CASE UNCHANGED vars
  BY <1>5, StillSettle DEF vars, SettleInv, TablesOK
<1> QED
  BY <1>1, <1>2, <1>3, <1>4, <1>5 DEF Next

\* A request that has locked nothing yet keeps nobody waiting, so it is in no
\* cycle of waits.
LEMMA NoEarlyVictim ==
    ASSUME SettleInv, NEW c \in Clients, req[c].pc \in {"count", "rows"}
    PROVE  ~InDeadlock(c)
<1>1. RowsHeld(c) = {} /\ req[c].users = {}
  BY RequestRecord DEF RowsHeld
<1>2. \A d \in Clients : c \notin Blockers(d)
  <2>1. \A d \in Clients : c \notin RowHolders(d) /\ \A u : c \notin UserHolders(d, u)
    BY <1>1 DEF RowHolders, UserHolders
  <2> QED
    BY <2>1 DEF Blockers
<1> QED
  BY <1>2 DEF InDeadlock

LEMMA StepHonoured ==
    ASSUME SettleInv, [Next]_vars, NEW c \in Clients,
           req[c].kind = "commit", req[c].pc \in {"count", "rows"}, req'[c].pc = "idle"
    PROVE  \E i \in req[c].ids : i \in Alive => \E e \in Rows({i}) : now > e.made + 2 * TTL
<1>0. req \in [Clients -> Request]
  BY DEF SettleInv, TablesOK
<1>1. ASSUME NEW d \in Clients, d # c, Arrive(d) \/ Progress(d) PROVE FALSE
  <2>1. req'[c] = req[c]
    BY <1>0, <1>1 DEF Arrive, Progress, Count, CountRefused, LockRows, AlreadyCommitted,
       LockFirstUser, ApplyCredit, CommitReserves, CancelReserves, Finish, Victim, Leave
  <2> QED
    BY <2>1
<1>2. CASE CountRefused(c)
  <2>1. CASE ~(req[c].ids \subseteq Alive)
    BY <2>1
  <2>2. CASE req[c].ids \subseteq Alive
    <3>1. PICK e \in Rows(req[c].ids) : ~Committable(e)
      BY <1>2, <2>2 DEF CountRefused, CountOk
    <3>2. e \in rsv /\ e.id \in req[c].ids /\ e \in Rows({e.id})
      BY DEF Rows
    <3>3. e \in Reservation /\ e.expire = Expire(e.made) /\ now \in Nat
      BY <3>2 DEF SettleInv, TablesOK, FreshInv
    <3>4. e.made \in Nat /\ e.expire \in Nat
      BY <3>3 DEF Reservation
    <3>5. ~(e.expire >= now \div 2)
      BY <3>1 DEF Committable
    <3>6. now > e.made + 2 * TTL
      BY <3>3, <3>4, <3>5, BankAssumption DEF Expire
    <3> QED
      BY <3>2, <3>6
  <2> QED
    BY <2>1, <2>2
<1>3. CASE AlreadyCommitted(c)
  BY <1>3 DEF AlreadyCommitted
<1>4. CASE Arrive(c) \/ Count(c) \/ LockRows(c) \/ LockFirstUser(c) \/ ApplyCredit(c)
           \/ CommitReserves(c) \/ CancelReserves(c)
  <2>1. CASE Count(c) \/ LockRows(c)
    BY <1>0, <2>1 DEF Count, LockRows, Request
  <2>2. ~Arrive(c) /\ ~LockFirstUser(c) /\ ~ApplyCredit(c) /\ ~Finish(c)
    BY DEF Arrive, LockFirstUser, ApplyCredit, Finish
  <2> QED
    BY <1>4, <2>1, <2>2 DEF CommitReserves, CancelReserves
<1>5. CASE Victim(c)
  BY <1>5, NoEarlyVictim DEF Victim
<1>6. CASE UNCHANGED req
  BY <1>6
<1> QED
  BY <1>1, <1>2, <1>3, <1>4, <1>5, <1>6 DEF Next, Progress, Reserve, AddCredit, Tick, vars
-----------------------------------------------------------------------------
(* The sums of the tables. *)
AmountOf == [e \in Reservation \cup Posting |-> e.amount]

LEMMA AmountOfInt == \A e \in Reservation \cup Posting : AmountOf[e] = e.amount /\ AmountOf[e] \in Int
BY DEF AmountOf, Reservation, Posting

LEMMA TotalIs ==
    ASSUME NEW S \in SUBSET (Reservation \cup Posting), IsFiniteSet(S)
    PROVE  Total(S) = SumFunctionOnSet(AmountOf, S) /\ Total(S) \in Int
<1> DEFINE f == [e \in S |-> e.amount]
<1>1. DOMAIN f = S /\ \A e \in S : f[e] = AmountOf[e]
  BY AmountOfInt
<1>2. Total(S) = SumFunctionOnSet(f, S)
  BY <1>1 DEF Total, SumFunction
<1> HIDE DEF f
<1>3. Total(S) = SumFunctionOnSet(AmountOf, S)
  BY <1>1, <1>2, SumSame
<1> QED
  BY <1>3, AmountOfInt, SumInt

LEMMA TotalUnion ==
    ASSUME NEW S \in SUBSET (Reservation \cup Posting), IsFiniteSet(S),
           NEW T \in SUBSET (Reservation \cup Posting), IsFiniteSet(T), S \cap T = {}
    PROVE  Total(S \cup T) = Total(S) + Total(T)
<1>1. S \cup T \in SUBSET (Reservation \cup Posting) /\ IsFiniteSet(S \cup T)
  BY FS_Union
<1>2. SumFunctionOnSet(AmountOf, S \cup T)
        = SumFunctionOnSet(AmountOf, S) + SumFunctionOnSet(AmountOf, T)
  BY AmountOfInt, SumUnion
<1> QED
  BY <1>1, <1>2, TotalIs

LEMMA TotalSingle ==
    ASSUME NEW e \in Reservation \cup Posting
    PROVE  Total({e}) = e.amount
<1>1. {e} \in SUBSET (Reservation \cup Posting) /\ IsFiniteSet({e})
  BY FS_Singleton
<1>2. Total({e}) = SumFunctionOnSet(AmountOf, {e})
  BY <1>1, TotalIs
<1> QED
  BY <1>2, AmountOfInt, SumSingle

LEMMA TotalSign ==
    ASSUME NEW S \in SUBSET (Reservation \cup Posting), IsFiniteSet(S)
    PROVE  /\ (\A e \in S : e.amount >= 0) => Total(S) >= 0
           /\ (\A e \in S : e.amount <= 0) => Total(S) <= 0
BY AmountOfInt, SumSign, TotalIs

\* Posting a reservation, or noting it, changes no sum.
Post(e) == [id |-> e.id, acct |-> e.acct, amount |-> e.amount]
LEMMA TotalPosted ==
    ASSUME NEW S \in SUBSET Reservation, IsFiniteSet(S), \A e, f \in S : e.id = f.id => e = f
    PROVE  /\ {Post(e) : e \in S} \in SUBSET Posting /\ IsFiniteSet({Post(e) : e \in S})
           /\ Total({Post(e) : e \in S}) = Total(S)
<1> DEFINE m == [e \in S |-> Post(e)]
<1>1. {m[e] : e \in S} = {Post(e) : e \in S}
  OBVIOUS
<1>2. \A e \in S : m[e] \in Posting /\ m[e].amount = e.amount /\ m[e].id = e.id
  BY DEF Post, Posting, Reservation
<1> HIDE DEF m
<1>3. IsFiniteSet({m[e] : e \in S}) /\ {m[e] : e \in S} \in SUBSET Posting
  BY <1>2, ImageFinite
<1>4. \A e \in S : AmountOf[m[e]] = AmountOf[e] /\ AmountOf[e] \in Int
  BY <1>2, AmountOfInt
<1>5. \A e, f \in S : m[e] = m[f] => e = f
  BY <1>2
<1>6. SumFunctionOnSet(AmountOf, {m[e] : e \in S}) = SumFunctionOnSet(AmountOf, S)
  BY <1>4, <1>5, SumRename
<1>7. Total({m[e] : e \in S}) = Total(S)
  BY <1>3, <1>6, TotalIs
<1> QED
  BY <1>1, <1>3, <1>7
-----------------------------------------------------------------------------
(* The money: the tables are finite, and what was posted is not reserved.  *)
BooksOK ==
    /\ IsFiniteSet(rsv) /\ IsFiniteSet(ledger)
    /\ \A e \in ledger : e.id \notin Alive
    /\ \A c \in Clients : req[c].pc # "idle" => req[c].ids \in Batches
MoneyInv == SettleInv /\ TypeOK /\ BooksOK

Posted(u) == {e \in ledger : e.acct = u}
Taking(u) == {e \in rsv : e.acct = u /\ e.amount < 0 /\ Counted(e)}

LEMMA Parts ==
    ASSUME MoneyInv, NEW u \in Users
    PROVE  /\ Posted(u) \in SUBSET (Reservation \cup Posting) /\ IsFiniteSet(Posted(u))
           /\ Taking(u) \in SUBSET (Reservation \cup Posting) /\ IsFiniteSet(Taking(u))
           /\ Fixed(u) = deposit[u] + Total(Posted(u)) /\ Reserved(u) = Total(Taking(u))
           /\ Fixed(u) \in Int /\ Reserved(u) \in Int /\ deposit[u] \in Nat
<1>1. Posted(u) \subseteq ledger /\ Taking(u) \subseteq rsv
  BY DEF Posted, Taking
<1>2. rsv \subseteq Reservation /\ ledger \subseteq Posting /\ IsFiniteSet(rsv) /\ IsFiniteSet(ledger)
      /\ deposit[u] \in Nat
  BY DEF MoneyInv, TypeOK, TablesOK, BooksOK
<1>3. IsFiniteSet(Posted(u)) /\ IsFiniteSet(Taking(u))
  BY <1>1, <1>2, FS_Subset
<1>4. Fixed(u) = deposit[u] + Total(Posted(u)) /\ Reserved(u) = Total(Taking(u))
  BY DEF Fixed, Reserved, Posted, Taking
<1> QED
  BY <1>1, <1>2, <1>3, <1>4, TotalIs

LEMMA InitMoney == Init => MoneyInv
<1> SUFFICES ASSUME Init PROVE MoneyInv
  OBVIOUS
<1>1. SettleInv
  BY InitSettle
<1>2. PICK s \in Starts :
        rsv = {[id |-> i, acct |-> s[i].acct, amount |-> s[i].amount,
                made |-> 0, expire |-> Expire(0)] : i \in DOMAIN s}
  BY DEF Init
<1>3. IsFiniteSet(DOMAIN s)
  <2>1. s \in Seq(Booking)
    BY BankAssumption
  <2>2. DOMAIN s = 1..Len(s) /\ Len(s) \in Nat
    BY <2>1
  <2> QED
    BY <2>2, FS_Interval
<1>4. IsFiniteSet(rsv)
  <2> DEFINE m == [i \in DOMAIN s |-> [id |-> i, acct |-> s[i].acct, amount |-> s[i].amount,
                                       made |-> 0, expire |-> Expire(0)]]
  <2>1. rsv = {m[i] : i \in DOMAIN s}
    BY <1>2
  <2> HIDE DEF m
  <2> QED
    BY <1>3, <2>1, ImageFinite
<1>5. BooksOK
  BY <1>4, FS_EmptySet DEF Init, BooksOK, Idle
<1>6. TypeOK
  BY <1>1, BankAssumption DEF Init, TypeOK, SettleInv, NoSnapshot
<1> QED
  BY <1>1, <1>5, <1>6 DEF MoneyInv

\* Requests that read or lock: the money does not move.
LEMMA ProgressMoney ==
    ASSUME MoneyInv, NEW c \in Clients,
           \/ Arrive(c) \/ Count(c) \/ CountRefused(c) \/ LockRows(c)
           \/ AlreadyCommitted(c) \/ LockFirstUser(c) \/ ApplyCredit(c) \/ Victim(c)
    PROVE  /\ UNCHANGED <<now, tables, history>> /\ snap' \in [Clients -> [Users -> Int]]
           /\ BooksOK'
<1>0. /\ UNCHANGED <<now, tables, history>> /\ req \in [Clients -> Request]
      /\ snap \in [Clients -> [Users -> Int]] /\ NoSnapshot \in [Users -> Int]
  BY DEF Arrive, Count, CountRefused, LockRows, AlreadyCommitted, LockFirstUser, ApplyCredit,
     Victim, NoWrite, MoneyInv, TypeOK, TablesOK, NoSnapshot
<1>1. snap' \in [Clients -> [Users -> Int]]
  <2>1. CASE Count(c)
    <3>1. [u \in Users |-> Fixed(u)] \in [Users -> Int]
      BY Parts
    <3> HIDE DEF Fixed
    <3> QED
      BY <1>0, <2>1, <3>1 DEF Count
  <2>2. CASE ~Count(c)
    BY <1>0, <2>2 DEF Arrive, CountRefused, LockRows, AlreadyCommitted, LockFirstUser,
       ApplyCredit, Victim, Leave
  <2> QED
    BY <2>1, <2>2
<1>2. \A d \in Clients : req'[d].pc # "idle" => req'[d].ids \in Batches
  <2>1. CASE Arrive(c)
    <3>1. PICK kind \in {"commit", "cancel"}, ids \in Batches :
            req' = [req EXCEPT ![c].kind = kind, ![c].pc = "count", ![c].ids = ids]
      BY <2>1 DEF Arrive
    <3>2. \A d \in Clients : req'[d].ids = IF d = c THEN ids ELSE req[d].ids
      BY <1>0, <3>1 DEF Request
    <3>3. \A d \in Clients : d # c => req'[d] = req[d]
      BY <1>0, <3>1
    <3> QED
      BY <3>2, <3>3 DEF MoneyInv, BooksOK
  <2>2. CASE CountRefused(c) \/ AlreadyCommitted(c) \/ Victim(c)
    <3>1. req' = [req EXCEPT ![c] = Idle]
      BY <2>2 DEF CountRefused, AlreadyCommitted, Victim, Leave
    <3> QED
      BY <1>0, <3>1 DEF MoneyInv, BooksOK, Idle
  <2>3. CASE Count(c) \/ LockRows(c) \/ LockFirstUser(c) \/ ApplyCredit(c)
    <3>1. \A d \in Clients : req'[d].ids = req[d].ids
      <4>1. req[c] \in Request /\ \A d \in Clients : d # c => req'[d] = req[d]
        BY <1>0, <2>3 DEF Count, LockRows, LockFirstUser, ApplyCredit
      <4>2. CASE Count(c) \/ LockRows(c)
        BY <1>0, <4>1, <4>2 DEF Count, LockRows, Request
      <4>3. CASE LockFirstUser(c)
        BY <1>0, <4>1, <4>3 DEF LockFirstUser, Request
      <4>4. CASE ApplyCredit(c)
        BY <1>0, <4>1, <4>4 DEF ApplyCredit, Request
      <4> QED
        BY <2>3, <4>2, <4>3, <4>4
    <3>2. \A d \in Clients : req'[d].pc # "idle" => req[d].pc # "idle"
      BY <1>0, <2>3 DEF Count, LockRows, LockFirstUser, ApplyCredit, Request
    <3> QED
      BY <3>1, <3>2 DEF MoneyInv, BooksOK
  <2> QED
    BY <2>1, <2>2, <2>3
<1>3. BooksOK'
  BY <1>0, <1>2 DEF MoneyInv, BooksOK, Alive, tables
<1> QED
  BY <1>0, <1>1, <1>3

\* A /commit posts the rows it locked and deletes them; a /cancel deletes them.
LEMMA FinishBooks ==
    ASSUME MoneyInv, NEW c \in Clients, CommitReserves(c) \/ CancelReserves(c)
    PROVE  /\ rsv' = rsv \ Rows(req[c].ids) /\ UNCHANGED <<now, nextId, deposit>>
           /\ req[c].ids \in Batches /\ req[c].ids \subseteq Alive
           /\ Rows(req[c].ids) \subseteq rsv /\ Rows(req[c].ids) \subseteq Reservation
           /\ IsFiniteSet(Rows(req[c].ids))
           /\ CommitReserves(c) =>
                /\ ledger' = ledger \cup {Post(e) : e \in Rows(req[c].ids)}
                /\ late' = late \cup {e.id : e \in {r \in Rows(req[c].ids) : ~Counted(r)}}
           /\ CancelReserves(c) => UNCHANGED <<ledger, late, credit>>
           /\ BooksOK'
<1> DEFINE ids == req[c].ids
<1>1. Finish(c) /\ req[c].pc = "apply" /\ req \in [Clients -> Request]
  BY DEF CommitReserves, CancelReserves, Finish, MoneyInv, SettleInv, TablesOK
<1>2. ids \subseteq Alive /\ req[c].reserves = Rows(ids) /\ ids \in Batches
  BY <1>1, RequestRecord DEF MoneyInv, BooksOK
<1>3. /\ rsv' = {e \in rsv : e.id \notin ids} /\ UNCHANGED <<now, nextId, deposit>>
      /\ req' = [req EXCEPT ![c] = Idle]
  BY <1>1 DEF Finish, Remaining, Leave
<1>4. rsv' = rsv \ Rows(ids) /\ Rows(ids) \subseteq rsv
  BY <1>3 DEF Rows
<1>5. rsv \subseteq Reservation /\ IsFiniteSet(rsv) /\ IsFiniteSet(ledger)
      /\ \A e, f \in rsv : e.id = f.id => e = f
  BY DEF MoneyInv, TypeOK, TablesOK, BooksOK
<1>6. IsFiniteSet(Rows(ids)) /\ IsFiniteSet(rsv')
  BY <1>4, <1>5, FS_Subset
<1>7. ASSUME CommitReserves(c)
      PROVE  /\ ledger' = ledger \cup {Post(e) : e \in Rows(ids)}
             /\ late' = late \cup {e.id : e \in {r \in Rows(ids) : ~Counted(r)}}
  BY <1>2, <1>7 DEF CommitReserves, Post
<1>8. CancelReserves(c) => UNCHANGED <<ledger, late, credit>>
  BY DEF CancelReserves
<1> HIDE DEF ids
<1>9. IsFiniteSet({Post(e) : e \in Rows(ids)})
  BY <1>4, <1>5, <1>6, TotalPosted
<1>10. IsFiniteSet(ledger')
  <2>1. CASE CommitReserves(c)
    <3>1. IsFiniteSet(ledger \cup {Post(e) : e \in Rows(ids)})
      BY <1>5, <1>9, FS_Union
    <3> QED
      BY <1>7, <2>1, <3>1
  <2>2. CASE CancelReserves(c)
    BY <1>5, <1>8, <2>2
  <2> QED
    BY <2>1, <2>2
<1>11. Alive' = Alive \ ids
  BY <1>3 DEF Alive
<1>12. ASSUME NEW e \in ledger' PROVE e.id \notin Alive'
  <2>1. CASE e \in ledger
    BY <1>11, <2>1 DEF MoneyInv, BooksOK
  <2>2. CASE e \notin ledger
    <3>1. PICK f \in Rows(ids) : e = Post(f)
      BY <1>7, <1>8, <2>2
    <3>2. e.id = f.id /\ f.id \in ids
      BY <3>1 DEF Post, Rows
    <3> QED
      BY <1>11, <3>2
  <2> QED
    BY <2>1, <2>2
<1>13. \A d \in Clients : req'[d].pc # "idle" => req'[d].ids \in Batches
  BY <1>1, <1>3 DEF MoneyInv, BooksOK, Idle
<1>14. BooksOK'
  BY <1>6, <1>10, <1>12, <1>13 DEF BooksOK
<1> QED
  BY <1>2, <1>3, <1>4, <1>5, <1>6, <1>7, <1>8, <1>14 DEF ids

LEMMA StepMoney ==
    ASSUME MoneyInv, [Next]_vars
    PROVE  MoneyInv'
<1>0. SettleInv' /\ TablesOK'
  BY StepSettle DEF MoneyInv, SettleInv
<1>1. /\ deposit \in [Users -> Nat] /\ credit \in [Users -> Int]
      /\ snap \in [Clients -> [Users -> Int]] /\ BooksOK
      /\ IsFiniteSet(rsv) /\ IsFiniteSet(ledger)
  BY DEF MoneyInv, TypeOK, BooksOK
<1>2. CASE \E u \in Users, amount \in Amounts : Reserve(u, amount)
  <2>1. PICK u \in Users, amount \in Amounts : Reserve(u, amount)
    BY <1>2
  <2> DEFINE n == NewReservation(u, amount)
  <2>2. /\ rsv' = rsv \cup {n} /\ UNCHANGED <<ledger, deposit, credit, req, snap>>
        /\ n.id = nextId
    BY <2>1 DEF Reserve, NewReservation
  <2> HIDE DEF n
  <2>3. IsFiniteSet(rsv')
    BY <1>1, <2>2, FS_AddElement
  <2>4. \A e \in ledger : e.id # nextId
    BY DEF MoneyInv, SettleInv, TablesOK, Posting, Ids
  <2>5. BooksOK'
    BY <1>1, <2>2, <2>3, <2>4 DEF BooksOK, Alive
  <2> QED
    BY <1>0, <1>1, <2>2, <2>5 DEF MoneyInv, TypeOK
<1>3. CASE \E u \in Users, price \in Prices : AddCredit(u, price)
  <2>1. PICK u \in Users, price \in Prices : AddCredit(u, price)
    BY <1>3
  <2>2. deposit[u] + price \in Nat /\ Fixed(u) + price \in Int
    BY Parts, BankAssumption
  <2> HIDE DEF Fixed
  <2>3. deposit' \in [Users -> Nat] /\ credit' \in [Users -> Int]
    BY <1>1, <2>1, <2>2 DEF AddCredit
  <2>4. UNCHANGED <<rsv, ledger, req, snap>>
    BY <2>1 DEF AddCredit
  <2>5. BooksOK'
    BY <1>1, <2>4 DEF BooksOK, Alive
  <2> QED
    BY <1>0, <1>1, <2>3, <2>4, <2>5 DEF MoneyInv, TypeOK
<1>4. CASE \E c \in Clients : \/ Arrive(c) \/ Count(c) \/ CountRefused(c) \/ LockRows(c)
                              \/ AlreadyCommitted(c) \/ LockFirstUser(c) \/ ApplyCredit(c)
                              \/ Victim(c)
  BY <1>0, <1>1, <1>4, ProgressMoney DEF MoneyInv, TypeOK, tables
<1>5. CASE \E c \in Clients : CommitReserves(c) \/ CancelReserves(c)
  <2>1. PICK c \in Clients : CommitReserves(c) \/ CancelReserves(c)
    BY <1>5
  <2>2. BooksOK' /\ UNCHANGED deposit /\ (CancelReserves(c) => UNCHANGED credit)
    BY <2>1, FinishBooks
  <2>3. snap' \in [Clients -> [Users -> Int]]
    BY <1>1, <2>1 DEF CommitReserves, CancelReserves, Finish, Leave, NoSnapshot
  <2>4. ASSUME CommitReserves(c) PROVE credit' \in [Users -> Int]
    <3>1. ASSUME NEW u \in Users PROVE Summed(c, u) \in Int
      <4> DEFINE S == {e \in req[c].reserves : e.acct = u}
      <4>1. S \subseteq Rows(req[c].ids)
        BY <2>4, RequestRecord DEF CommitReserves, Finish, MoneyInv
      <4>2. S \in SUBSET (Reservation \cup Posting) /\ IsFiniteSet(S)
        BY <2>4, <4>1, FinishBooks, FS_Subset
      <4>3. Total(S) \in Int
        <5> HIDE DEF S
        <5> QED
          BY <4>2, TotalIs
      <4> QED
        BY <1>1, <4>3 DEF Summed
    <3> HIDE DEF Summed
    <3> QED
      BY <1>1, <2>4, <3>1 DEF CommitReserves
  <2> QED
    BY <1>0, <1>1, <2>1, <2>2, <2>3, <2>4 DEF MoneyInv, TypeOK
<1>6. CASE Tick \/ UNCHANGED vars
  <2>1. UNCHANGED <<rsv, ledger, deposit, credit, req, snap>>
    BY <1>6 DEF Tick, vars, tables
  <2>2. BooksOK'
    BY <1>1, <2>1 DEF BooksOK, Alive
  <2> QED
    BY <1>0, <1>1, <2>1, <2>2 DEF MoneyInv, TypeOK
<1> QED
  BY <1>2, <1>3, <1>4, <1>5, <1>6 DEF Next, Progress
-----------------------------------------------------------------------------
(* Cover: settled money and the reservations that count.                   *)
PostedIn(posts, u) == {e \in posts : e.acct = u}
TakingAt(rows, time, u) == {e \in rows : e.acct = u /\ e.amount < 0 /\ 2 * e.expire >= time}
Balance(given, posts, rows, time, u) ==
    given[u] + Total(PostedIn(posts, u)) + Total(TakingAt(rows, time, u))
Overdrawn(u) == \E e \in ledger : e.acct = u /\ e.amount < 0 /\ e.id \in late

LEMMA BalanceNow == \A u : Fixed(u) + Reserved(u) = Balance(deposit, ledger, rsv, now, u)
BY DEF Fixed, Reserved, Counted, Balance, PostedIn, TakingAt

LEMMA BalanceNext ==
    \A u : (Fixed(u) + Reserved(u))' = Balance(deposit', ledger', rsv', now', u)
BY DEF Fixed, Reserved, Counted, Balance, PostedIn, TakingAt, Total, SumFunction

LEMMA BalanceParts ==
    ASSUME MoneyInv, NEW u \in Users, NEW time \in Nat, NEW rows \in SUBSET rsv
    PROVE  /\ PostedIn(ledger, u) \in SUBSET (Reservation \cup Posting)
           /\ IsFiniteSet(PostedIn(ledger, u)) /\ Total(PostedIn(ledger, u)) \in Int
           /\ TakingAt(rows, time, u) \in SUBSET (Reservation \cup Posting)
           /\ IsFiniteSet(TakingAt(rows, time, u)) /\ Total(TakingAt(rows, time, u)) \in Int
           /\ now \in Nat /\ deposit[u] \in Nat
<1>1. PostedIn(ledger, u) \subseteq ledger /\ TakingAt(rows, time, u) \subseteq rsv
  BY DEF PostedIn, TakingAt
<1>2. rsv \subseteq Reservation /\ ledger \subseteq Posting /\ IsFiniteSet(rsv) /\ IsFiniteSet(ledger)
      /\ deposit[u] \in Nat /\ now \in Nat
  BY DEF MoneyInv, TypeOK, TablesOK, BooksOK
<1>3. IsFiniteSet(PostedIn(ledger, u)) /\ IsFiniteSet(TakingAt(rows, time, u))
  BY <1>1, <1>2, FS_Subset
<1> QED
  BY <1>1, <1>2, <1>3, TotalIs

\* With time, with a credit, and with a reservation cancelled, the cover grows.
LEMMA BalanceGrows ==
    ASSUME MoneyInv, NEW u \in Users, NEW given \in [Users -> Nat], given[u] >= deposit[u],
           NEW rows \in SUBSET rsv, NEW time \in Nat, time >= now
    PROVE  Balance(given, ledger, rows, time, u) >= Balance(deposit, ledger, rsv, now, u)
<1> DEFINE old == TakingAt(rsv, now, u)
           new == TakingAt(rows, time, u)
<1>1. /\ old \in SUBSET (Reservation \cup Posting) /\ IsFiniteSet(old) /\ Total(old) \in Int
      /\ new \in SUBSET (Reservation \cup Posting) /\ IsFiniteSet(new) /\ Total(new) \in Int
      /\ Total(PostedIn(ledger, u)) \in Int /\ now \in Nat /\ deposit[u] \in Nat /\ given[u] \in Nat
  BY BalanceParts
<1>2. \A e \in rsv : e.expire \in Nat /\ e.amount \in Int
  BY DEF MoneyInv, TypeOK, TablesOK, Reservation
<1>3. new \subseteq old
  BY <1>1, <1>2 DEF TakingAt
<1>4. \A e \in old \ new : e.amount <= 0
  BY <1>2 DEF TakingAt
<1>5. old \ new \in SUBSET (Reservation \cup Posting) /\ IsFiniteSet(old \ new)
      /\ (old \ new) \cup new = old /\ (old \ new) \cap new = {}
  BY <1>1, <1>3, FS_Subset
<1>6. Total(old \ new) <= 0 /\ Total(old \ new) \in Int
  BY <1>4, <1>5, TotalSign, TotalIs
<1>7. Total(old) = Total(old \ new) + Total(new)
  <2> HIDE DEF old, new
  <2> QED
    BY <1>1, <1>5, TotalUnion
<1>8. /\ Balance(given, ledger, rows, time, u) = given[u] + Total(PostedIn(ledger, u)) + Total(new)
      /\ Balance(deposit, ledger, rsv, now, u) = deposit[u] + Total(PostedIn(ledger, u)) + Total(old)
  BY DEF Balance
<1> HIDE DEF old, new
<1> QED
  BY <1>1, <1>6, <1>7, <1>8

\* Settling a set of reservations that are not late loses no cover: what they
\* take was counted before, what they give was not.
LEMMA BalanceSettled ==
    ASSUME MoneyInv, NEW u \in Users, NEW S \in SUBSET rsv,
           \A e \in S : e.acct = u /\ e.amount < 0 => Counted(e)
    PROVE  Balance(deposit, ledger \cup {Post(e) : e \in S}, rsv \ S, now, u)
             >= Balance(deposit, ledger, rsv, now, u)
<1> DEFINE mine == {e \in S : e.acct = u}
           neg == {e \in mine : e.amount < 0}
           pos == {e \in mine : ~(e.amount < 0)}
           posts == {Post(e) : e \in mine}
           old == TakingAt(rsv, now, u)
           new == TakingAt(rsv \ S, now, u)
           Known(T) == T \in SUBSET (Reservation \cup Posting) /\ IsFiniteSet(T)
<1>1. /\ rsv \subseteq Reservation /\ IsFiniteSet(rsv) /\ \A e, f \in rsv : e.id = f.id => e = f
      /\ \A e \in ledger : e.id \notin Alive
      /\ now \in Nat /\ \A e \in rsv : e.amount \in Int
  BY DEF MoneyInv, TypeOK, TablesOK, BooksOK, Reservation
<1>2. Known(old) /\ Known(new) /\ Known(PostedIn(ledger, u)) /\ deposit[u] \in Nat
  BY <1>1, BalanceParts
<1>3. Known(mine) /\ Known(neg) /\ Known(pos) /\ mine \subseteq Reservation /\ mine \subseteq rsv
  <2>1. mine \subseteq rsv /\ neg \subseteq rsv /\ pos \subseteq rsv
    OBVIOUS
  <2> HIDE DEF mine, neg, pos
  <2> QED
    BY <1>1, <2>1, FS_Subset
<1>4. Known(posts) /\ Total(posts) = Total(mine)
  <2>1. \A e, f \in mine : e.id = f.id => e = f
    BY <1>1, <1>3
  <2> HIDE DEF mine
  <2> QED
    BY <1>3, <2>1, TotalPosted
<1>5. PostedIn(ledger \cup {Post(e) : e \in S}, u) = PostedIn(ledger, u) \cup posts
  <2>1. \A e \in S : Post(e).acct = e.acct
    BY DEF Post
  <2> QED
    BY <2>1 DEF PostedIn
<1>6. PostedIn(ledger, u) \cap posts = {}
  <2>1. \A e \in mine : Post(e).id = e.id /\ e.id \in Alive
    BY <1>3 DEF Post, Alive
  <2>2. \A e \in PostedIn(ledger, u) : e.id \notin Alive
    BY <1>1 DEF PostedIn
  <2> HIDE DEF mine
  <2> QED
    BY <2>1, <2>2
<1>7. mine = neg \cup pos /\ neg \cap pos = {}
  OBVIOUS
<1>8. \A e \in rsv : Counted(e) <=> 2 * e.expire >= now
  BY DEF Counted
<1>9. old = new \cup neg /\ new \cap neg = {}
  BY <1>8 DEF TakingAt
<1>10. \A e \in pos : e.amount >= 0
  BY <1>1, <1>3
<1> HIDE DEF mine, neg, pos, posts, old, new, Known
<1>11. Total(mine) = Total(neg) + Total(pos)
  BY <1>3, <1>7, TotalUnion DEF Known
<1>12. Total(old) = Total(new) + Total(neg)
  BY <1>2, <1>3, <1>9, TotalUnion DEF Known
<1>13. Total(PostedIn(ledger, u) \cup posts) = Total(PostedIn(ledger, u)) + Total(posts)
  BY <1>2, <1>4, <1>6, TotalUnion DEF Known
<1>14. Total(pos) >= 0 /\ Total(pos) \in Int /\ Total(neg) \in Int /\ Total(new) \in Int
       /\ Total(PostedIn(ledger, u)) \in Int
  BY <1>2, <1>3, <1>10, TotalSign, TotalIs DEF Known
<1>15. /\ Balance(deposit, ledger \cup {Post(e) : e \in S}, rsv \ S, now, u)
            = deposit[u] + Total(PostedIn(ledger, u) \cup posts) + Total(new)
       /\ Balance(deposit, ledger, rsv, now, u)
            = deposit[u] + Total(PostedIn(ledger, u)) + Total(old)
  BY <1>5 DEF Balance, new, old
<1> QED
  BY <1>2, <1>4, <1>11, <1>12, <1>13, <1>14, <1>15

LEMMA InitCovered == Init => CoveredUnlessLate
<1> SUFFICES ASSUME Init, NEW u \in Users PROVE Fixed(u) + Reserved(u) >= 0
  BY DEF CoveredUnlessLate
<1>1. PICK s \in Starts :
        rsv = {[id |-> i, acct |-> s[i].acct, amount |-> s[i].amount,
                made |-> 0, expire |-> Expire(0)] : i \in DOMAIN s}
  BY DEF Init
<1>2. s \in Seq(Booking) /\ Deposit[u] + Taken(s, u) >= 0
  BY BankAssumption
<1> DEFINE row(i) == [id |-> i, acct |-> s[i].acct, amount |-> s[i].amount,
                      made |-> 0, expire |-> Expire(0)]
           D == {j \in DOMAIN s : s[j].acct = u /\ s[j].amount < 0}
           m == [i \in D |-> row(i)]
           f == [i \in D |-> s[i].amount]
           old == TakingAt(rsv, now, u)
<1>3. MoneyInv
  BY InitMoney
<1>4. now = 0 /\ deposit = Deposit /\ PostedIn(ledger, u) = {} /\ now \in Nat
  BY DEF Init, PostedIn
<1>5. old \in SUBSET (Reservation \cup Posting) /\ IsFiniteSet(old)
  BY <1>3, <1>4, BalanceParts
<1>6. \A e \in rsv : 2 * e.expire >= 0
  BY <1>3 DEF MoneyInv, TypeOK, TablesOK, Reservation
<1>7. old = {m[i] : i \in D}
  <2>1. \A i \in DOMAIN s : row(i).acct = s[i].acct /\ row(i).amount = s[i].amount
    OBVIOUS
  <2>2. rsv = {row(i) : i \in DOMAIN s}
    BY <1>1
  <2>3. \A i \in D : m[i] = row(i)
    OBVIOUS
  <2> HIDE DEF row, m
  <2>4. old = {e \in {row(i) : i \in DOMAIN s} : e.acct = u /\ e.amount < 0}
    BY <1>4, <1>6, <2>2 DEF TakingAt
  <2> QED
    BY <2>1, <2>3, <2>4
<1>8. IsFiniteSet(D) /\ \A i \in D : f[i] \in Int /\ f[i] = s[i].amount
  <2>1. DOMAIN s = 1..Len(s) /\ Len(s) \in Nat
    BY <1>2
  <2>2. \A i \in DOMAIN s : s[i] \in Booking
    BY <1>2
  <2>3. D \subseteq 1..Len(s) /\ IsFiniteSet(1..Len(s))
    BY <2>1, FS_Interval
  <2> QED
    BY <2>2, <2>3, FS_Subset DEF Booking
<1>9. \A i \in D : m[i] \in Reservation \cup Posting /\ m[i].amount = f[i] /\ m[i].id = i
  BY <1>5, <1>7
<1>10. Taken(s, u) = SumFunctionOnSet(f, D)
  BY DEF Taken, SumFunction
<1> HIDE DEF m, f, D, old
<1>11. \A i, j \in D : m[i] = m[j] => i = j
  BY <1>9
<1>12. \A i \in D : AmountOf[m[i]] = f[i] /\ f[i] \in Int
  BY <1>8, <1>9, AmountOfInt
<1>13. SumFunctionOnSet(AmountOf, old) = SumFunctionOnSet(f, D)
  BY <1>7, <1>8, <1>11, <1>12, SumRename
<1>14. Total(old) = Taken(s, u) /\ Total(old) \in Int
  BY <1>5, <1>10, <1>13, TotalIs
<1>15. Total({}) = 0
  BY TotalIs, FS_EmptySet, SumEmpty
<1>16. Balance(deposit, ledger, rsv, now, u) = Deposit[u] + 0 + Total(old)
  BY <1>4, <1>15 DEF Balance, old
<1>17. Deposit[u] \in Nat
  BY BankAssumption
<1> QED
  BY <1>2, <1>14, <1>16, <1>17, BalanceNow

\* /reserve takes money only when what is not reserved covers it.
LEMMA ReserveCovered ==
    ASSUME MoneyInv, NEW v \in Users, NEW amount \in Amounts, Reserve(v, amount),
           NEW u \in Users, Balance(deposit, ledger, rsv, now, u) >= 0
    PROVE  Balance(deposit', ledger', rsv', now', u) >= 0
<1> DEFINE n == NewReservation(v, amount)
           old == TakingAt(rsv, now, u)
           new == TakingAt(rsv \cup {n}, now, u)
<1>1. /\ rsv' = rsv \cup {n} /\ UNCHANGED <<now, ledger, deposit>> /\ ~Insufficient(v, amount)
      /\ n.acct = v /\ n.amount = amount /\ n.expire = Expire(now) /\ n.id = nextId
  BY DEF Reserve, NewReservation
<1>2. /\ old \in SUBSET (Reservation \cup Posting) /\ IsFiniteSet(old) /\ Total(old) \in Int
      /\ Total(PostedIn(ledger, u)) \in Int /\ now \in Nat /\ deposit[u] \in Nat
  <2>1. now \in Nat
    BY DEF MoneyInv, TypeOK, TablesOK
  <2> QED
    BY <2>1, BalanceParts
<1>3. amount \in Int /\ 2 * n.expire >= now
  BY <1>1, <1>2, BankAssumption DEF Expire
<1>4. n \in Reservation /\ n \notin rsv
  <2>1. n \in rsv' /\ rsv' \subseteq Reservation
    BY <1>1, StepMoney DEF Next, MoneyInv, TypeOK, TablesOK
  <2>2. \A e \in rsv : e.id # nextId
    BY DEF MoneyInv, TypeOK, TablesOK, Ids
  <2> QED
    BY <1>1, <2>1, <2>2
<1>5. CASE ~(v = u /\ amount < 0)
  <2>1. new = old
    BY <1>1, <1>5 DEF TakingAt
  <2> QED
    BY <1>1, <2>1 DEF Balance
<1>6. CASE v = u /\ amount < 0
  <2>1. new = old \cup {n} /\ old \cap {n} = {}
    <3> HIDE DEF n
    <3> QED
      BY <1>1, <1>3, <1>4, <1>6 DEF TakingAt
  <2>2. Total({n}) = amount
    BY <1>1, <1>4, TotalSingle
  <2>3. Total(new) = Total(old) + amount
    <3>1. {n} \in SUBSET (Reservation \cup Posting) /\ IsFiniteSet({n})
      BY <1>4, FS_Singleton
    <3> HIDE DEF n, old, new
    <3> QED
      BY <1>2, <2>1, <2>2, <3>1, TotalUnion
  <2>4. Balance(deposit, ledger, rsv, now, u) + amount >= 0
    <3>1. Fixed(v) + Reserved(v) + amount >= 0
      BY <1>1, <1>3, <1>6, Parts DEF Insufficient
    <3> QED
      BY <1>6, <3>1, BalanceNow
  <2>5. /\ Balance(deposit', ledger', rsv', now', u)
             = deposit[u] + Total(PostedIn(ledger, u)) + Total(new)
        /\ Balance(deposit, ledger, rsv, now, u)
             = deposit[u] + Total(PostedIn(ledger, u)) + Total(old)
    BY <1>1 DEF Balance
  <2> HIDE DEF n, old, new
  <2> QED
    BY <1>2, <1>3, <2>3, <2>4, <2>5
<1> QED
  BY <1>5, <1>6

LEMMA StepCovered ==
    ASSUME MoneyInv, CoveredUnlessLate, [Next]_vars, NEW u \in Users
    PROVE  (Fixed(u) + Reserved(u) >= 0 \/ Overdrawn(u))'
<1> DEFINE b == Balance(deposit, ledger, rsv, now, u)
           next == Balance(deposit', ledger', rsv', now', u)
<1>0. (b >= 0 \/ Overdrawn(u)) /\ (Fixed(u) + Reserved(u))' = next /\ MoneyInv'
  BY BalanceNow, BalanceNext, StepMoney DEF CoveredUnlessLate, Overdrawn
<1>1. SUFFICES next >= 0 \/ Overdrawn(u)'
  BY <1>0
<1>2. b \in Int /\ next \in Int /\ now \in Nat
  <2>1. b \in Int /\ now \in Nat
    BY BalanceNow, Parts DEF MoneyInv, TypeOK, TablesOK
  <2>2. /\ PostedIn(ledger', u) \in SUBSET (Reservation \cup Posting)
        /\ TakingAt(rsv', now', u) \in SUBSET (Reservation \cup Posting)
        /\ IsFiniteSet(PostedIn(ledger', u)) /\ IsFiniteSet(TakingAt(rsv', now', u))
        /\ deposit'[u] \in Nat
    <3>1. PostedIn(ledger', u) \subseteq ledger' /\ TakingAt(rsv', now', u) \subseteq rsv'
      BY DEF PostedIn, TakingAt
    <3>2. rsv' \subseteq Reservation /\ ledger' \subseteq Posting /\ deposit'[u] \in Nat
          /\ IsFiniteSet(rsv') /\ IsFiniteSet(ledger')
      BY <1>0 DEF MoneyInv, TypeOK, TablesOK, BooksOK
    <3> QED
      BY <3>1, <3>2, FS_Subset
  <2>3. next \in Int
    BY <2>2, TotalIs DEF Balance
  <2> QED
    BY <2>1, <2>3
<1>3. ledger \subseteq ledger' /\ late \subseteq late' => (Overdrawn(u) => Overdrawn(u)')
  BY DEF Overdrawn
<1>4. CASE \E v \in Users, amount \in Amounts : Reserve(v, amount)
  <2>1. PICK v \in Users, amount \in Amounts : Reserve(v, amount)
    BY <1>4
  <2>2. UNCHANGED <<ledger, late>>
    BY <2>1 DEF Reserve, history
  <2> QED
    BY <1>0, <1>3, <2>1, <2>2, ReserveCovered
<1>5. CASE \E c \in Clients : CommitReserves(c)
  <2>1. PICK c \in Clients : CommitReserves(c)
    BY <1>5
  <2> DEFINE S == Rows(req[c].ids)
  <2>2. /\ rsv' = rsv \ S /\ UNCHANGED <<now, deposit>> /\ S \subseteq rsv
        /\ S \subseteq Reservation
        /\ ledger' = ledger \cup {Post(e) : e \in S}
        /\ late' = late \cup {e.id : e \in {r \in S : ~Counted(r)}}
    BY <2>1, FinishBooks
  <2> HIDE DEF S
  <2>3. CASE \E e \in S : e.acct = u /\ e.amount < 0 /\ ~Counted(e)
    <3>1. PICK e \in S : e.acct = u /\ e.amount < 0 /\ ~Counted(e)
      BY <2>3
    <3>2. Post(e) \in ledger' /\ Post(e).acct = u /\ Post(e).amount < 0 /\ Post(e).id = e.id
      BY <2>2, <3>1 DEF Post
    <3>3. e.id \in late'
      BY <2>2, <3>1
    <3> QED
      BY <3>2, <3>3 DEF Overdrawn
  <2>4. CASE ~(\E e \in S : e.acct = u /\ e.amount < 0 /\ ~Counted(e))
    <3>1. next >= b
      BY <2>2, <2>4, BalanceSettled
    <3> QED
      BY <1>0, <1>2, <1>3, <2>2, <3>1
  <2> QED
    BY <2>3, <2>4
<1>6. CASE \/ \E v \in Users, price \in Prices : AddCredit(v, price)
           \/ \E c \in Clients : CancelReserves(c)
           \/ \E c \in Clients : \/ Arrive(c) \/ Count(c) \/ CountRefused(c) \/ LockRows(c)
                                 \/ AlreadyCommitted(c) \/ LockFirstUser(c) \/ ApplyCredit(c)
                                 \/ Victim(c)
           \/ Tick \/ UNCHANGED vars
  <2>1. /\ UNCHANGED <<ledger, late>> /\ rsv' \subseteq rsv /\ now' \in Nat /\ now' >= now
        /\ deposit'[u] >= deposit[u]
    <3>1. deposit \in [Users -> Nat] /\ now \in 0..MaxTime
      BY DEF MoneyInv, TypeOK, TablesOK
    <3>2. CASE \E v \in Users, price \in Prices : AddCredit(v, price)
      <4>1. PICK v \in Users, price \in Prices : AddCredit(v, price)
        BY <3>2
      <4>2. price \in Nat
        BY BankAssumption
      <4> QED
        BY <3>1, <4>1, <4>2 DEF AddCredit, history
    <3>3. CASE \E c \in Clients : CancelReserves(c)
      BY <3>1, <3>3, FinishBooks
    <3>4. CASE \E c \in Clients : \/ Arrive(c) \/ Count(c) \/ CountRefused(c) \/ LockRows(c)
                                  \/ AlreadyCommitted(c) \/ LockFirstUser(c) \/ ApplyCredit(c)
                                  \/ Victim(c)
      BY <3>1, <3>4, ProgressMoney DEF tables, history
    <3>5. CASE Tick \/ UNCHANGED vars
      BY <3>1, <3>5 DEF Tick, vars, tables, history
    <3> QED
      BY <1>6, <3>2, <3>3, <3>4, <3>5
  <2>2. deposit' \in [Users -> Nat]
    BY <1>0 DEF MoneyInv, TypeOK
  <2>3. next >= b
    BY <2>1, <2>2, BalanceGrows
  <2> QED
    BY <1>0, <1>2, <1>3, <2>1, <2>3
<1> QED
  BY <1>4, <1>5, <1>6 DEF Next, Progress
-----------------------------------------------------------------------------
(* The bank the exchange relies on, as long as nothing expires and nobody  *)
(* is given credit: the abstract bank has no clock, and no deposits.       *)
Note(e) == [id |-> e.id, acct |-> e.acct, amount |-> e.amount, ref |-> "note"]

NoCredit == deposit = Deposit

LEMMA NotedIs == \A S : Noted(S) = {Note(e) : e \in S}
BY DEF Noted, Note

LEMMA NoteFields ==
    \A e : Note(e).id = e.id /\ Note(e).acct = e.acct /\ Note(e).amount = e.amount
BY DEF Note

LEMMA NotedTotal ==
    ASSUME NEW S \in SUBSET (Reservation \cup Posting), IsFiniteSet(S),
           \A e, f \in S : e.id = f.id /\ e.acct = f.acct /\ e.amount = f.amount => e = f
    PROVE  Promise!Total(Noted(S)) = Total(S)
<1> DEFINE m == [e \in S |-> Note(e)]
           g == [x \in Noted(S) |-> x.amount]
<1>1. Noted(S) = {m[e] : e \in S}
  BY NotedIs
<1>2. \A e \in S : /\ m[e].id = e.id /\ m[e].acct = e.acct /\ m[e].amount = e.amount
                   /\ m[e] \in Noted(S)
  BY NotedIs, NoteFields
<1>3. \A e \in S : g[m[e]] = AmountOf[e] /\ AmountOf[e] \in Int
  BY <1>2, AmountOfInt
<1>4. Promise!Total(Noted(S)) = SumFunctionOnSet(g, Noted(S))
  BY DEF Promise!Total, Promise!SumFunction, Promise!SumFunctionOnSet, SumFunctionOnSet,
     Promise!FoldFunctionOnSet, FoldFunctionOnSet, Promise!MapThenFoldSet, MapThenFoldSet
<1> HIDE DEF m, g
<1>5. \A e, f \in S : m[e] = m[f] => e = f
  BY <1>2
<1>6. SumFunctionOnSet(g, {m[e] : e \in S}) = SumFunctionOnSet(AmountOf, S)
  BY <1>3, <1>5, SumRename
<1> QED
  BY <1>1, <1>4, <1>6, TotalIs

\* Every reservation counts, and the deposits are those of the start.
LEMMA NothingExpires ==
    ASSUME MaxTime <= 2 * TTL, MoneyInv, NEW e \in rsv
    PROVE  Counted(e)
<1>1. e.expire = Expire(e.made) /\ e.made \in Nat /\ now \in Nat /\ now <= MaxTime
  BY BankAssumption DEF MoneyInv, SettleInv, FreshInv, TablesOK, Reservation
<1> QED
  BY <1>1, BankAssumption DEF Counted, Expire

LEMMA PromisedFunds ==
    ASSUME MaxTime <= 2 * TTL, MoneyInv, deposit = Deposit, NEW u \in Users
    PROVE  Promise!Fixed(u) = Fixed(u) /\ Promise!Reserved(u) = Reserved(u)
<1>1. /\ rsv \subseteq Reservation /\ ledger \subseteq Posting
      /\ \A e, f \in rsv : e.id = f.id => e = f
  BY DEF MoneyInv, TypeOK, TablesOK
<1>2. \A e, f \in ledger : e.id = f.id /\ e.acct = f.acct /\ e.amount = f.amount => e = f
  BY <1>1 DEF Posting
<1>3. /\ Posted(u) \in SUBSET (Reservation \cup Posting) /\ IsFiniteSet(Posted(u))
      /\ Taking(u) \in SUBSET (Reservation \cup Posting) /\ IsFiniteSet(Taking(u))
      /\ Fixed(u) = deposit[u] + Total(Posted(u)) /\ Reserved(u) = Total(Taking(u))
  BY Parts
<1>4. {x \in Noted(ledger) : x.acct = u} = Noted(Posted(u))
  BY NotedIs, NoteFields DEF Posted
<1>5. {x \in Noted(rsv) : x.acct = u /\ x.amount < 0} = Noted(Taking(u))
  <2>1. Taking(u) = {e \in rsv : e.acct = u /\ e.amount < 0}
    BY NothingExpires DEF Taking
  <2> QED
    BY <2>1, NotedIs, NoteFields
<1>6. Promise!Total(Noted(Posted(u))) = Total(Posted(u))
  <2>1. Posted(u) \subseteq ledger
    BY DEF Posted
  <2> QED
    BY <1>2, <1>3, <2>1, NotedTotal
<1>7. Promise!Total(Noted(Taking(u))) = Total(Taking(u))
  <2>1. Taking(u) \subseteq rsv
    BY DEF Taking
  <2> QED
    BY <1>1, <1>3, <2>1, NotedTotal
<1> QED
  BY <1>3, <1>4, <1>5, <1>6, <1>7 DEF Promise!Fixed, Promise!Reserved

LEMMA PromisedReserve ==
    ASSUME MaxTime <= 2 * TTL, MoneyInv, deposit = Deposit,
           NEW u \in Users, NEW amount \in Amounts, Reserve(u, amount)
    PROVE  Promise!BankNext
<1> DEFINE n == NewReservation(u, amount)
           x == Note(n)
<1>1. /\ rsv' = rsv \cup {n} /\ nextId' = nextId + 1 /\ UNCHANGED ledger
      /\ ~Insufficient(u, amount)
      /\ n.acct = u /\ n.amount = amount /\ n.id = nextId
  BY DEF Reserve, NewReservation
<1>2. x = [id |-> nextId, acct |-> u, amount |-> amount, ref |-> "note"]
  BY <1>1 DEF Note
<1> HIDE DEF n
<1>3. Noted(rsv)' = Noted(rsv) \cup {x} /\ Noted(ledger)' = Noted(ledger)
  <2>1. Noted(rsv)' = {Note(e) : e \in rsv \cup {n}} /\ Noted(rsv) = {Note(e) : e \in rsv}
    BY <1>1 DEF Noted, Note
  <2>2. Noted(ledger)' = Noted(ledger)
    BY <1>1 DEF Noted
  <2> QED
    BY <2>1, <2>2
<1>4. ~Promise!Insufficient(u, amount)
  BY <1>1, PromisedFunds DEF Promise!Insufficient, Insufficient
<1> HIDE DEF x
<1>5. amount # 0
  BY BankAssumption
<1>6. Promise!Reserve(u, amount, "note")
  BY <1>1, <1>2, <1>3, <1>4, <1>5 DEF Promise!Reserve
<1>7. x \in Noted(rsv)' /\ x.acct = u /\ x.amount = amount /\ x.ref = "note"
  BY <1>2, <1>3
<1> QED
  BY <1>6, <1>7 DEF Promise!BankNext

LEMMA PromisedFinish ==
    ASSUME MoneyInv, NEW c \in Clients, CommitReserves(c) \/ CancelReserves(c)
    PROVE  Promise!BankNext
<1> DEFINE ids == req[c].ids
           S == Rows(ids)
<1>1. /\ rsv' = rsv \ S /\ UNCHANGED nextId
      /\ ids \in Batches /\ ids \subseteq Alive
      /\ CommitReserves(c) => ledger' = ledger \cup {Post(e) : e \in S}
      /\ CancelReserves(c) => UNCHANGED ledger
  BY FinishBooks
<1>2. ids # {} /\ ids \subseteq {x.id : x \in Noted(rsv)}
  <2>1. ids # {}
    BY <1>1, BankAssumption
  <2>2. {x.id : x \in {Note(e) : e \in rsv}} = {e.id : e \in rsv}
    BY NoteFields
  <2> QED
    BY <1>1, <2>1, <2>2, NotedIs DEF Alive
<1>3. Noted(rsv)' = {x \in Noted(rsv) : x.id \notin ids}
  <2>1. Noted(rsv)' = {Note(e) : e \in rsv'}
    BY DEF Noted, Note
  <2>2. rsv' = {e \in rsv : e.id \notin ids}
    BY <1>1 DEF Rows
  <2> QED
    BY <2>1, <2>2, NotedIs, NoteFields
<1>4. ASSUME CommitReserves(c)
      PROVE  Noted(ledger)' = Noted(ledger) \cup {x \in Noted(rsv) : x.id \in ids}
  <2>1. Noted(ledger)' = {Note(e) : e \in ledger'}
    BY DEF Noted, Note
  <2>2. \A e : Note(Post(e)) = Note(e)
    BY DEF Note, Post
  <2>3. {Note(e) : e \in S} = {x \in Noted(rsv) : x.id \in ids}
    BY NotedIs, NoteFields DEF Rows
  <2>4. ledger' = ledger \cup {Post(e) : e \in S}
    BY <1>1, <1>4
  <2> HIDE DEF S, ids
  <2>5. Noted(ledger)' = {Note(e) : e \in ledger} \cup {Note(Post(e)) : e \in S}
    BY <2>1, <2>4
  <2>6. {Note(Post(e)) : e \in S} = {Note(e) : e \in S}
    BY <2>2
  <2> QED
    BY <2>3, <2>5, <2>6, NotedIs
<1>5. CancelReserves(c) => Noted(ledger)' = Noted(ledger)
  BY <1>1 DEF Noted
<1> HIDE DEF ids
<1>6. Promise!Commit(ids) \/ Promise!Cancel(ids)
  BY <1>1, <1>2, <1>3, <1>4, <1>5 DEF Promise!Commit, Promise!Cancel
<1> QED
  BY <1>2, <1>6 DEF Promise!BankNext

LEMMA PromisedStep ==
    ASSUME MaxTime <= 2 * TTL, Prices = {}, MoneyInv, deposit = Deposit, [Next]_vars
    PROVE  deposit' = Deposit /\ (Promise!BankNext \/ UNCHANGED Promise!bankVars)
<1>1. CASE \E u \in Users, amount \in Amounts : Reserve(u, amount)
  <2>1. UNCHANGED deposit
    BY <1>1 DEF Reserve
  <2> QED
    BY <1>1, <2>1, PromisedReserve
<1>2. CASE \E c \in Clients : CommitReserves(c) \/ CancelReserves(c)
  BY <1>2, FinishBooks, PromisedFinish
<1>3. CASE \/ \E c \in Clients : \/ Arrive(c) \/ Count(c) \/ CountRefused(c) \/ LockRows(c)
                                 \/ AlreadyCommitted(c) \/ LockFirstUser(c) \/ ApplyCredit(c)
                                 \/ Victim(c)
           \/ Tick \/ UNCHANGED vars
  <2>1. UNCHANGED <<rsv, ledger, nextId, deposit>>
    <3>1. CASE Tick \/ UNCHANGED vars
      BY <3>1 DEF Tick, vars, tables
    <3> QED
      BY <1>3, <3>1, ProgressMoney DEF tables
  <2>2. UNCHANGED Promise!bankVars
    BY <2>1 DEF Promise!bankVars, Noted
  <2> QED
    BY <2>1, <2>2
<1> QED
  BY <1>1, <1>2, <1>3 DEF Next, Progress
-----------------------------------------------------------------------------
(* The theorems. *)

\* The tables and requests keep their shape, the rows a /commit or /cancel has
\* locked are its own until it ends, and a reservation is used once.
THEOREM BankInvariant == Spec => []SettleInv
<1>1. SettleInv /\ [Next]_vars => SettleInv'
  BY StepSettle
<1> QED
  BY <1>1, InitSettle, PTL DEF Spec

\* A reservation is settled or cancelled at most once, however many requests
\* for overlapping batches of them, retries included, are in flight.
THEOREM BankSettledOnce == Spec => []SettledOnce
<1>1. SettleInv => SettledOnce
  BY DEF SettleInv
<1> QED
  BY <1>1, BankInvariant, PTL

\* The rows locked FOR UPDATE are alive, and one request's only.
THEOREM BankRowsGuarded == Spec => []RowsGuarded
<1>1. SettleInv => RowsGuarded
  BY DEF SettleInv
<1> QED
  BY <1>1, BankInvariant, PTL

\* /commit refuses, before it touches a user, only what has expired or was used:
\* the rounding of expire_at and of NOW() never shortens the five minutes.
THEOREM BankCommitHonoured == Spec => CommitHonoured
<1>1. SettleInv /\ [Next]_vars =>
        [\A c \in Clients :
           /\ req[c].kind = "commit" /\ req[c].pc \in {"count", "rows"}
           /\ req'[c].pc = "idle"
           => \E i \in req[c].ids :
                i \in Alive => \E e \in Rows({i}) : now > e.made + 2 * TTL]_vars
  BY StepHonoured
<1> QED
  BY <1>1, BankInvariant, PTL DEF Spec, CommitHonoured

\* SettleInv, the types of the money and of the snapshots, finite tables, and no
\* reservation alive that was posted.
THEOREM BankMoney == Spec => []MoneyInv
<1>1. MoneyInv /\ [Next]_vars => MoneyInv'
  BY StepMoney
<1> QED
  BY <1>1, InitMoney, PTL DEF Spec

\* Every table, request and snapshot keeps its shape.
THEOREM BankTypeOK == Spec => []TypeOK
<1>1. MoneyInv => TypeOK
  BY DEF MoneyInv
<1> QED
  BY <1>1, BankMoney, PTL

\* A user's settled money covers what he has reserved, whatever the requests in
\* flight do, unless a reservation of his was settled after /reserve had stopped
\* counting it (/commit compares whole seconds, /reserve microseconds).
THEOREM BankCoveredUnlessLate == Spec => []CoveredUnlessLate
<1>1. MoneyInv /\ CoveredUnlessLate /\ [Next]_vars => CoveredUnlessLate'
  <2> SUFFICES ASSUME MoneyInv, CoveredUnlessLate, [Next]_vars, NEW u \in Users
               PROVE  (Fixed(u) + Reserved(u) >= 0 \/ Overdrawn(u))'
    BY DEF CoveredUnlessLate, Overdrawn
  <2> QED
    BY StepCovered
<1> QED
  BY <1>1, InitCovered, BankMoney, PTL DEF Spec

\* Until a reservation expires and while nobody is given credit, every step of
\* the server, whatever the interleaving of the requests, is one atomic step of
\* the bank the exchange is modelled against, or none.
THEOREM BankImplementsIsuBank ==
    ASSUME MaxTime <= 2 * TTL, Prices = {}
    PROVE  Spec => ImplementsIsuBank
<1>1. Init => NoCredit
  BY DEF Init, NoCredit
<1>2. MoneyInv /\ NoCredit /\ [Next]_vars => NoCredit' /\ [Promise!BankNext]_(Promise!bankVars)
  BY PromisedStep DEF NoCredit
<1> QED
  BY <1>1, <1>2, BankMoney, PTL DEF Spec, ImplementsIsuBank
=============================================================================
