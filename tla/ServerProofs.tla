---------------------------- MODULE ServerProofs ----------------------------
(***************************************************************************)
(* Theorems about Server for every number of slots, connections, changes   *)
(* of the orders and restarts.                                             *)
(***************************************************************************)
EXTENDS Server, FiniteSetTheorems, TLAPS

Waits == {"mw", "wait"}
Works == {"mw_query", "work", "filling", "done"}
Request == [pc : {"none", "mw", "mw_query", "wait", "work", "filling", "done", "ok",
                  "failed", "hung"},
            kind : Kinds, then : Seq(Kinds), user : BOOLEAN, rev : 0..MaxRev, sess : BOOLEAN]

\* The types of what no handler shares with the pool.
RestOK ==
    /\ session \in BOOLEAN /\ account \in BOOLEAN /\ cached \in BOOLEAN
    /\ timer \in {"armed", "due", "waiting", "running", "done"}
    /\ rev \in [all : 0..MaxRev, traded : 0..MaxRev]
    /\ page \in [user : BOOLEAN, list : 0..MaxRev, told : 0..MaxRev, polling : BOOLEAN]
    /\ restarts \in 0..MaxRestarts /\ upset \in BOOLEAN
\* Only the handlers that write have changes behind them.
StageInv == \A s \in Slots : req[s].pc \in {"filling", "done"} => req[s].kind # "orders"
PoolInv == TypeOK /\ ConnectionPerRequest /\ QueueOfWaiters /\ StageInv

LEMMA TypeOKParts ==
    TypeOK <=> /\ holder \in [Conns -> Slots \cup {Nobody, Timer, Lost}]
               /\ queue \in Seq(Slots \cup {Timer})
               /\ req \in [Slots -> Request]
               /\ \A s \in Slots : req[s].pc = "none" => req[s] = NoReq
               /\ RestOK
  BY DEF TypeOK, Request, RestOK

LEMMA SpecialHolders ==
    /\ Nobody # Timer /\ Nobody # Lost /\ Timer # Lost
    /\ Nobody \notin Slots /\ Timer \notin Slots /\ Lost \notin Slots
<1>1. {Nobody, Timer, Lost} \cap Slots = {} /\ Cardinality({Nobody, Timer, Lost}) = 3
  BY ServerAssumption
<1>2. \A x, y : Cardinality({x, y}) # 3
  <2> SUFFICES ASSUME NEW x, NEW y PROVE Cardinality({x, y}) # 3
    OBVIOUS
  <2>1. IsFiniteSet({}) /\ Cardinality({}) = 0
    BY FS_EmptySet
  <2>2. IsFiniteSet({x}) /\ Cardinality({x}) = 1
    BY FS_Singleton
  <2>3. Cardinality({x} \cup {y}) = IF y \in {x} THEN 1 ELSE 2
    BY <2>2, FS_AddElement
  <2>4. {x} \cup {y} = {x, y}
    OBVIOUS
  <2> QED
    BY <2>3, <2>4
<1>3. Nobody # Timer /\ Nobody # Lost /\ Timer # Lost
  <2>1. ASSUME Nobody = Timer PROVE FALSE
    <3>1. {Nobody, Timer, Lost} = {Nobody, Lost}
      BY <2>1
    <3> QED
      BY <1>1, <1>2, <3>1
  <2>2. ASSUME Nobody = Lost PROVE FALSE
    <3>1. {Nobody, Timer, Lost} = {Nobody, Timer}
      BY <2>2
    <3> QED
      BY <1>1, <1>2, <3>1
  <2>3. ASSUME Timer = Lost PROVE FALSE
    <3>1. {Nobody, Timer, Lost} = {Nobody, Timer}
      BY <2>3
    <3> QED
      BY <1>1, <1>2, <3>1
  <2> QED
    BY <2>1, <2>2, <2>3
<1> QED
  BY <1>1, <1>3

LEMMA Constants ==
    /\ NoReq \in Request /\ NoReq.pc = "none"
    /\ \A chain \in Chains : chain \in Seq(Kinds) /\ chain # <<>>
<1>1. NoReq \in Request /\ NoReq.pc = "none"
  BY ServerAssumption DEF NoReq, Request, Kinds
<1>2. \A a, b, c \in Kinds :
        /\ <<a>> \in Seq(Kinds) /\ <<a, b>> \in Seq(Kinds) /\ <<a, b, c>> \in Seq(Kinds)
        /\ <<a>> # <<>> /\ <<a, b>> # <<>> /\ <<a, b, c>> # <<>>
  OBVIOUS
<1>3. {"info", "signup", "signin", "signout", "orders", "order", "initialize"} \subseteq Kinds
  BY DEF Kinds
<1>4. \A chain \in Chains : chain \in Seq(Kinds) /\ chain # <<>>
  BY <1>2, <1>3 DEF Chains
<1> QED
  BY <1>1, <1>4

LEMMA InitPool == Init => PoolInv
<1> SUFFICES ASSUME Init PROVE PoolInv
  OBVIOUS
<1> USE SpecialHolders, ServerAssumption DEF Init
<1>1. TypeOK
  <2>1. queue \in Seq(Slots \cup {Timer})
    OBVIOUS
  <2>2. RestOK
    <3>1. 0 \in 0..MaxRev /\ 0 \in 0..MaxRestarts
      OBVIOUS
    <3>2. /\ rev \in [all : 0..MaxRev, traded : 0..MaxRev]
          /\ page \in [user : BOOLEAN, list : 0..MaxRev, told : 0..MaxRev,
                        polling : BOOLEAN]
      BY <3>1
    <3>3. timer \in {"armed", "due", "waiting", "running", "done"} /\ restarts \in 0..MaxRestarts
      BY <3>1
    <3>4. session \in BOOLEAN /\ account \in BOOLEAN /\ cached \in BOOLEAN /\ upset \in BOOLEAN
      BY Zenon
    <3> QED
      BY <3>2, <3>3, <3>4 DEF RestOK
  <2> QED
    BY <2>1, <2>2, Constants, TypeOKParts
<1>2. ConnectionPerRequest
  BY Constants DEF ConnectionPerRequest, Busy
<1>3. QueueOfWaiters
  BY Constants DEF QueueOfWaiters
<1>4. StageInv
  BY Constants DEF StageInv
<1> QED
  BY <1>1, <1>2, <1>3, <1>4 DEF PoolInv
-----------------------------------------------------------------------------
(* The shapes a step of a slot can have. *)

\* Somebody who is not in the queue is appended to it.
LEMMA AppendWaiter ==
    ASSUME NEW q \in Seq(Slots \cup {Timer}), NEW x \in Slots \cup {Timer},
           \A i \in DOMAIN q : q[i] # x,
           \A i, j \in DOMAIN q : q[i] = q[j] => i = j
    PROVE  /\ Append(q, x) \in Seq(Slots \cup {Timer})
           /\ \A i, j \in DOMAIN Append(q, x) : Append(q, x)[i] = Append(q, x)[j] => i = j
           /\ \A y : (\E i \in DOMAIN Append(q, x) : Append(q, x)[i] = y)
                      <=> (y = x \/ \E i \in DOMAIN q : q[i] = y)
<1> DEFINE a == Append(q, x)
<1>1. a \in Seq(Slots \cup {Timer}) /\ Len(a) = Len(q) + 1 /\ Len(q) \in Nat
  OBVIOUS
<1>2. DOMAIN a = 1..(Len(q) + 1) /\ DOMAIN q = 1..Len(q)
  BY <1>1
<1>3. \A i \in DOMAIN q : i \in DOMAIN a /\ a[i] = q[i]
  BY <1>2
<1>4. Len(q) + 1 \in DOMAIN a /\ a[Len(q) + 1] = x
  BY <1>1, <1>2
<1>5. \A i \in DOMAIN a : i \in DOMAIN q \/ i = Len(q) + 1
  BY <1>1, <1>2
<1> HIDE DEF a
<1>6. \A i, j \in DOMAIN a : a[i] = a[j] => i = j
  BY <1>3, <1>4, <1>5
<1>7. \A y : (\E i \in DOMAIN a : a[i] = y) <=> (y = x \/ \E i \in DOMAIN q : q[i] = y)
  BY <1>3, <1>4, <1>5
<1> QED
  BY <1>1, <1>6, <1>7 DEF a

\* A slot goes on to r: it gives its connection back, or loses it, and asks
\* for another one exactly when r waits.
LEMMA MovePool ==
    ASSUME PoolInv, NEW s \in Slots, NEW r \in Request,
           req[s].pc \notin Waits, r.pc \notin Works, r.pc = "none" => r = NoReq,
           req' = [req EXCEPT ![s] = r],
           queue' = IF r.pc \in Waits THEN Append(queue, s) ELSE queue,
           \/ Release(s)
           \/ Lose(s)
           \/ UNCHANGED holder /\ req[s].pc \notin Works,
           RestOK', timer' = "waiting" <=> timer = "waiting"
    PROVE  PoolInv'
<1> USE SpecialHolders DEF PoolInv
<1>1. /\ holder \in [Conns -> Slots \cup {Nobody, Timer, Lost}]
      /\ queue \in Seq(Slots \cup {Timer}) /\ req \in [Slots -> Request]
      /\ \A x \in Slots : req[x].pc = "none" => req[x] = NoReq
  BY TypeOKParts
<1>2. /\ req'[s] = r /\ \A x \in Slots \ {s} : req'[x] = req[x]
      /\ req' \in [Slots -> Request]
  BY <1>1
<1>3. \A k \in Conns :
        /\ holder'[k] # s
        /\ \A x \in Slots \ {s} : holder'[k] = x <=> holder[k] = x
  BY <1>1 DEF Release, Lose, ConnectionPerRequest, Busy, Works
<1>4. holder' \in [Conns -> Slots \cup {Nobody, Timer, Lost}]
  BY <1>1 DEF Release, Lose
<1>5. \A i \in DOMAIN queue : queue[i] # s
  BY DEF QueueOfWaiters, Waits
<1>6. \A i, j \in DOMAIN queue : queue[i] = queue[j] => i = j
  BY DEF QueueOfWaiters
<1>7. /\ queue' \in Seq(Slots \cup {Timer})
      /\ \A i, j \in DOMAIN queue' : queue'[i] = queue'[j] => i = j
      /\ \A y : (\E i \in DOMAIN queue' : queue'[i] = y)
                 <=> ((y = s /\ r.pc \in Waits) \/ \E i \in DOMAIN queue : queue[i] = y)
  <2>1. CASE r.pc \in Waits
    BY <1>1, <1>5, <1>6, <2>1, AppendWaiter
  <2>2. CASE r.pc \notin Waits
    BY <1>1, <1>6, <2>2
  <2> QED
    BY <2>1, <2>2
<1>8. TypeOK'
  <2>1. \A x \in Slots : req'[x].pc = "none" => req'[x] = NoReq
    BY <1>1, <1>2
  <2> QED
    BY <1>2, <1>4, <1>7, <2>1, TypeOKParts DEF TypeOK, Request, RestOK, NoReq
<1>9. ConnectionPerRequest'
  <2> SUFFICES ASSUME NEW x \in Slots
               PROVE  /\ Busy(x)' <=> \E k \in Conns : holder'[k] = x
                      /\ \A k, m \in Conns : holder'[k] = x /\ holder'[m] = x => k = m
    BY DEF ConnectionPerRequest
  <2>1. CASE x = s
    BY <1>2, <1>3, <2>1 DEF Busy, Works
  <2>2. CASE x # s
    BY <1>2, <1>3, <2>2 DEF Busy, ConnectionPerRequest
  <2> QED
    BY <2>1, <2>2
<1>10. QueueOfWaiters'
  <2>1. \A x \in Slots : req'[x].pc \in Waits <=> \E i \in DOMAIN queue' : queue'[i] = x
    <3> SUFFICES ASSUME NEW x \in Slots
                 PROVE  req'[x].pc \in Waits <=> \E i \in DOMAIN queue' : queue'[i] = x
      OBVIOUS
    <3>1. CASE x = s
      BY <1>2, <1>5, <1>7, <3>1
    <3>2. CASE x # s
      BY <1>2, <1>7, <3>2 DEF QueueOfWaiters, Waits
    <3> QED
      BY <3>1, <3>2
  <2>2. timer' = "waiting" <=> \E i \in DOMAIN queue' : queue'[i] = Timer
    BY <1>7 DEF QueueOfWaiters
  <2> QED
    BY <1>7, <2>1, <2>2 DEF QueueOfWaiters, Waits
<1>11. StageInv'
  BY <1>2 DEF StageInv, Works
<1> QED
  BY <1>8, <1>9, <1>10, <1>11

\* A handler goes on with its connection.
LEMMA StagePool ==
    ASSUME PoolInv, NEW s \in Slots, NEW pc \in {"filling", "done"},
           req[s].pc \in Works, req[s].kind # "orders",
           req' = [req EXCEPT ![s].pc = pc], UNCHANGED <<holder, queue>>,
           RestOK', timer' = "waiting" <=> timer = "waiting"
    PROVE  PoolInv'
<1>1. req \in [Slots -> Request] /\ \A x \in Slots : req[x].pc = "none" => req[x] = NoReq
  BY TypeOKParts DEF PoolInv
<1>2. /\ req' \in [Slots -> Request] /\ req'[s].pc = pc /\ req'[s].kind = req[s].kind
      /\ \A x \in Slots \ {s} : req'[x] = req[x]
  BY <1>1 DEF Request
<1>3. TypeOK'
  <2>1. \A x \in Slots : req'[x].pc = "none" => req'[x] = NoReq
    BY <1>1, <1>2
  <2> QED
    BY <1>2, <2>1, TypeOKParts DEF PoolInv, TypeOK, Request, RestOK, NoReq
<1>4. \A x \in Slots : /\ req'[x].pc \in Works <=> req[x].pc \in Works
                       /\ req'[x].pc \in Waits <=> req[x].pc \in Waits
  BY <1>2 DEF Works, Waits
<1>5. ConnectionPerRequest'
  BY <1>4 DEF PoolInv, ConnectionPerRequest, Busy, Works
<1>6. QueueOfWaiters'
  BY <1>4 DEF PoolInv, QueueOfWaiters, Waits
<1>7. StageInv'
  BY <1>2 DEF PoolInv, StageInv
<1> QED
  BY <1>3, <1>5, <1>6, <1>7 DEF PoolInv

\* A step that leaves the pool, its queue and the requests alone.
LEMMA RestPool ==
    ASSUME PoolInv, UNCHANGED <<holder, queue, req>>, RestOK',
           timer' = "waiting" <=> timer = "waiting"
    PROVE  PoolInv'
<1>1. TypeOK'
  BY TypeOKParts DEF PoolInv, TypeOK, Request, RestOK, NoReq
<1>2. ConnectionPerRequest'
  BY DEF PoolInv, ConnectionPerRequest, Busy
<1>3. QueueOfWaiters'
  BY DEF PoolInv, QueueOfWaiters
<1>4. StageInv'
  BY DEF PoolInv, StageInv
<1> QED
  BY <1>1, <1>2, <1>3, <1>4 DEF PoolInv
-----------------------------------------------------------------------------
(* The actions. *)

LEMMA SendPool ==
    ASSUME PoolInv, NEW s \in Slots, NEW chain \in Seq(Kinds), chain # <<>>,
           req[s].pc \notin Waits \cup Works, Send(s, chain),
           UNCHANGED holder, RestOK', timer' = "waiting" <=> timer = "waiting"
    PROVE  PoolInv'
<1> DEFINE pc == IF session THEN "mw" ELSE Entry(Head(chain), FALSE)
           r == [[NoReq EXCEPT !.kind = Head(chain), !.then = Tail(chain), !.sess = session]
                   EXCEPT !.pc = pc]
<1>1. pc \in {"mw", "wait", "failed", "hung"}
  BY DEF Entry
<1>2. Head(chain) \in Kinds /\ Tail(chain) \in Seq(Kinds) /\ session \in BOOLEAN
  BY DEF PoolInv, TypeOK
<1>3. r \in Request /\ r.pc = pc
  <2>1. pc \in {"none", "mw", "mw_query", "wait", "work", "filling", "done", "ok",
                "failed", "hung"}
    BY <1>1
  <2> HIDE DEF pc
  <2>2. \A q \in Request : /\ [q EXCEPT !.kind = Head(chain), !.then = Tail(chain),
                                       !.sess = session] \in Request
                           /\ [q EXCEPT !.pc = pc] \in Request
                           /\ [q EXCEPT !.pc = pc].pc = pc
    BY <1>2, <2>1 DEF Request
  <2> QED
    BY <2>2, Constants
<1>4. /\ req' = [req EXCEPT ![s] = r]
      /\ queue' = IF pc \in Waits THEN Append(queue, s) ELSE queue
  BY DEF Send, Goto, Waits
<1> HIDE DEF pc, r
<1> QED
  BY <1>1, <1>3, <1>4, MovePool DEF Waits, Works

LEMMA StartPool ==
    ASSUME PoolInv, NEW s \in Slots, NEW chain \in Chains, Start(s, chain)
    PROVE  PoolInv'
<1>1. RestOK' /\ UNCHANGED <<holder, timer>> /\ Send(s, chain)
  BY DEF PoolInv, TypeOK, RestOK, Start, dbVars, procVars
<1>2. req[s].pc \notin Waits \cup Works
  BY DEF Start, Waits, Works
<1> QED
  BY <1>1, <1>2, Constants, SendPool

LEMMA TakePool == ASSUME PoolInv, Take PROVE PoolInv'
<1> USE SpecialHolders DEF PoolInv
<1> DEFINE h == Head(queue)
<1>1. /\ holder \in [Conns -> Slots \cup {Nobody, Timer, Lost}]
      /\ queue \in Seq(Slots \cup {Timer}) /\ req \in [Slots -> Request]
      /\ \A x \in Slots : req[x].pc = "none" => req[x] = NoReq
  BY TypeOKParts
<1>2. queue # <<>> /\ queue' = Tail(queue)
  BY DEF Take
<1>3. h \in Slots \cup {Timer} /\ queue' \in Seq(Slots \cup {Timer})
  BY <1>1, <1>2
<1>4. /\ Len(queue) \in Nat /\ Len(queue) >= 1
      /\ DOMAIN queue = 1..Len(queue) /\ DOMAIN queue' = 1..(Len(queue) - 1)
      /\ h = queue[1] /\ \A i \in DOMAIN queue' : queue'[i] = queue[i + 1]
  BY <1>1, <1>2
<1>5. \A i, j \in DOMAIN queue : queue[i] = queue[j] => i = j
  BY DEF QueueOfWaiters
<1>6. \A i \in DOMAIN queue' : i + 1 \in DOMAIN queue /\ queue'[i] = queue[i + 1]
                                /\ queue'[i] # h
  <2> SUFFICES ASSUME NEW i \in DOMAIN queue' PROVE i + 1 \in DOMAIN queue /\ queue[i + 1] # h
    BY <1>4
  <2>1. i + 1 \in DOMAIN queue /\ 1 \in DOMAIN queue /\ i + 1 # 1
    BY <1>4
  <2> QED
    BY <1>4, <1>5, <2>1
<1>7. /\ \A i, j \in DOMAIN queue' : queue'[i] = queue'[j] => i = j
      /\ \A y : (\E i \in DOMAIN queue' : queue'[i] = y)
                 <=> (y # h /\ \E i \in DOMAIN queue : queue[i] = y)
  <2>1. \A i, j \in DOMAIN queue' : queue'[i] = queue'[j] => i = j
    BY <1>4, <1>5, <1>6
  <2>2. \A y : (\E i \in DOMAIN queue' : queue'[i] = y)
                => (y # h /\ \E i \in DOMAIN queue : queue[i] = y)
    BY <1>6
  <2>3. \A i \in DOMAIN queue : i = 1 \/ (i - 1 \in DOMAIN queue' /\ queue'[i - 1] = queue[i])
    BY <1>4
  <2> QED
    BY <1>4, <2>1, <2>2, <2>3
<1>8. PICK k \in Conns : holder[k] = Nobody /\ holder' = [holder EXCEPT ![k] = h]
  BY DEF Take
<1>9. \E i \in DOMAIN queue : queue[i] = h
  BY <1>4
<1>10. CASE h = Timer
  <2>1. UNCHANGED req /\ timer = "waiting" /\ timer' = "running"
    BY <1>9, <1>10 DEF Take, QueueOfWaiters
  <2>2. TypeOK'
    <3>1. RestOK'
      BY <2>1 DEF Take, TypeOK, RestOK, dbVars
    <3>2. holder' \in [Conns -> Slots \cup {Nobody, Timer, Lost}]
      BY <1>1, <1>3, <1>8
    <3> QED
      BY <1>1, <1>3, <2>1, <3>1, <3>2 DEF TypeOK, Request, RestOK, NoReq
  <2>3. ConnectionPerRequest'
    BY <1>1, <1>8, <1>10, <2>1 DEF ConnectionPerRequest, Busy
  <2>4. QueueOfWaiters'
    <3>1. \A x \in Slots : req'[x].pc \in Waits <=> \E i \in DOMAIN queue' : queue'[i] = x
      BY <1>7, <1>10, <2>1 DEF QueueOfWaiters, Waits
    <3> QED
      BY <1>7, <1>10, <2>1, <3>1 DEF QueueOfWaiters, Waits
  <2>5. StageInv'
    BY <2>1 DEF StageInv
  <2> QED
    BY <2>2, <2>3, <2>4, <2>5
<1>11. CASE h # Timer
  <2> DEFINE r == [req[h] EXCEPT !.pc = IF req[h].pc = "mw" THEN "mw_query" ELSE "work"]
  <2>1. h \in Slots /\ req[h].pc \in Waits
    BY <1>3, <1>9, <1>11 DEF QueueOfWaiters, Waits
  <2>2. req' = [req EXCEPT ![h] = r] /\ UNCHANGED timer
    BY <1>1, <1>11, <2>1 DEF Take
  <2>3. r \in Request /\ r.pc \in Works /\ r.pc \notin {"filling", "done"}
    BY <1>1, <2>1 DEF Request, Works
  <2> HIDE DEF r
  <2>4. /\ req'[h] = r /\ \A x \in Slots \ {h} : req'[x] = req[x]
        /\ req' \in [Slots -> Request]
    BY <1>1, <2>1, <2>2, <2>3
  <2>5. TypeOK'
    <3>1. RestOK'
      BY <2>2 DEF Take, TypeOK, RestOK, dbVars
    <3>2. holder' \in [Conns -> Slots \cup {Nobody, Timer, Lost}]
      BY <1>1, <1>3, <1>8
    <3>3. \A x \in Slots : req'[x].pc = "none" => req'[x] = NoReq
      BY <1>1, <2>3, <2>4 DEF Works
    <3> QED
      BY <1>3, <2>4, <3>1, <3>2, <3>3 DEF TypeOK, Request, RestOK, NoReq
  <2>6. ConnectionPerRequest'
    <3> SUFFICES ASSUME NEW x \in Slots
                 PROVE  /\ Busy(x)' <=> \E m \in Conns : holder'[m] = x
                        /\ \A m, n \in Conns : holder'[m] = x /\ holder'[n] = x => m = n
      BY DEF ConnectionPerRequest
    <3>1. CASE x = h
      <4>1. \A m \in Conns : holder[m] # h
        BY <2>1 DEF ConnectionPerRequest, Busy, Waits
      <4> QED
        BY <1>1, <1>8, <2>3, <2>4, <3>1, <4>1 DEF Busy, Works
    <3>2. CASE x # h
      BY <1>1, <1>8, <2>4, <3>2 DEF Busy, ConnectionPerRequest
    <3> QED
      BY <3>1, <3>2
  <2>7. QueueOfWaiters'
    <3>1. \A x \in Slots : req'[x].pc \in Waits <=> \E i \in DOMAIN queue' : queue'[i] = x
      <4> SUFFICES ASSUME NEW x \in Slots
                   PROVE  req'[x].pc \in Waits <=> \E i \in DOMAIN queue' : queue'[i] = x
        OBVIOUS
      <4>1. CASE x = h
        BY <1>7, <2>3, <2>4, <4>1 DEF Waits, Works
      <4>2. CASE x # h
        BY <1>7, <2>4, <4>2 DEF QueueOfWaiters, Waits
      <4> QED
        BY <4>1, <4>2
    <3>2. timer' = "waiting" <=> \E i \in DOMAIN queue' : queue'[i] = Timer
      BY <1>7, <1>11, <2>2 DEF QueueOfWaiters
    <3> QED
      BY <1>7, <3>1, <3>2 DEF QueueOfWaiters, Waits
  <2>8. StageInv'
    BY <2>3, <2>4 DEF StageInv
  <2> QED
    BY <2>5, <2>6, <2>7, <2>8
<1> QED
  BY <1>10, <1>11

\* The request of a slot goes on at pc.
LEMMA AtPc ==
    ASSUME TypeOK, NEW s \in Slots,
           NEW pc \in {"mw", "mw_query", "wait", "work", "filling", "done", "ok",
                       "failed", "hung"}
    PROVE  /\ [req[s] EXCEPT !.pc = pc] \in Request
           /\ [req[s] EXCEPT !.pc = pc].pc = pc
           /\ [req EXCEPT ![s].pc = pc] = [req EXCEPT ![s] = [req[s] EXCEPT !.pc = pc]]
<1>1. req \in [Slots -> Request]
  BY TypeOKParts
<1> QED
  BY <1>1 DEF Request

LEMMA MiddlewarePool ==
    ASSUME PoolInv, NEW s \in Slots, Middleware(s) PROVE PoolInv'
<1> DEFINE pc == IF account THEN Entry(req[s].kind, TRUE) ELSE "failed"
           q == [req[s] EXCEPT !.user = account /\ req[s].kind = "info"]
           r == [q EXCEPT !.pc = pc]
<1>1. req \in [Slots -> Request] /\ account \in BOOLEAN
  BY TypeOKParts DEF PoolInv, TypeOK
<1>2. pc \in {"wait", "failed", "hung"}
  BY DEF Entry
<1>3. (account /\ req[s].kind = "info") \in BOOLEAN
  OBVIOUS
<1>4. q \in Request
  BY <1>1, <1>3 DEF Request
<1>5. r \in Request /\ r.pc = pc
  BY <1>2, <1>4 DEF Request
<1>6. /\ req' = [req EXCEPT ![s] = r]
      /\ queue' = IF pc \in Waits THEN Append(queue, s) ELSE queue
      /\ Release(s) /\ req[s].pc = "mw_query"
  BY <1>2 DEF Middleware, Goto, Waits
<1>7. RestOK' /\ UNCHANGED timer
  <2>1. session' \in BOOLEAN
    BY DEF Middleware
  <2> QED
    BY <2>1 DEF Middleware, PoolInv, TypeOK, RestOK, dbVars
<1> HIDE DEF pc, r
<1> QED
  BY <1>2, <1>5, <1>6, <1>7, MovePool DEF Waits, Works

LEMMA ThrowsPool ==
    ASSUME PoolInv, NEW s \in Slots, req[s].pc \in Works, Throws(s),
           account' \in BOOLEAN, upset' \in BOOLEAN
    PROVE  PoolInv'
<1>1. RestOK' /\ UNCHANGED timer
  BY DEF Throws, PoolInv, TypeOK, RestOK, procVars
<1>2. UNCHANGED queue /\ Lose(s) /\ req' = [req EXCEPT ![s].pc = "hung"]
  BY DEF Throws
<1> QED
  BY <1>1, <1>2, AtPc, MovePool DEF PoolInv, Waits, Works

\* A handler that releases its connection and answers.
LEMMA AnswersPool ==
    ASSUME PoolInv, NEW s \in Slots, NEW r \in Request, req[s].pc \in Works,
           r.pc \in {"ok", "failed"}, req' = [req EXCEPT ![s] = r],
           Release(s), UNCHANGED queue, RestOK', timer' = "waiting" <=> timer = "waiting"
    PROVE  PoolInv'
  BY MovePool DEF Waits, Works

LEMMA HandlePool ==
    ASSUME PoolInv, NEW s \in Slots, Handle(s) PROVE PoolInv'
<1>0. /\ req \in [Slots -> Request] /\ req[s].sess \in BOOLEAN /\ RestOK
      /\ account \in BOOLEAN /\ upset \in BOOLEAN
  BY TypeOKParts DEF PoolInv, TypeOK, Request
<1>1. CASE Middleware(s)
  BY <1>1, MiddlewarePool
<1>2. CASE MiddlewareThrows(s) \/ HandlerThrows(s) \/ InfoOfColdCache(s)
  <2>1. req[s].pc \in Works /\ Throws(s)
    BY <1>2 DEF MiddlewareThrows, HandlerThrows, InfoOfColdCache, Working, Works
  <2>2. account' \in BOOLEAN /\ upset' \in BOOLEAN
    BY <1>0, <1>2 DEF MiddlewareThrows, HandlerThrows, InfoOfColdCache
  <2> QED
    BY <2>1, <2>2, ThrowsPool
<1>3. ASSUME NEW pc \in {"ok", "failed"}, req' = [req EXCEPT ![s].pc = pc], Release(s),
             UNCHANGED queue, req[s].pc \in Works, RestOK', timer' = "waiting" <=> timer = "waiting"
      PROVE  PoolInv'
  BY <1>3, AtPc, AnswersPool DEF PoolInv
<1>4. ASSUME NEW n \in 0..MaxRev, req[s].pc = "work", Release(s),
             req' = [req EXCEPT ![s].pc = "ok", ![s].rev = n], session' = req[s].sess,
             UNCHANGED <<queue, dbVars, cached, timer, page, restarts, upset>>
      PROVE  PoolInv'
  <2> DEFINE r == [[req[s] EXCEPT !.pc = "ok"] EXCEPT !.rev = n]
  <2>2. r \in Request /\ r.pc = "ok"
    BY <1>0 DEF Request
  <2>3. req' = [req EXCEPT ![s] = r]
    BY <1>0, <1>4
  <2>4. RestOK' /\ UNCHANGED <<queue, timer>>
    BY <1>0, <1>4 DEF RestOK, dbVars
  <2> HIDE DEF r
  <2> QED
    BY <1>4, <2>2, <2>3, <2>4, AnswersPool DEF Works
<1>5. CASE Refuses(s)
  <2>1. RestOK' /\ UNCHANGED timer
    BY <1>0, <1>5 DEF Refuses, Answers, RestOK, dbVars
  <2> QED
    BY <1>3, <1>5, <2>1 DEF Refuses, Answers, Works
<1>6. CASE Info(s)
  <2>1. rev.traded \in 0..MaxRev
    BY <1>0 DEF RestOK
  <2> QED
    BY <1>4, <1>6, <2>1 DEF Info, Working
<1>7. CASE Orders(s)
  <2>1. rev.all \in 0..MaxRev
    BY <1>0 DEF RestOK
  <2> QED
    BY <1>4, <1>7, <2>1 DEF Orders, Working
<1>8. CASE Order(s)
  <2>1. rev' \in [all : 0..MaxRev, traded : 0..MaxRev]
    BY <1>0, <1>8, ServerAssumption DEF Order, RestOK
  <2>2. RestOK' /\ UNCHANGED <<holder, queue, timer>>
    BY <1>0, <1>8, <2>1 DEF Order, Commits, RestOK, poolVars
  <2> QED
    BY <1>8, <2>2, StagePool DEF Order, Commits, Working, Works
<1>9. CASE Signup(s)
  <2>1. RestOK' /\ UNCHANGED <<holder, queue, timer>>
    BY <1>0, <1>9 DEF Signup, Commits, RestOK, poolVars
  <2> QED
    BY <1>9, <2>1, StagePool DEF Signup, Commits, Working, Works
<1>10. CASE Answer(s)
  <2>1. timer' \in {timer, "due"} /\ (timer' = "waiting" <=> timer = "waiting")
    BY <1>10 DEF Answer
  <2>2. RestOK'
    BY <1>0, <1>10, <2>1 DEF Answer, Answers, RestOK, dbVars
  <2> QED
    BY <1>3, <1>10, <2>1, <2>2 DEF Answer, Answers, Works
<1>11. CASE CommitAnswerLost(s)
  <2>1. upset' \in BOOLEAN
    BY <1>0, <1>11 DEF CommitAnswerLost
  <2>2. RestOK' /\ UNCHANGED timer
    BY <1>0, <1>11, <2>1 DEF CommitAnswerLost, Answers, RestOK, dbVars
  <2> QED
    BY <1>3, <1>11, <2>2 DEF CommitAnswerLost, Answers, Works
<1>12. CASE Signin(s)
  <2>1. RestOK' /\ UNCHANGED timer
    BY <1>0, <1>12 DEF Signin, RestOK, dbVars
  <2> QED
    BY <1>3, <1>12, <2>1 DEF Signin, Working, Works
<1>13. CASE Initialize(s)
  <2>1. account' \in BOOLEAN
    BY <1>0, <1>13 DEF Initialize
  <2>2. RestOK' /\ UNCHANGED <<holder, queue, timer>>
    BY <1>0, <1>13, <2>1 DEF Initialize, RestOK, poolVars
  <2> QED
    BY <1>13, <2>2, StagePool DEF Initialize, Working, Works
<1>14. CASE FillCache(s)
  <2>1. RestOK' /\ UNCHANGED <<holder, queue, timer>>
    BY <1>0, <1>14 DEF FillCache, Commits, RestOK, poolVars, dbVars
  <2>2. req[s].kind # "orders"
    BY <1>14 DEF FillCache, PoolInv, StageInv
  <2> QED
    BY <1>14, <2>1, <2>2, StagePool DEF FillCache, Commits, Works
<1> QED
  BY <1>1, <1>2, <1>5, <1>6, <1>7, <1>8, <1>9, <1>10, <1>11, <1>12, <1>13, <1>14 DEF Handle

LEMMA TimerPool ==
    ASSUME PoolInv, TimerFires \/ TimerTrades \/ TimerEnds PROVE PoolInv'
<1>1. CASE timer = "due" /\ TimerFires
  <2>1. /\ timer' = "waiting" /\ queue' = Append(queue, Timer) /\ UNCHANGED <<holder, req>>
        /\ RestOK'
    BY <1>1 DEF TimerFires, PoolInv, TypeOK, RestOK, dbVars
  <2>2. /\ queue \in Seq(Slots \cup {Timer})
        /\ \A i \in DOMAIN queue : queue[i] # Timer
        /\ \A i, j \in DOMAIN queue : queue[i] = queue[j] => i = j
    BY <1>1 DEF PoolInv, TypeOK, QueueOfWaiters
  <2>3. /\ queue' \in Seq(Slots \cup {Timer})
        /\ \A i, j \in DOMAIN queue' : queue'[i] = queue'[j] => i = j
        /\ \A y : (\E i \in DOMAIN queue' : queue'[i] = y)
                   <=> (y = Timer \/ \E i \in DOMAIN queue : queue[i] = y)
    BY <2>1, <2>2, AppendWaiter
  <2>4. TypeOK'
    BY <2>1, <2>3 DEF PoolInv, TypeOK, RestOK, NoReq
  <2>5. ConnectionPerRequest'
    BY <2>1 DEF PoolInv, ConnectionPerRequest, Busy
  <2>6. QueueOfWaiters'
    BY <2>1, <2>3, SpecialHolders DEF PoolInv, QueueOfWaiters
  <2>7. StageInv'
    BY <2>1 DEF PoolInv, StageInv
  <2> QED
    BY <2>4, <2>5, <2>6, <2>7 DEF PoolInv
<1>2. CASE timer = "armed" /\ TimerFires
  <2>1. RestOK' /\ UNCHANGED <<holder, queue, req>> /\ timer' = "done"
    BY <1>2 DEF TimerFires, PoolInv, TypeOK, RestOK, dbVars
  <2> QED
    BY <1>2, <2>1, RestPool
<1>3. CASE TimerTrades
  <2>1. rev' \in [all : 0..MaxRev, traded : 0..MaxRev]
    BY <1>3, ServerAssumption DEF TimerTrades, PoolInv, TypeOK
  <2>2. RestOK' /\ UNCHANGED <<holder, queue, req, timer>>
    BY <1>3, <2>1 DEF TimerTrades, PoolInv, TypeOK, RestOK, poolVars
  <2> QED
    BY <2>2, RestPool
<1>4. CASE TimerEnds
  <2>1. RestOK' /\ UNCHANGED <<holder, queue, req>> /\ timer = "running" /\ timer' = "done"
    BY <1>4 DEF TimerEnds, PoolInv, TypeOK, RestOK, poolVars, dbVars
  <2> QED
    BY <2>1, RestPool
<1> QED
  BY <1>1, <1>2, <1>3, <1>4 DEF TimerFires

LEMMA RestartPool == ASSUME PoolInv, Restart PROVE PoolInv'
<1>1. req \in [Slots -> Request] /\ \A s \in Slots : req[s].pc = "none" => req[s] = NoReq
  BY TypeOKParts DEF PoolInv
<1>2. /\ req' \in [Slots -> Request]
      /\ \A s \in Slots : /\ req'[s].pc \in {"none", "ok", "failed"}
                          /\ req'[s].pc = "none" => req'[s] = NoReq
  <2>1. PICK cut \in SUBSET {s \in Slots : req[s].pc \notin {"none", "failed"}} :
          /\ \A s \in Slots \ cut : req[s].pc \in {"none", "ok", "failed"}
          /\ req' = [s \in Slots |-> IF s \in cut THEN [req[s] EXCEPT !.pc = "failed"]
                                                 ELSE req[s]]
    BY DEF Restart
  <2> SUFFICES ASSUME NEW s \in Slots
               PROVE  /\ req'[s] \in Request /\ req'[s].pc \in {"none", "ok", "failed"}
                      /\ req'[s].pc = "none" => req'[s] = NoReq
    BY <2>1
  <2>2. CASE s \notin cut
    BY <1>1, <2>1, <2>2
  <2>3. CASE s \in cut
    BY <1>1, <2>1, <2>3 DEF Request
  <2> QED
    BY <2>2, <2>3
<1>3. /\ holder' = [k \in Conns |-> Nobody] /\ queue' = <<>> /\ timer' = "armed"
      /\ DOMAIN queue' = {}
  BY DEF Restart
<1>4. RestOK'
  <2>1. restarts' \in 0..MaxRestarts /\ upset' \in BOOLEAN
    BY ServerAssumption DEF Restart, PoolInv, TypeOK
  <2> QED
    BY <2>1 DEF Restart, PoolInv, TypeOK, RestOK, dbVars
<1>5. TypeOK'
  <2>1. holder' \in [Conns -> Slots \cup {Nobody, Timer, Lost}]
        /\ queue' \in Seq(Slots \cup {Timer})
    BY <1>3
  <2> QED
    BY <1>2, <1>4, <2>1 DEF TypeOK, RestOK, Request, NoReq
<1>6. ConnectionPerRequest'
  BY <1>2, <1>3, SpecialHolders DEF ConnectionPerRequest, Busy
<1>7. QueueOfWaiters'
  BY <1>2, <1>3 DEF QueueOfWaiters
<1>8. StageInv'
  BY <1>2 DEF StageInv
<1> QED
  BY <1>5, <1>6, <1>7, <1>8 DEF PoolInv

LEMMA ReceivePool ==
    ASSUME PoolInv, NEW s \in Slots, Receive(s) \/ Abandon(s) PROVE PoolInv'
<1>1. req \in [Slots -> Request]
  BY TypeOKParts DEF PoolInv
<1>2. ASSUME req[s].pc \in {"ok", "failed"}, req' = [req EXCEPT ![s] = NoReq],
             UNCHANGED <<holder, queue, timer>>, RestOK'
      PROVE  PoolInv'
  BY <1>2, Constants, MovePool DEF Waits, Works
<1>3. CASE Deliver(s)
  <2>1. RestOK' /\ UNCHANGED <<holder, timer>>
    <3>1. /\ page' \in [user : BOOLEAN, list : 0..MaxRev, told : 0..MaxRev, polling : BOOLEAN]
          /\ upset' \in BOOLEAN
      BY <1>1, <1>3 DEF Deliver, PoolInv, TypeOK
    <3> QED
      BY <1>3, <3>1 DEF Deliver, PoolInv, TypeOK, RestOK, dbVars, procVars
  <2>2. req[s].pc = "ok" /\ req[s].then \in Seq(Kinds)
    BY <1>1, <1>3 DEF Deliver, Request
  <2>3. CASE req[s].then = <<>>
    BY <1>2, <1>3, <2>1, <2>2, <2>3 DEF Deliver, GoOn
  <2>4. CASE req[s].then # <<>>
    <3>1. Send(s, req[s].then)
      BY <1>3, <2>4 DEF Deliver, GoOn
    <3> QED
      BY <2>1, <2>2, <2>4, <3>1, SendPool DEF Waits, Works
  <2> QED
    BY <2>3, <2>4
<1>4. CASE DeliverInfo(s)
  <2>1. RestOK' /\ UNCHANGED <<holder, timer>> /\ req[s].pc = "ok"
    <3>1. /\ page' \in [user : BOOLEAN, list : 0..MaxRev, told : 0..MaxRev, polling : BOOLEAN]
          /\ upset' \in BOOLEAN
      BY <1>1, <1>4 DEF DeliverInfo, PoolInv, TypeOK, Request
    <3> QED
      BY <1>4, <3>1 DEF DeliverInfo, PoolInv, TypeOK, RestOK, dbVars, procVars
  <2>2. CASE Send(s, <<"orders">>)
    <3>1. <<"orders">> \in Seq(Kinds) /\ <<"orders">> # <<>>
      BY DEF Kinds
    <3> QED
      BY <2>1, <2>2, <3>1, SendPool DEF Waits, Works
  <2>3. CASE req' = [req EXCEPT ![s] = NoReq] /\ UNCHANGED queue
    BY <1>2, <2>1, <2>3
  <2> QED
    BY <1>4, <2>2, <2>3 DEF DeliverInfo
<1>5. CASE DeliverFailure(s)
  <2>1. /\ page' \in [user : BOOLEAN, list : 0..MaxRev, told : 0..MaxRev, polling : BOOLEAN]
        /\ upset' \in BOOLEAN
    BY <1>1, <1>5 DEF DeliverFailure, PoolInv, TypeOK
  <2>2. RestOK' /\ UNCHANGED <<holder, queue, timer>> /\ req[s].pc = "failed"
    BY <1>5, <2>1 DEF DeliverFailure, PoolInv, TypeOK, RestOK, poolVars, dbVars, procVars
  <2> QED
    BY <1>2, <1>5, <2>2 DEF DeliverFailure
<1>6. CASE Abandon(s)
  <2>1. RestOK' /\ UNCHANGED <<holder, queue, timer>> /\ req[s].pc = "hung"
        /\ req' = [req EXCEPT ![s].pc = "failed"]
    BY <1>6 DEF Abandon, PoolInv, TypeOK, RestOK, poolVars, dbVars, procVars
  <2> QED
    BY <2>1, AtPc, MovePool DEF PoolInv, Waits, Works
<1> QED
  BY <1>3, <1>4, <1>5, <1>6 DEF Receive

LEMMA NextPool == PoolInv /\ [Next]_vars => PoolInv'
<1> SUFFICES ASSUME PoolInv, [Next]_vars PROVE PoolInv'
  OBVIOUS
<1>1. CASE \E s \in Slots : \E chain \in Calls : Start(s, chain)
  BY <1>1, CallsAssumption, StartPool
<1>2. CASE \E s \in Slots : Handle(s)
  BY <1>2, HandlePool
<1>3. CASE \E s \in Slots : Receive(s) \/ Abandon(s)
  BY <1>3, ReceivePool
<1>4. CASE UNCHANGED vars
  <2>1. RestOK' /\ UNCHANGED <<holder, queue, req, timer>>
    BY <1>4 DEF PoolInv, TypeOK, RestOK, vars, poolVars, dbVars, procVars
  <2> QED
    BY <2>1, RestPool
<1> QED
  BY <1>1, <1>2, <1>3, <1>4, TakePool, TimerPool, RestartPool DEF Next

LEMMA PoolInvariant == Spec => []PoolInv
<1> QED
  BY InitPool, NextPool, PTL DEF Spec
-----------------------------------------------------------------------------
(* Theorems. *)

\* The types hold for every pool and every number of slots.
THEOREM TypeCorrect == Spec => []TypeOK
  BY PoolInvariant, PTL DEF PoolInv

\* A request holds one connection from the pool's answer to its own answer and
\* none otherwise, and whoever waits is queued once: no request holds a
\* connection while it waits for another, so the pool cannot block on itself.
THEOREM PoolCorrect == Spec => [](ConnectionPerRequest /\ QueueOfWaiters)
  BY PoolInvariant, PTL DEF PoolInv
-----------------------------------------------------------------------------
(* The list of orders on the page. *)

\* What is left of a chain when a request of a kind is under way.
RestOfChain(kind) ==
    CASE kind \in {"order", "signin"} -> <<"orders">>
      [] kind = "signup" -> <<"signin", "orders">>
      [] OTHER -> <<>>

\* Nobody knows of a change that has not happened, and every slot is where its
\* chain can be.
KnownInv ==
    /\ page.told <= rev.traded /\ rev.traded <= rev.all /\ page.list <= rev.all
    /\ \A s \in Slots :
         /\ req[s].then = RestOfChain(req[s].kind)
         /\ req[s].rev <= rev.all
         /\ req[s].kind = "info" => req[s].rev <= rev.traded

\* The slot will bring the list as it is, or its read will fail.
WillRead(s) ==
    \/ req[s].kind = "orders" /\ (req[s].pc = "ok" => req[s].rev = rev.all)
    \/ req[s].kind = "order" /\ req[s].pc \in {"done", "ok"}

\* Between a change and the read that shows it somebody is on the way to read.
ReadInv ==
    page.user /\ ~upset /\ page.told = rev.traded /\ page.list # rev.all
      => \E s \in Slots : WillRead(s)
ListInv == KnownInv /\ ReadInv

LEMMA InitList == Init => ListInv
<1> SUFFICES ASSUME Init PROVE ListInv
  OBVIOUS
<1>1. \A s \in Slots : req[s] = NoReq
  BY DEF Init
<1>2. NoReq.then = RestOfChain(NoReq.kind) /\ NoReq.rev = 0
  BY DEF NoReq, RestOfChain
<1> QED
  BY <1>1, <1>2 DEF Init, ListInv, KnownInv, ReadInv

LEMMA ListTypes ==
    ASSUME PoolInv
    PROVE  /\ req \in [Slots -> Request]
           /\ \A s \in Slots : req[s].pc = "none" => req[s].kind = "info"
           /\ rev \in [all : Nat, traded : Nat]
           /\ page \in [user : BOOLEAN, list : Nat, told : Nat, polling : BOOLEAN]
           /\ upset \in BOOLEAN /\ \A s \in Slots : req[s].rev \in Nat
<1>1. req \in [Slots -> Request] /\ 0..MaxRev \subseteq Nat
  BY TypeOKParts, ServerAssumption DEF PoolInv
<1> QED
  BY <1>1 DEF PoolInv, TypeOK, Request, NoReq

LEMMA ListTypesAfter ==
    ASSUME PoolInv'
    PROVE  /\ rev' \in [all : Nat, traded : Nat]
           /\ page' \in [user : BOOLEAN, list : Nat, told : Nat, polling : BOOLEAN]
           /\ \A s \in Slots : req'[s].rev \in Nat
<1>1. 0..MaxRev \subseteq Nat
  BY ServerAssumption
<1> QED
  BY <1>1 DEF PoolInv, TypeOK

\* A step of one slot, which may be told of more than was known.
LEMMA MoveKnown ==
    ASSUME PoolInv, PoolInv', ListInv, NEW s \in Slots,
           \A x \in Slots \ {s} : req'[x].then = req[x].then /\ req'[x].rev = req[x].rev
                                  /\ req'[x].kind = req[x].kind,
           req'[s].then = RestOfChain(req'[s].kind),
           req'[s].rev <= rev.all, req'[s].kind = "info" => req'[s].rev <= rev.traded,
           rev.all <= rev'.all, rev'.traded = rev.traded,
           page'.told <= rev.traded, page'.list <= rev.all
    PROVE  KnownInv'
<1>1. /\ rev.all \in Nat /\ rev'.all \in Nat /\ rev.traded \in Nat
      /\ page'.list \in Nat /\ page'.told \in Nat
      /\ \A x \in Slots : req'[x].rev \in Nat
  BY ListTypes, ListTypesAfter
<1>2. \A x \in Slots : /\ req'[x].then = RestOfChain(req'[x].kind)
                       /\ req'[x].rev <= rev'.all
                       /\ req'[x].kind = "info" => req'[x].rev <= rev'.traded
  <2> SUFFICES ASSUME NEW x \in Slots
               PROVE  /\ req'[x].then = RestOfChain(req'[x].kind)
                      /\ req'[x].rev <= rev'.all
                      /\ req'[x].kind = "info" => req'[x].rev <= rev'.traded
    OBVIOUS
  <2>1. CASE x = s
    BY <1>1, <2>1
  <2>2. CASE x # s
    BY <1>1, <2>2 DEF ListInv, KnownInv
  <2> QED
    BY <2>1, <2>2
<1>3. page'.told <= rev'.traded /\ rev'.traded <= rev'.all /\ page'.list <= rev'.all
  BY <1>1 DEF ListInv, KnownInv
<1> QED
  BY <1>2, <1>3 DEF KnownInv, RestOfChain

\* Neither the orders nor the page change, and a slot on its way stays on it.
LEMMA StayRead ==
    ASSUME ReadInv, UNCHANGED <<rev, page>>, upset => upset',
           \A s \in Slots : WillRead(s) => WillRead(s)'
    PROVE  ReadInv'
  BY DEF ReadInv

\* A slot takes the first request of a chain.
LEMMA SendShape ==
    ASSUME PoolInv, NEW s \in Slots, NEW chain \in Seq(Kinds), chain # <<>>, Send(s, chain)
    PROVE  /\ req'[s].kind = Head(chain) /\ req'[s].then = Tail(chain) /\ req'[s].rev = 0
           /\ req'[s].pc \in {"mw", "wait", "failed", "hung"}
           /\ \A x \in Slots \ {s} : req'[x] = req[x]
<1> DEFINE pc == IF session THEN "mw" ELSE Entry(Head(chain), FALSE)
           q == [NoReq EXCEPT !.kind = Head(chain), !.then = Tail(chain), !.sess = session]
<1>1. pc \in {"mw", "wait", "failed", "hung"}
  BY DEF Entry
<1>2. /\ [q EXCEPT !.pc = pc].kind = Head(chain) /\ [q EXCEPT !.pc = pc].then = Tail(chain)
      /\ [q EXCEPT !.pc = pc].rev = 0 /\ [q EXCEPT !.pc = pc].pc = pc
  <2> HIDE DEF pc
  <2>1. \A o \in Request : \A h, t, p :
          LET e == [[o EXCEPT !.kind = h, !.then = t, !.sess = session] EXCEPT !.pc = p]
          IN  e.kind = h /\ e.then = t /\ e.rev = o.rev /\ e.pc = p
    BY DEF Request
  <2>2. NoReq.rev = 0
    BY DEF NoReq
  <2> QED
    BY <2>1, <2>2, Constants
<1>3. req' = [req EXCEPT ![s] = [q EXCEPT !.pc = pc]] /\ req \in [Slots -> Request]
  BY ListTypes DEF Send, Goto
<1> HIDE DEF pc, q
<1> QED
  BY <1>1, <1>2, <1>3

LEMMA ChainShape ==
    /\ \A chain \in Chains : /\ Head(chain) \in Kinds
                             /\ Tail(chain) = RestOfChain(Head(chain))
                             /\ Head(chain) # "orders"
    /\ Head(<<"orders">>) = "orders" /\ Tail(<<"orders">>) = RestOfChain("orders")
    /\ Head(<<"signin", "orders">>) = "signin"
    /\ Tail(<<"signin", "orders">>) = RestOfChain("signin")
    /\ <<"orders">> \in Seq(Kinds) /\ <<"signin", "orders">> \in Seq(Kinds)
    /\ <<"orders">> # <<>> /\ <<"signin", "orders">> # <<>>
<1>1. /\ RestOfChain("info") = <<>> /\ RestOfChain("signout") = <<>>
      /\ RestOfChain("initialize") = <<>> /\ RestOfChain("orders") = <<>>
      /\ RestOfChain("order") = <<"orders">> /\ RestOfChain("signin") = <<"orders">>
      /\ RestOfChain("signup") = <<"signin", "orders">>
  BY DEF RestOfChain
<1>2. \A a : Head(<<a>>) = a /\ Tail(<<a>>) = <<>>
  OBVIOUS
<1>3. \A a, b : Head(<<a, b>>) = a /\ Tail(<<a, b>>) = <<b>>
  OBVIOUS
<1>4. \A a, b, c : Head(<<a, b, c>>) = a /\ Tail(<<a, b, c>>) = <<b, c>>
  OBVIOUS
<1>5. "orders" \in Kinds /\ "signin" \in Kinds
  BY DEF Kinds
<1>6. <<"orders">> \in Seq(Kinds) /\ <<"signin", "orders">> \in Seq(Kinds)
  BY <1>5
<1>7. \A chain \in Chains : /\ Head(chain) \in Kinds
                            /\ Tail(chain) = RestOfChain(Head(chain))
                            /\ Head(chain) # "orders"
  <2> SUFFICES ASSUME NEW chain \in Chains
               PROVE  /\ Head(chain) \in Kinds /\ Tail(chain) = RestOfChain(Head(chain))
                      /\ Head(chain) # "orders"
    OBVIOUS
  <2>1. ASSUME NEW a \in {"info", "initialize", "signout"}, chain = <<a>>
        PROVE  Head(chain) = a /\ Tail(chain) = RestOfChain(a) /\ a \in Kinds /\ a # "orders"
    BY <1>1, <1>2, <2>1 DEF Kinds
  <2>2. ASSUME NEW a \in {"signin", "order"}, chain = <<a, "orders">>
        PROVE  Head(chain) = a /\ Tail(chain) = RestOfChain(a) /\ a \in Kinds /\ a # "orders"
    BY <1>1, <1>3, <2>2 DEF Kinds
  <2>3. CASE chain = <<"signup", "signin", "orders">>
    <3>1. Head(chain) = "signup" /\ Tail(chain) = RestOfChain("signup")
      BY <1>1, <1>4, <2>3
    <3> QED
      BY <3>1 DEF Kinds
  <2>4. \/ \E a \in {"info", "initialize", "signout"} : chain = <<a>>
        \/ \E a \in {"signin", "order"} : chain = <<a, "orders">>
        \/ chain = <<"signup", "signin", "orders">>
    BY DEF Chains
  <2> QED
    BY <2>1, <2>2, <2>3, <2>4
<1> QED
  BY <1>1, <1>2, <1>3, <1>6, <1>7

LEMMA StartList ==
    ASSUME PoolInv, PoolInv', ListInv, NEW s \in Slots, NEW chain \in Chains, Start(s, chain)
    PROVE  ListInv'
<1>1. Send(s, chain) /\ UNCHANGED <<rev, page, upset>> /\ req[s].pc = "none"
  BY DEF Start, dbVars
<1>2. /\ req'[s].kind = Head(chain) /\ req'[s].then = Tail(chain) /\ req'[s].rev = 0
      /\ req'[s].pc \in {"mw", "wait", "failed", "hung"}
      /\ \A x \in Slots \ {s} : req'[x] = req[x]
  BY <1>1, Constants, SendShape
<1>3. KnownInv'
  <2>1. req'[s].then = RestOfChain(req'[s].kind)
    BY <1>2, ChainShape
  <2>2. /\ req'[s].rev <= rev.all /\ req'[s].rev <= rev.traded
        /\ rev.all <= rev'.all /\ rev'.traded = rev.traded
        /\ page'.told <= rev.traded /\ page'.list <= rev.all
    BY <1>1, <1>2, ListTypes DEF ListInv, KnownInv
  <2> QED
    BY <1>2, <2>1, <2>2, MoveKnown
<1>4. ~WillRead(s)
  BY <1>1, ListTypes DEF WillRead
<1>5. ReadInv'
  BY <1>1, <1>2, <1>4, StayRead DEF ListInv, WillRead
<1> QED
  BY <1>3, <1>5 DEF ListInv

\* A slot goes on with its request; nothing it reads has changed.
LEMMA GoOnList ==
    ASSUME PoolInv, PoolInv', ListInv, NEW s \in Slots,
           \A x \in Slots \ {s} : req'[x] = req[x],
           req'[s].kind = req[s].kind, req'[s].then = req[s].then,
           req'[s].pc # "ok" \/ req'[s].rev = rev.all \/ req[s].kind # "orders",
           req'[s].rev \in {req[s].rev, rev.traded} \/ req[s].kind = "orders",
           req'[s].rev <= rev.all,
           req[s].pc # "ok", UNCHANGED <<rev, page>>, upset => upset',
           \/ req[s].pc # "done" \/ req[s].kind # "order"
           \/ req'[s].pc = "ok" \/ upset'
    PROVE  ListInv'
<1>1. KnownInv'
  BY ListTypes, MoveKnown DEF ListInv, KnownInv
<1>2. CASE upset'
  BY <1>1, <1>2 DEF ListInv, ReadInv
<1>3. CASE ~upset'
  <2>1. \A x \in Slots : WillRead(x) => WillRead(x)'
    BY <1>3 DEF WillRead
  <2> QED
    BY <1>1, <2>1, StayRead DEF ListInv
<1> QED
  BY <1>2, <1>3

LEMMA TakeList == ASSUME PoolInv, PoolInv', ListInv, Take PROVE ListInv'
<1>1. /\ queue \in Seq(Slots \cup {Timer}) /\ queue # <<>>
      /\ UNCHANGED <<rev, page, upset>>
  BY DEF Take, PoolInv, TypeOK, dbVars
<1>2. CASE Head(queue) = Timer
  <2>1. UNCHANGED req
    BY <1>2 DEF Take
  <2> QED
    BY <1>1, <2>1 DEF ListInv, KnownInv, ReadInv, WillRead
<1>3. CASE Head(queue) # Timer
  <2> DEFINE h == Head(queue)
  <2>1. h \in Slots
    BY <1>1, <1>3
  <2>2. req' = [req EXCEPT ![h].pc = IF @ = "mw" THEN "mw_query" ELSE "work"]
    BY <1>3 DEF Take
  <2>3. req[h].pc \in {"mw", "wait"}
    <3>1. 1 \in DOMAIN queue /\ queue[1] = h
      BY <1>1
    <3> QED
      BY <2>1, <3>1 DEF PoolInv, QueueOfWaiters
  <2> HIDE DEF h
  <2>4. req \in [Slots -> Request]
    BY ListTypes
  <2>5. /\ \A x \in Slots \ {h} : req'[x] = req[x]
        /\ req'[h].kind = req[h].kind /\ req'[h].then = req[h].then
        /\ req'[h].rev = req[h].rev /\ req'[h].pc \in {"mw_query", "work"}
    BY <2>1, <2>2, <2>4 DEF Request
  <2>6. req[h].rev <= rev.all
    BY <2>1 DEF ListInv, KnownInv
  <2> QED
    BY <1>1, <2>1, <2>3, <2>5, <2>6, GoOnList
<1> QED
  BY <1>2, <1>3

LEMMA MiddlewareList ==
    ASSUME PoolInv, PoolInv', ListInv, NEW s \in Slots, Middleware(s) PROVE ListInv'
<1> DEFINE pc == IF account THEN Entry(req[s].kind, TRUE) ELSE "failed"
           user == account /\ req[s].kind = "info"
<1>1. req \in [Slots -> Request] /\ pc # "ok"
  BY ListTypes DEF Entry
<1>2. /\ req' = [req EXCEPT ![s] = [[req[s] EXCEPT !.user = user] EXCEPT !.pc = pc]]
      /\ UNCHANGED <<rev, page, upset>> /\ req[s].pc = "mw_query"
  BY DEF Middleware, Goto, dbVars
<1> HIDE DEF pc, user
<1>3. /\ \A x \in Slots \ {s} : req'[x] = req[x]
      /\ req'[s].kind = req[s].kind /\ req'[s].then = req[s].then
      /\ req'[s].rev = req[s].rev /\ req'[s].pc = pc
  BY <1>1, <1>2 DEF Request
<1>4. req[s].rev <= rev.all
  BY DEF ListInv, KnownInv
<1> QED
  BY <1>1, <1>2, <1>3, <1>4, GoOnList

\* The slot's place becomes pc and the rest of the request stays.
LEMMA AtPcList ==
    ASSUME PoolInv, NEW s \in Slots,
           NEW pc \in {"mw", "mw_query", "wait", "work", "filling", "done", "ok",
                       "failed", "hung"},
           req' = [req EXCEPT ![s].pc = pc]
    PROVE  /\ \A x \in Slots \ {s} : req'[x] = req[x]
           /\ req'[s].kind = req[s].kind /\ req'[s].then = req[s].then
           /\ req'[s].rev = req[s].rev /\ req'[s].pc = pc
  BY ListTypes DEF Request

\* A request that goes on, is answered, fails, hangs or is given up.
LEMMA EndsList ==
    ASSUME PoolInv, PoolInv', ListInv, NEW s \in Slots,
           NEW pc \in {"filling", "done", "failed", "hung", "ok"},
           req' = [req EXCEPT ![s].pc = pc], req[s].pc # "ok",
           pc = "ok" => req[s].kind # "orders",
           UNCHANGED <<rev, page>>, upset => upset',
           req[s].pc # "done" \/ req[s].kind # "order" \/ pc = "ok" \/ upset'
    PROVE  ListInv'
  BY AtPcList, GoOnList DEF ListInv, KnownInv

LEMMA OrderList ==
    ASSUME PoolInv, PoolInv', ListInv, NEW s \in Slots, Order(s) PROVE ListInv'
<1>1. /\ req' = [req EXCEPT ![s].pc = "done"] /\ rev' = [rev EXCEPT !.all = @ + 1]
      /\ req[s].kind = "order" /\ UNCHANGED page
  BY DEF Order, Commits, Working
<1>2. /\ \A x \in Slots \ {s} : req'[x] = req[x]
      /\ req'[s].kind = "order" /\ req'[s].then = req[s].then
      /\ req'[s].rev = req[s].rev /\ req'[s].pc = "done"
  BY <1>1, AtPcList
<1>3. rev.all <= rev'.all /\ rev'.traded = rev.traded
  BY <1>1, ListTypes
<1>4. KnownInv'
  <2>1. /\ req'[s].then = RestOfChain(req'[s].kind) /\ req'[s].rev <= rev.all
        /\ page'.told <= rev.traded /\ page'.list <= rev.all
    BY <1>1, <1>2 DEF ListInv, KnownInv
  <2> QED
    BY <1>2, <1>3, <2>1, MoveKnown
<1>5. WillRead(s)'
  BY <1>2 DEF WillRead
<1> QED
  BY <1>4, <1>5 DEF ListInv, ReadInv

LEMMA AnswerList ==
    ASSUME PoolInv, PoolInv', ListInv, NEW s \in Slots, Info(s) \/ Orders(s) PROVE ListInv'
<1> DEFINE n == IF req[s].kind = "orders" THEN rev.all ELSE rev.traded
<1>1. /\ req' = [req EXCEPT ![s].pc = "ok", ![s].rev = n]
      /\ UNCHANGED <<rev, page, upset>> /\ req[s].pc = "work"
  BY DEF Info, Orders, Working, dbVars
<1>2. n <= rev.all /\ (req[s].kind = "orders" => n = rev.all) /\ n \in {rev.all, rev.traded}
      /\ (req[s].kind # "orders" => n = rev.traded)
  BY ListTypes DEF ListInv, KnownInv
<1> HIDE DEF n
<1>3. req' = [req EXCEPT ![s] = [[req[s] EXCEPT !.pc = "ok"] EXCEPT !.rev = n]]
  BY <1>1, ListTypes
<1>4. /\ \A x \in Slots \ {s} : req'[x] = req[x]
      /\ req'[s].kind = req[s].kind /\ req'[s].then = req[s].then
      /\ req'[s].rev = n /\ req'[s].pc = "ok"
  BY <1>3, ListTypes DEF Request
<1> QED
  BY <1>1, <1>2, <1>4, GoOnList

LEMMA HandleList ==
    ASSUME PoolInv, PoolInv', ListInv, NEW s \in Slots, Handle(s) PROVE ListInv'
<1>1. CASE MiddlewareThrows(s) \/ HandlerThrows(s) \/ InfoOfColdCache(s)
  <2>1. req' = [req EXCEPT ![s].pc = "hung"] /\ UNCHANGED <<rev, page>>
    BY <1>1 DEF MiddlewareThrows, HandlerThrows, InfoOfColdCache, Throws
  <2>2. req[s].pc # "ok" /\ (req[s].pc # "done" \/ req[s].kind # "order")
    BY <1>1 DEF MiddlewareThrows, HandlerThrows, InfoOfColdCache, Working
  <2>3. upset => upset'
    <3>1. CASE HandlerThrows(s)
      BY <3>1, Zenon DEF HandlerThrows
    <3>2. CASE MiddlewareThrows(s) \/ InfoOfColdCache(s)
      BY <3>2, Zenon DEF MiddlewareThrows, InfoOfColdCache
    <3> QED
      BY <1>1, <3>1, <3>2
  <2> QED
    BY <2>1, <2>2, <2>3, EndsList
<1>2. CASE Refuses(s)
  <2>1. /\ req' = [req EXCEPT ![s].pc = "failed"] /\ req[s].pc = "work"
        /\ UNCHANGED <<rev, page, upset>>
    BY <1>2 DEF Refuses, Answers, dbVars
  <2> QED
    BY <2>1, EndsList
<1>3. CASE Signup(s) \/ Signin(s) \/ Initialize(s) \/ FillCache(s)
  <2>1. CASE Signup(s)
    <3>1. /\ req' = [req EXCEPT ![s].pc = "done"] /\ req[s].pc = "work"
          /\ UNCHANGED <<rev, page, upset>>
      BY <2>1 DEF Signup, Working, Commits
    <3>2. req[s].kind # "order"
      BY <2>1 DEF Signup, Working
    <3> QED
      BY <3>1, <3>2, EndsList
  <2>2. CASE Signin(s)
    <3>1. /\ req' = [req EXCEPT ![s].pc = "ok"] /\ req[s].pc = "work"
          /\ req[s].kind # "orders" /\ UNCHANGED <<rev, page, upset>>
      BY <2>2 DEF Signin, Working, dbVars
    <3> QED
      BY <3>1, EndsList
  <2>3. CASE Initialize(s)
    <3>1. /\ req' = [req EXCEPT ![s].pc = "filling"] /\ req[s].pc = "work"
          /\ UNCHANGED <<rev, page>>
      BY <2>3 DEF Initialize, Working
    <3>2. upset => upset'
      BY <2>3, Zenon DEF Initialize
    <3> QED
      BY <3>1, <3>2, EndsList
  <2>4. CASE FillCache(s)
    <3>1. /\ req' = [req EXCEPT ![s].pc = "done"] /\ req[s].pc = "filling"
          /\ UNCHANGED <<rev, page, upset>>
      BY <2>4 DEF FillCache, Commits, dbVars
    <3> QED
      BY <3>1, EndsList
  <2> QED
    BY <1>3, <2>1, <2>2, <2>3, <2>4
<1>4. CASE Answer(s)
  <2>1. /\ req' = [req EXCEPT ![s].pc = "ok"] /\ req[s].pc = "done"
        /\ UNCHANGED <<rev, page, upset>>
    BY <1>4 DEF Answer, Answers, dbVars
  <2>2. req[s].kind # "orders"
    BY <2>1 DEF PoolInv, StageInv
  <2> QED
    BY <2>1, <2>2, EndsList
<1>5. CASE CommitAnswerLost(s)
  <2>1. /\ req' = [req EXCEPT ![s].pc = "failed"] /\ req[s].pc = "done"
        /\ UNCHANGED <<rev, page>> /\ upset' = (upset \/ req[s].kind = "order")
    BY <1>5 DEF CommitAnswerLost, Answers, dbVars
  <2> QED
    BY <2>1, EndsList
<1> QED
  BY <1>1, <1>2, <1>3, <1>4, <1>5, MiddlewareList, AnswerList, OrderList DEF Handle

\* A slot whose chain is over.
LEMMA FreeList ==
    ASSUME PoolInv, NEW s \in Slots, req' = [req EXCEPT ![s] = NoReq]
    PROVE  /\ \A x \in Slots \ {s} : req'[x] = req[x]
           /\ req'[s].kind = "info" /\ req'[s].then = RestOfChain(req'[s].kind)
           /\ req'[s].rev = 0
<1>1. req'[s] = NoReq /\ \A x \in Slots \ {s} : req'[x] = req[x]
  BY ListTypes
<1> QED
  BY <1>1 DEF NoReq, RestOfChain

LEMMA DeliverList ==
    ASSUME PoolInv, PoolInv', ListInv, NEW s \in Slots, Deliver(s) PROVE ListInv'
<1>1. /\ req[s].pc = "ok" /\ req[s].kind # "info" /\ GoOn(s) /\ UNCHANGED rev
      /\ page'.list = IF req[s].kind = "orders" THEN req[s].rev ELSE page.list
      /\ page'.told = page.told
      /\ page'.user = (page.user \/ req[s].kind = "signin")
      /\ upset' = (upset \/ (req[s].kind = "orders" /\ req[s].rev < page.list))
  BY ListTypes DEF Deliver, dbVars
<1>2. /\ page'.told <= rev.traded /\ page'.list <= rev.all
      /\ rev.all <= rev'.all /\ rev'.traded = rev.traded /\ 0 <= rev.all /\ 0 <= rev.traded
  BY <1>1, ListTypes DEF ListInv, KnownInv
<1>3. req[s].then = RestOfChain(req[s].kind) /\ req[s].kind \in Kinds
  BY ListTypes DEF ListInv, KnownInv, Request
<1>4. CASE req[s].kind = "orders"
  <2>1. req' = [req EXCEPT ![s] = NoReq]
    BY <1>1, <1>3, <1>4 DEF GoOn, RestOfChain
  <2>2. /\ \A x \in Slots \ {s} : req'[x] = req[x]
        /\ req'[s].kind = "info" /\ req'[s].then = RestOfChain(req'[s].kind)
        /\ req'[s].rev = 0
    BY <2>1, FreeList
  <2>3. KnownInv'
    BY <1>2, <2>2, MoveKnown
  <2>4. ReadInv'
    <3> SUFFICES ASSUME page'.user, ~upset', page'.told = rev'.traded, page'.list # rev'.all
                 PROVE  \E x \in Slots : WillRead(x)'
      BY DEF ReadInv
    <3>1. req[s].rev # rev.all
      BY <1>1, <1>4
    <3>2. page.user /\ ~upset /\ page.told = rev.traded /\ page.list # rev.all
      BY <1>1, <1>2, <1>4, <3>1, ListTypes
    <3>3. PICK x \in Slots : WillRead(x)
      BY <3>2 DEF ListInv, ReadInv
    <3>4. x # s
      BY <1>1, <1>4, <3>1, <3>3 DEF WillRead
    <3> QED
      BY <1>1, <2>2, <3>3, <3>4 DEF WillRead
  <2> QED
    BY <2>3, <2>4 DEF ListInv
<1>5. CASE req[s].kind \in {"order", "signin"}
  <2>1. Send(s, <<"orders">>)
    BY <1>1, <1>3, <1>5, ChainShape DEF GoOn, RestOfChain
  <2>2. /\ req'[s].kind = "orders" /\ req'[s].then = RestOfChain("orders")
        /\ req'[s].rev = 0 /\ req'[s].pc # "ok"
        /\ \A x \in Slots \ {s} : req'[x] = req[x]
    BY <2>1, ChainShape, SendShape
  <2>3. KnownInv'
    BY <1>2, <2>2, MoveKnown
  <2>4. WillRead(s)'
    BY <2>2 DEF WillRead
  <2> QED
    BY <2>3, <2>4 DEF ListInv, ReadInv
<1>6. CASE req[s].kind \in {"signup", "signout", "initialize"}
  <2>1. /\ \A x \in Slots \ {s} : req'[x] = req[x]
        /\ req'[s].then = RestOfChain(req'[s].kind) /\ req'[s].rev = 0
    <3>1. CASE req[s].kind = "signup"
      <4>1. Send(s, <<"signin", "orders">>)
        BY <1>1, <1>3, <3>1, ChainShape DEF GoOn, RestOfChain
      <4> QED
        BY <4>1, ChainShape, SendShape
    <3>2. CASE req[s].kind # "signup"
      <4>1. req' = [req EXCEPT ![s] = NoReq]
        BY <1>1, <1>3, <1>6, <3>2 DEF GoOn, RestOfChain
      <4> QED
        BY <4>1, FreeList
    <3> QED
      BY <3>1, <3>2
  <2>2. KnownInv'
    BY <1>2, <2>1, MoveKnown
  <2>3. ReadInv'
    <3>1. \A x \in Slots : WillRead(x) => x # s
      BY <1>6 DEF WillRead
    <3>2. \A x \in Slots : WillRead(x) => WillRead(x)'
      BY <1>1, <2>1, <3>1 DEF WillRead
    <3> QED
      BY <1>1, <1>6, <3>2 DEF ListInv, ReadInv
  <2> QED
    BY <2>2, <2>3 DEF ListInv
<1> QED
  BY <1>1, <1>3, <1>4, <1>5, <1>6 DEF Kinds

LEMMA DeliverInfoList ==
    ASSUME PoolInv, PoolInv', ListInv, NEW s \in Slots, DeliverInfo(s) PROVE ListInv'
<1>1. /\ req[s].pc = "ok" /\ req[s].kind = "info" /\ UNCHANGED rev
      /\ page'.told = req[s].rev /\ page'.list = page.list /\ page'.user = page.user
      /\ upset' = (upset \/ (req[s].rev > page.told /\ ~req[s].user /\ page.user))
  BY ListTypes DEF DeliverInfo, dbVars
<1>2. /\ page'.told <= rev.traded /\ page'.list <= rev.all
      /\ rev.all <= rev'.all /\ rev'.traded = rev.traded /\ 0 <= rev.all /\ 0 <= rev.traded
  BY <1>1, ListTypes DEF ListInv, KnownInv
<1>3. CASE req[s].rev > page.told /\ req[s].user
  <2>1. Send(s, <<"orders">>)
    BY <1>3 DEF DeliverInfo
  <2>2. /\ req'[s].kind = "orders" /\ req'[s].then = RestOfChain("orders")
        /\ req'[s].rev = 0 /\ req'[s].pc # "ok"
        /\ \A x \in Slots \ {s} : req'[x] = req[x]
    BY <2>1, ChainShape, SendShape
  <2>3. KnownInv'
    BY <1>2, <2>2, MoveKnown
  <2>4. WillRead(s)'
    BY <2>2 DEF WillRead
  <2> QED
    BY <2>3, <2>4 DEF ListInv, ReadInv
<1>4. CASE ~(req[s].rev > page.told /\ req[s].user)
  <2>1. req' = [req EXCEPT ![s] = NoReq]
    BY <1>4 DEF DeliverInfo
  <2>2. /\ \A x \in Slots \ {s} : req'[x] = req[x]
        /\ req'[s].kind = "info" /\ req'[s].then = RestOfChain(req'[s].kind)
        /\ req'[s].rev = 0
    BY <2>1, FreeList
  <2>3. KnownInv'
    BY <1>2, <2>2, MoveKnown
  <2>4. ReadInv'
    <3> SUFFICES ASSUME page'.user, ~upset', page'.told = rev'.traded, page'.list # rev'.all
                 PROVE  \E x \in Slots : WillRead(x)'
      BY DEF ReadInv
    <3>1. ~(req[s].rev > page.told)
      BY <1>1, <1>4
    <3>2. page.user /\ ~upset /\ page.told = rev.traded /\ page.list # rev.all
      BY <1>1, <1>2, <3>1, ListTypes DEF ListInv, KnownInv
    <3>3. PICK x \in Slots : WillRead(x)
      BY <3>2 DEF ListInv, ReadInv
    <3>4. x # s
      BY <1>1, <3>3 DEF WillRead
    <3> QED
      BY <1>1, <2>2, <3>3, <3>4 DEF WillRead
  <2> QED
    BY <2>3, <2>4 DEF ListInv
<1> QED
  BY <1>3, <1>4

LEMMA DeliverFailureList ==
    ASSUME PoolInv, PoolInv', ListInv, NEW s \in Slots, DeliverFailure(s) PROVE ListInv'
<1>1. /\ req[s].pc = "failed" /\ req' = [req EXCEPT ![s] = NoReq] /\ UNCHANGED rev
      /\ page'.list = page.list /\ page'.told = page.told /\ page'.user = page.user
      /\ upset' = (upset \/ req[s].kind \in {"info", "orders"})
  BY ListTypes DEF DeliverFailure, dbVars
<1>2. /\ \A x \in Slots \ {s} : req'[x] = req[x]
      /\ req'[s].kind = "info" /\ req'[s].then = RestOfChain(req'[s].kind)
      /\ req'[s].rev = 0
  BY <1>1, FreeList
<1>3. KnownInv'
  <2>1. /\ page'.told <= rev.traded /\ page'.list <= rev.all
        /\ rev.all <= rev'.all /\ rev'.traded = rev.traded /\ 0 <= rev.all /\ 0 <= rev.traded
    BY <1>1, ListTypes DEF ListInv, KnownInv
  <2> QED
    BY <1>2, <2>1, MoveKnown
<1>4. ReadInv'
  <2>1. CASE req[s].kind \in {"info", "orders"}
    BY <1>1, <2>1 DEF ReadInv
  <2>2. CASE req[s].kind \notin {"info", "orders"}
    <3>1. ~WillRead(s)
      BY <1>1, <2>2 DEF WillRead
    <3>2. \A x \in Slots : WillRead(x) => WillRead(x)'
      BY <1>1, <1>2, <3>1 DEF WillRead
    <3> QED
      BY <1>1, <3>2 DEF ListInv, ReadInv
  <2> QED
    BY <2>1, <2>2
<1> QED
  BY <1>3, <1>4 DEF ListInv

LEMMA TimerList ==
    ASSUME PoolInv, ListInv, TimerFires \/ TimerTrades \/ TimerEnds PROVE ListInv'
<1>1. CASE TimerFires \/ TimerEnds
  <2>1. UNCHANGED <<req, rev, page, upset>>
    BY <1>1 DEF TimerFires, TimerEnds, dbVars
  <2> QED
    BY <2>1 DEF ListInv, KnownInv, ReadInv, WillRead
<1>2. CASE TimerTrades
  <2>1. /\ rev'.all = rev.all + 1 /\ rev'.traded = rev.all + 1
        /\ UNCHANGED <<req, page, upset>>
    BY <1>2 DEF TimerTrades
  <2>2. KnownInv'
    BY <2>1, ListTypes DEF ListInv, KnownInv, RestOfChain
  <2>3. page'.told # rev'.traded
    BY <2>1, ListTypes DEF ListInv, KnownInv
  <2> QED
    BY <2>2, <2>3 DEF ListInv, ReadInv
<1> QED
  BY <1>1, <1>2

LEMMA RestartList == ASSUME PoolInv, ListInv, Restart PROVE ListInv'
<1>1. UNCHANGED <<rev, page>>
  BY DEF Restart, dbVars
<1>2. PICK cut \in SUBSET {s \in Slots : req[s].pc \notin {"none", "failed"}} :
        /\ \A s \in Slots \ cut : req[s].pc \in {"none", "ok", "failed"}
        /\ req' = [s \in Slots |-> IF s \in cut THEN [req[s] EXCEPT !.pc = "failed"]
                                               ELSE req[s]]
        /\ upset' = (upset \/ \E s \in cut : req[s].pc \in {"done", "ok"}
                                              /\ req[s].kind = "order")
  BY DEF Restart
<1>3. \A s \in Slots :
        /\ req'[s].kind = req[s].kind /\ req'[s].then = req[s].then
        /\ req'[s].rev = req[s].rev
        /\ IF s \in cut THEN req'[s].pc = "failed" ELSE req'[s] = req[s]
  <2> SUFFICES ASSUME NEW s \in Slots
               PROVE  /\ req'[s].kind = req[s].kind /\ req'[s].then = req[s].then
                      /\ req'[s].rev = req[s].rev
                      /\ IF s \in cut THEN req'[s].pc = "failed" ELSE req'[s] = req[s]
    OBVIOUS
  <2>1. CASE s \notin cut
    BY <1>2, <2>1
  <2>2. CASE s \in cut
    <3>1. req'[s] = [req[s] EXCEPT !.pc = "failed"]
      BY <1>2, <2>2
    <3> QED
      BY <2>2, <3>1, ListTypes DEF Request
  <2> QED
    BY <2>1, <2>2
<1>4. KnownInv'
  BY <1>1, <1>3 DEF ListInv, KnownInv, RestOfChain
<1>5. ReadInv'
  <2>1. CASE upset'
    BY <2>1 DEF ReadInv
  <2>2. CASE ~upset'
    <3>1. ~upset /\ \A s \in cut : ~(req[s].pc \in {"done", "ok"} /\ req[s].kind = "order")
      BY <1>2, <2>2
    <3>2. \A s \in Slots : WillRead(s) => WillRead(s)'
      BY <1>1, <1>3, <3>1 DEF WillRead
    <3> QED
      BY <1>1, <3>1, <3>2, StayRead DEF ListInv
  <2> QED
    BY <2>1, <2>2
<1> QED
  BY <1>4, <1>5 DEF ListInv

LEMMA NextList == PoolInv /\ ListInv /\ [Next]_vars => ListInv'
<1> SUFFICES ASSUME PoolInv, ListInv, [Next]_vars PROVE ListInv'
  OBVIOUS
<1>1. PoolInv'
  BY NextPool
<1>2. CASE \E s \in Slots : \E chain \in Calls : Start(s, chain)
  BY <1>1, <1>2, CallsAssumption, StartList
<1>3. CASE \E s \in Slots : Handle(s)
  BY <1>1, <1>3, HandleList
<1>4. CASE \E s \in Slots : Receive(s)
  BY <1>1, <1>4, DeliverList, DeliverInfoList, DeliverFailureList DEF Receive
<1>5. CASE \E s \in Slots : Abandon(s)
  <2>1. PICK s \in Slots : Abandon(s)
    BY <1>5
  <2>2. /\ req' = [req EXCEPT ![s].pc = "failed"] /\ req[s].pc = "hung"
        /\ UNCHANGED <<rev, page, upset>>
    BY <2>1 DEF Abandon, dbVars
  <2> QED
    BY <1>1, <2>2, EndsList
<1>6. CASE UNCHANGED vars
  <2>1. UNCHANGED <<req, rev, page, upset>>
    BY <1>6 DEF vars, dbVars
  <2> QED
    BY <2>1 DEF ListInv, KnownInv, ReadInv, WillRead
<1> QED
  BY <1>1, <1>2, <1>3, <1>4, <1>5, <1>6, TakeList, TimerList, RestartList DEF Next

\* When nothing is under way the page of a user that saw every trade shows the
\* orders as they are: each change left somebody on the way to read, unless a
\* read failed, answers crossed, orders were deleted, a guest was told, or the
\* answer to an order that was made was lost.
THEOREM ListCorrect == Spec => []ListCurrent
<1>1. PoolInv /\ ListInv => ListCurrent
  <2> SUFFICES ASSUME PoolInv, ListInv, \A s \in Slots : req[s].pc = "none",
                      page.user, ~upset, page.told = rev.traded
               PROVE  page.list = rev.all
    BY DEF ListCurrent
  <2>1. \A s \in Slots : ~WillRead(s)
    BY ListTypes DEF WillRead
  <2> QED
    BY <2>1 DEF ListInv, ReadInv
<1> QED
  BY <1>1, InitList, NextList, PoolInvariant, PTL DEF Spec
=============================================================================
