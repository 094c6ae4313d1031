------------------------------- MODULE Server -------------------------------
(***************************************************************************)
(* The HTTP handlers of webapp/nodejs/index.ts as users of the pool of     *)
(* database connections, with the middleware, the sessions and the timer,  *)
(* and the page of webapp/frontend whose async functions call them.  A     *)
(* slot is one such function: a chain of requests, each sent when the one  *)
(* before it was answered.  Callers that are not the page (the operator of *)
(* /initialize, the load generator's /signout) use slots too.              *)
(***************************************************************************)
EXTENDS Naturals, Sequences, FiniteSets, FiniteSetsExt

CONSTANTS
    Calls,          \* bound: the chains of requests made, of the Chains below
    Slots,          \* bound: async functions of the page under way
    Conns,          \* connections of the pool (db.ts: 10)
    Nobody,         \* the holder of a free connection
    Timer,          \* the matching run, which never releases its connection
    Lost,           \* the holder of a connection whose handler threw
    MaxRev,         \* bound: changes of the user's orders
    MaxRestarts,    \* bound: restarts of the process
    Faults          \* "throw": a statement fails, or its answer is lost

ASSUME ServerAssumption ==
    /\ Conns # {} /\ MaxRev \in Nat /\ MaxRestarts \in Nat
    /\ Faults \subseteq {"throw"}
    /\ Cardinality({Nobody, Timer, Lost}) = 3 /\ {Nobody, Timer, Lost} \cap Slots = {}

Kinds == {"info", "signup", "signin", "signout", "orders", "order", "initialize"}
NeedUser == {"orders", "order"}
ForgetfulChains ==                  \* mutant: the list is not read after an order
    {<<"info">>, <<"signin", "orders">>, <<"signup", "signin", "orders">>,
     <<"order">>, <<"initialize">>, <<"signout">>}
\* The async functions: updateInfo, postSignin, signup, postOrders and
\* deleteOrders, and two requests of other callers.
Chains == {<<"info">>, <<"signin", "orders">>, <<"signup", "signin", "orders">>,
           <<"order", "orders">>, <<"initialize">>, <<"signout">>}

ASSUME CallsAssumption == Calls \subseteq Chains

VARIABLES
    holder,     \* who has each connection
    queue,      \* who waits for one, in the order of the calls
    req,        \* the request each slot waits for
    session,    \* the browser's session has a userId
    account,    \* its user has a row
    cached,     \* the candlestick cache has a key
    timer,      \* "armed", "due": tradeQueue > 0, "waiting" for a connection,
                \* "running", "done"
    rev,        \* changes of the user's orders: [all, traded: the last by a trade]
    page,       \* store.ts: the user, the list of orders, what /info told, polling
    restarts,
    upset       \* history: a read failed, orders were deleted, answers crossed,
                \* an order was made and its answer never came

poolVars == <<holder, queue>>
dbVars == <<account, rev>>
procVars == <<session, cached, timer>>
vars == <<poolVars, dbVars, procVars, req, page, restarts, upset>>

\* user: /info found one; rev: what the answer says of the orders; sess: the
\* session the server loaded has a userId.
NoReq == [pc |-> "none", kind |-> "info", then |-> <<>>, user |-> FALSE, rev |-> 0,
          sess |-> FALSE]
Init ==
    /\ holder = [k \in Conns |-> Nobody] /\ queue = <<>>
    /\ req = [s \in Slots |-> NoReq]
    /\ session = FALSE /\ account \in BOOLEAN /\ cached = FALSE
    /\ timer = "armed"
    /\ rev = [all |-> 0, traded |-> 0]
    /\ page = [user |-> FALSE, list |-> 0, told |-> 0, polling |-> TRUE]
    /\ restarts = 0 /\ upset = FALSE
-----------------------------------------------------------------------------
(* Requests: the middleware, the pool and the handlers. *)

\* What a handler does before it waits for a connection.  /signout calls
\* session.destroy without its this, which throws: nothing is answered.
Entry(kind, user) ==
    CASE kind = "signout" -> "hung"
      [] kind \in NeedUser /\ ~user -> "failed"
      [] OTHER -> "wait"

\* A slot goes on at pc; getConnection queues it.
Goto(s, r, pc) ==
    /\ req' = [req EXCEPT ![s] = [r EXCEPT !.pc = pc]]
    /\ queue' = IF pc \in {"mw", "wait"} THEN Append(queue, s) ELSE queue
\* A request with a userId in its session stops in the middleware first.
Send(s, chain) ==
    Goto(s, [NoReq EXCEPT !.kind = Head(chain), !.then = Tail(chain), !.sess = session],
         IF session THEN "mw" ELSE Entry(Head(chain), FALSE))

Start(s, chain) ==
    /\ req[s].pc = "none"
    /\ chain = <<"info">> => page.polling /\ \A r \in Slots : req[r].kind # "info"
                                                             \/ req[r].pc = "none"
    /\ Send(s, chain)
    /\ UNCHANGED <<holder, dbVars, procVars, page, restarts, upset>>

Release(s) == holder' = [k \in Conns |-> IF holder[k] = s THEN Nobody ELSE holder[k]]
Lose(s) == holder' = [k \in Conns |-> IF holder[k] = s THEN Lost ELSE holder[k]]

\* The pool gives a free connection to whoever has waited longest.
Take ==
    /\ queue # <<>>
    /\ \E k \in Conns :
         /\ holder[k] = Nobody
         /\ holder' = [holder EXCEPT ![k] = Head(queue)]
    /\ queue' = Tail(queue)
    /\ IF Head(queue) = Timer
       THEN timer' = "running" /\ UNCHANGED req
       ELSE /\ req' = [req EXCEPT ![Head(queue)].pc =
                         IF @ = "mw" THEN "mw_query" ELSE "work"]
            /\ UNCHANGED timer
    /\ UNCHANGED <<dbVars, session, cached, page, restarts, upset>>

MiddlewareHolds(s) ==               \* mutant: released after next() has returned
    /\ req[s].pc = "mw_query"
    /\ holder' = holder
    /\ Goto(s, [req[s] EXCEPT !.user = account /\ req[s].kind = "info"],
            IF account THEN Entry(req[s].kind, TRUE) ELSE "failed")
    /\ session' = (session /\ account)
    /\ UNCHANGED <<dbVars, cached, timer, page, restarts, upset>>
\* beforeRequest: the user is found, or the session is destroyed.
Middleware(s) ==
    /\ req[s].pc = "mw_query"
    /\ Release(s)
    /\ Goto(s, [req[s] EXCEPT !.user = account /\ req[s].kind = "info"],
            IF account THEN Entry(req[s].kind, TRUE) ELSE "failed")
    /\ session' = (session /\ account)
    /\ UNCHANGED <<dbVars, cached, timer, page, restarts, upset>>

\* An error of a statement that no try surrounds: the request is never
\* answered and its connection never released.
Throws(s) ==
    /\ Lose(s)
    /\ req' = [req EXCEPT ![s].pc = "hung"]
    /\ UNCHANGED <<queue, rev, procVars, page, restarts>>
MiddlewareThrows(s) ==
    req[s].pc = "mw_query" /\ "throw" \in Faults /\ Throws(s) /\ UNCHANGED <<account, upset>>

Working(s, kind) == req[s].pc = "work" /\ req[s].kind = kind
HandlerThrows(s) ==
    /\ req[s].pc \in {"work", "filling", "done"} /\ "throw" \in Faults
    /\ req[s].kind \in {"info", "orders", "initialize"} /\ Throws(s)
    /\ \/ UNCHANGED <<account, upset>>
       \/ Working(s, "initialize") /\ account' \in {account, FALSE} /\ upset' = TRUE

\* express-session saves, with every answer, the session the request loaded:
\* over the one another request has saved meanwhile.
Answers(s, pc) ==
    /\ Release(s) /\ req' = [req EXCEPT ![s].pc = pc]
    /\ session' = req[s].sess
    /\ UNCHANGED queue
Caught == {"order", "signup", "signin"}
RefusesUnreleased(s) ==             \* mutant: no db.release() in the catch
    /\ req[s].pc = "work" /\ req[s].kind \in Caught
    /\ req' = [req EXCEPT ![s].pc = "failed"]
    /\ UNCHANGED <<poolVars, dbVars, procVars, page, restarts, upset>>
\* Errors of these handlers are caught: they release and answer.
Refuses(s) ==
    /\ req[s].pc = "work" /\ req[s].kind \in Caught
    /\ Answers(s, "failed")
    /\ UNCHANGED <<dbVars, cached, timer, page, restarts, upset>>

\* GET /info: getCacheCandlestick throws when the cache has no key.
Info(s) ==
    /\ Working(s, "info") /\ cached
    /\ Release(s)
    /\ req' = [req EXCEPT ![s].pc = "ok", ![s].rev = rev.traded]
    /\ session' = req[s].sess
    /\ UNCHANGED <<queue, dbVars, cached, timer, page, restarts, upset>>
InfoOfColdCache(s) ==
    Working(s, "info") /\ ~cached /\ Throws(s) /\ UNCHANGED <<account, upset>>

Orders(s) ==
    /\ Working(s, "orders")
    /\ Release(s)
    /\ req' = [req EXCEPT ![s].pc = "ok", ![s].rev = rev.all]
    /\ session' = req[s].sess
    /\ UNCHANGED <<queue, dbVars, cached, timer, page, restarts, upset>>

\* A handler that writes: what it commits, then its answer.
Commits(s) == req' = [req EXCEPT ![s].pc = "done"] /\ UNCHANGED <<poolVars, session>>

\* POST /orders and DELETE /order/:id.
Order(s) ==
    /\ Working(s, "order") /\ account /\ rev.all < MaxRev
    /\ Commits(s)
    /\ rev' = [rev EXCEPT !.all = @ + 1]
    /\ UNCHANGED <<account, cached, timer, page, restarts, upset>>

Signup(s) ==
    /\ Working(s, "signup") /\ ~account
    /\ Commits(s)
    /\ account' = TRUE
    /\ UNCHANGED <<rev, cached, timer, page, restarts, upset>>

\* The answer; only a POST of an order counts for the timer.
Answer(s) ==
    /\ req[s].pc = "done" /\ Answers(s, "ok")
    /\ timer' \in {timer} \cup {t \in {"due"} : req[s].kind = "order" /\ timer = "armed"}
    /\ UNCHANGED <<dbVars, cached, page, restarts, upset>>

\* The answer of the COMMIT is lost: the handler reports an error.
CommitAnswerLost(s) ==
    /\ req[s].pc = "done" /\ req[s].kind \in Caught /\ "throw" \in Faults
    /\ Answers(s, "failed")
    /\ upset' = (upset \/ req[s].kind = "order")
    /\ UNCHANGED <<dbVars, cached, timer, page, restarts>>

Signin(s) ==
    /\ Working(s, "signin") /\ account
    /\ Release(s)
    /\ req' = [req EXCEPT ![s].pc = "ok"]
    /\ session' = TRUE
    /\ UNCHANGED <<queue, dbVars, cached, timer, page, restarts, upset>>

\* Users and orders of after BASE_TIME are deleted and the cache is emptied;
\* the trades are read and the cache is filled; the settings are written.
Initialize(s) ==
    /\ Working(s, "initialize")
    /\ req' = [req EXCEPT ![s].pc = "filling"]
    /\ account' \in {account, FALSE}
    /\ cached' = FALSE
    /\ upset' = TRUE
    /\ UNCHANGED <<poolVars, rev, session, timer, page, restarts>>
FillCache(s) ==
    /\ req[s].pc = "filling"
    /\ Commits(s)
    /\ cached' = TRUE
    /\ UNCHANGED <<dbVars, timer, page, restarts, upset>>
-----------------------------------------------------------------------------
(* The timer of index.ts:319: once in the life of the process. *)
TimerFires ==
    /\ \/ timer = "due" /\ timer' = "waiting" /\ queue' = Append(queue, Timer)
       \/ timer = "armed" /\ timer' = "done" /\ UNCHANGED queue
    /\ UNCHANGED <<holder, dbVars, session, cached, req, page, restarts, upset>>

\* A trade of the run adds a candle and closes orders.
TimerTrades ==
    /\ timer = "running" /\ rev.all < MaxRev
    /\ rev' = [all |-> rev.all + 1, traded |-> rev.all + 1]
    /\ cached' = TRUE
    /\ UNCHANGED <<poolVars, account, session, timer, req, page, restarts, upset>>
TimerEnds ==
    /\ timer = "running" /\ timer' = "done"
    /\ UNCHANGED <<poolVars, dbVars, session, cached, req, page, restarts, upset>>

\* Sessions and caches are kept in memory only.  What a handler has committed
\* stays; its caller, or one whose answer is on its way, sees a failure.
Restart ==
    /\ restarts < MaxRestarts /\ restarts' = restarts + 1
    /\ holder' = [k \in Conns |-> Nobody] /\ queue' = <<>>
    /\ session' = FALSE /\ cached' = FALSE /\ timer' = "armed"
    /\ \E cut \in SUBSET {s \in Slots : req[s].pc \notin {"none", "failed"}} :
         /\ \A s \in Slots \ cut : req[s].pc \in {"none", "ok", "failed"}
         /\ req' = [s \in Slots |-> IF s \in cut THEN [req[s] EXCEPT !.pc = "failed"]
                                                ELSE req[s]]
         /\ upset' = (upset \/ \E s \in cut : req[s].pc \in {"done", "ok"}
                                               /\ req[s].kind = "order")
    /\ UNCHANGED <<dbVars, page>>
-----------------------------------------------------------------------------
(* The page takes an answer. *)
GoOn(s) ==
    IF req[s].then = <<>>
    THEN req' = [req EXCEPT ![s] = NoReq] /\ UNCHANGED queue
    ELSE Send(s, req[s].then)

\* Any answer but /info's: setOrders, setUser, and the next call of the chain.
Deliver(s) ==
    /\ req[s].pc = "ok" /\ req[s].kind # "info"
    /\ GoOn(s)
    /\ page' = [page EXCEPT
          !.list = IF req[s].kind = "orders" THEN req[s].rev ELSE @,
          !.user = (@ \/ req[s].kind = "signin")]
    /\ upset' = (upset \/ (req[s].kind = "orders" /\ req[s].rev < page.list))
    /\ UNCHANGED <<holder, dbVars, procVars, restarts>>

\* updateInfo: traded orders, which only a user is sent, make the page ask for
\* the list without waiting for it; a failed poll is the last one.
DeliverInfo(s) ==
    /\ req[s].pc = "ok" /\ req[s].kind = "info"
    /\ page' = [page EXCEPT !.told = req[s].rev]
    /\ IF req[s].rev > page.told /\ req[s].user THEN Send(s, <<"orders">>)
       ELSE req' = [req EXCEPT ![s] = NoReq] /\ UNCHANGED queue
    /\ upset' = (upset \/ (req[s].rev > page.told /\ ~req[s].user /\ page.user))
    /\ UNCHANGED <<holder, dbVars, procVars, restarts>>

KeepsChain(s) ==                    \* mutant: the rest of the chain stays
    /\ req[s].pc = "failed"
    /\ req' = [req EXCEPT ![s].pc = "none"]
    /\ page' = [page EXCEPT !.polling = (@ /\ req[s].kind # "info")]
    /\ upset' = (upset \/ req[s].kind \in {"info", "orders"})
    /\ UNCHANGED <<poolVars, dbVars, procVars, restarts>>
DeliverFailure(s) ==
    /\ req[s].pc = "failed"
    /\ req' = [req EXCEPT ![s] = NoReq]
    /\ page' = [page EXCEPT !.polling = (@ /\ req[s].kind # "info")]
    /\ upset' = (upset \/ req[s].kind \in {"info", "orders"})
    /\ UNCHANGED <<poolVars, dbVars, procVars, restarts>>

\* The browser gives up on a request that is never answered.
Abandon(s) ==
    /\ req[s].pc = "hung"
    /\ req' = [req EXCEPT ![s].pc = "failed"]
    /\ UNCHANGED <<poolVars, dbVars, procVars, page, restarts, upset>>
-----------------------------------------------------------------------------
Handle(s) ==
    \/ Middleware(s) \/ MiddlewareThrows(s) \/ HandlerThrows(s) \/ Refuses(s)
    \/ Info(s) \/ InfoOfColdCache(s) \/ Orders(s) \/ Order(s) \/ Signup(s)
    \/ Answer(s) \/ CommitAnswerLost(s) \/ Signin(s) \/ Initialize(s) \/ FillCache(s)
Receive(s) == Deliver(s) \/ DeliverInfo(s) \/ DeliverFailure(s)

Next ==
    \/ \E s \in Slots :
         \/ \E chain \in Calls : Start(s, chain)
         \/ Handle(s) \/ Receive(s) \/ Abandon(s)
    \/ Take
    \/ TimerFires \/ TimerTrades \/ TimerEnds
    \/ Restart

Spec == Init /\ [][Next]_vars
\* The pool serves its queue, the database and the bank answer, and the event
\* loop runs what is ready.  Nobody has to call, restart or give up.
FairSpec == /\ Spec /\ WF_vars(Take) /\ WF_vars(TimerFires)
            /\ \A s \in Slots : WF_vars(Handle(s)) /\ WF_vars(Receive(s))
-----------------------------------------------------------------------------
(* Properties. *)

\* Types; nothing of an answered chain is left in its slot.
TypeOK ==
    /\ holder \in [Conns -> Slots \cup {Nobody, Timer, Lost}]
    /\ queue \in Seq(Slots \cup {Timer})
    /\ req \in [Slots -> [pc : {"none", "mw", "mw_query", "wait", "work", "filling",
                               "done", "ok", "failed", "hung"},
                         kind : Kinds, then : Seq(Kinds), user : BOOLEAN, rev : 0..MaxRev,
                         sess : BOOLEAN]]
    /\ \A s \in Slots : req[s].pc = "none" => req[s] = NoReq
    /\ session \in BOOLEAN /\ account \in BOOLEAN /\ cached \in BOOLEAN
    /\ timer \in {"armed", "due", "waiting", "running", "done"}
    /\ rev \in [all : 0..MaxRev, traded : 0..MaxRev]
    /\ page \in [user : BOOLEAN, list : 0..MaxRev, told : 0..MaxRev, polling : BOOLEAN]
    /\ restarts \in 0..MaxRestarts /\ upset \in BOOLEAN

\* A request has exactly one connection from the pool's answer to its own
\* answer, and none while it waits for one or after it: the pool cannot block
\* on requests that hold and wait, and no handler releases twice or keeps one.
Busy(s) == req[s].pc \in {"mw_query", "work", "filling", "done"}
ConnectionPerRequest ==
    \A s \in Slots :
      /\ Busy(s) <=> \E k \in Conns : holder[k] = s
      /\ \A k, m \in Conns : holder[k] = s /\ holder[m] = s => k = m

\* Whoever waits is queued once, in the middleware or before the handler.
QueueOfWaiters ==
    /\ \A i, j \in DOMAIN queue : queue[i] = queue[j] => i = j
    /\ \A s \in Slots : req[s].pc \in {"mw", "wait"} <=> \E i \in DOMAIN queue : queue[i] = s
    /\ timer = "waiting" <=> \E i \in DOMAIN queue : queue[i] = Timer

\* Every request is answered, unless its handler threw outside a try or every
\* connection is gone: ten throws, or nine and the matching run.
Drained == \A k \in Conns : holder[k] \in {Lost, Timer}
AnsweredUnlessDrained ==
    \A s \in Slots : req[s].pc # "none" ~> req[s].pc \in {"none", "hung"} \/ Drained

\* When nothing is under way the page shows the orders as they are: every
\* change, the user's own or a trade, is followed by a read that begins after
\* it.  Excused: a read that failed, orders deleted by /initialize, an answer
\* overtaken by a later one, a trade told to the page while it was a guest, an
\* order whose answer never came because the process or the COMMIT's answer was
\* lost after it was made.
ListCurrent ==
    page.user /\ ~upset /\ page.told = rev.traded /\ (\A s \in Slots : req[s].pc = "none")
      => page.list = rev.all
=============================================================================
