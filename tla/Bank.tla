-------------------------------- MODULE Bank --------------------------------
(***************************************************************************)
(* The bank server, blackbox/bank/main.go: its handlers, each a            *)
(* transaction of InnoDB at REPEATABLE READ.  /reserve, /add_credit and    *)
(* /check do all they do under the lock of one user's row and are one step *)
(* each; /commit and /cancel lock several rows, read a snapshot taken      *)
(* before, and are modelled statement by statement.                        *)
(***************************************************************************)
EXTENDS Integers, Sequences, FiniteSets, FiniteSetsExt, Functions

CONSTANTS
    NumUsers,   \* table user; ids in the order of registration
    Clients,    \* the requests /commit and /cancel that can be in flight
    Starts,     \* the reservations made before: sequences of [acct, amount]
    Amounts,    \* prices of /reserve: negative ones take money
    Batches,    \* the sets of reserve_ids a client may send
    Prices,     \* prices of /add_credit
    Deposit,    \* Deposit[u]: money of u at the start
    MaxDeposit, \* bound: what /add_credit may raise it to
    MaxId,      \* bound: rows of table reserve ever made
    TTL,        \* life of a reservation in seconds (the code: 300)
    MaxTime     \* bound: the clock, in half seconds

Users == 1..NumUsers
Ids == 1..MaxId
Booking == [acct : Users, amount : Int \ {0}]
\* What the reservations of a start take from u: /reserve had it covered.
Taken(s, u) ==
    SumFunction([i \in {j \in DOMAIN s : s[j].acct = u /\ s[j].amount < 0} |-> s[i].amount])

ASSUME BankAssumption ==
    /\ NumUsers \in Nat /\ MaxId \in Nat /\ TTL \in Nat /\ MaxTime \in Nat
    /\ Batches \subseteq (SUBSET Ids) \ {{}}
    /\ Amounts \subseteq Int \ {0} /\ Prices \subseteq Nat \ {0}
    /\ Deposit \in [Users -> Nat] /\ MaxDeposit \in Nat
    /\ Starts \subseteq Seq(Booking)
    /\ \A s \in Starts : Len(s) <= MaxId /\ \A u \in Users : Deposit[u] + Taken(s, u) >= 0

VARIABLES
    now,        \* time.Now(), and NOW() of the database, in half seconds
    rsv,        \* table reserve, as committed
    nextId,     \* its AUTO_INCREMENT
    ledger,     \* rows of table credit written by /commit
    deposit,    \* SUM(amount) of its rows written by /add_credit
    credit,     \* user.credit, the sum as cached by modifyCredit
    req,        \* the requests /commit and /cancel, with the locks they hold
    snap,       \* snap[c][u]: SUM(amount) in the snapshot of the transaction of c
    uses,       \* history: how often a reservation was settled or cancelled
    late        \* history: the ones settled when /reserve no longer counted them

vars == <<now, rsv, nextId, ledger, deposit, credit, req, snap, uses, late>>
tables == <<rsv, nextId, ledger, deposit, credit>>
history == <<uses, late>>

\* expire_at is DATETIME: MySQL rounds the half second up.
Expire(made) == (made + 2 * TTL + 1) \div 2
Reservation == [id : Ids, acct : Users, amount : Int \ {0},
                made : 0..MaxTime, expire : Nat]
Posting == [id : Ids, acct : Users, amount : Int \ {0}]

Pcs == {"idle", "count", "rows", "first", "apply"}
Request == [kind : {"none", "commit", "cancel"}, pc : Pcs, ids : SUBSET Ids,
            reserves : SUBSET Reservation, todo : SUBSET Reservation,
            users : SUBSET Users]
Idle == [kind |-> "none", pc |-> "idle", ids |-> {}, reserves |-> {}, todo |-> {},
         users |-> {}]
NoSnapshot == [u \in Users |-> 0]
-----------------------------------------------------------------------------
Total(S) == SumFunction([e \in S |-> e.amount])
Alive == {e.id : e \in rsv}
Rows(ids) == {e \in rsv : e.id \in ids}
Fixed(u) == deposit[u] + Total({e \in ledger : e.acct = u})

\* expire_at >= ? with the time of the request, to the microsecond.
Counted(e) == 2 * e.expire >= now
ForgetReserved(u) == 0              \* mutant: reservations not counted
Reserved(u) == Total({e \in rsv : e.acct = u /\ e.amount < 0 /\ Counted(e)})
\* expire_at >= NOW(): whole seconds.
ExpireAfterNow(e) == e.expire > now \div 2    \* mutant: > for >=
Committable(e) == e.expire >= now \div 2

Init ==
    /\ now = 0
    /\ \E s \in Starts :
         /\ rsv = {[id |-> i, acct |-> s[i].acct, amount |-> s[i].amount,
                    made |-> 0, expire |-> Expire(0)] : i \in DOMAIN s}
         /\ nextId = Len(s) + 1
    /\ ledger = {}
    /\ deposit = Deposit /\ credit = Deposit
    /\ req = [c \in Clients |-> Idle] /\ snap = [c \in Clients |-> NoSnapshot]
    /\ uses = [i \in Ids |-> 0] /\ late = {}
-----------------------------------------------------------------------------
(* Who keeps a request waiting. *)
RowsHeld(c) == IF req[c].pc \in {"first", "apply"} THEN req[c].ids ELSE {}
RowFree(c) == {}                    \* mutant: SELECT without FOR UPDATE
RowHolders(c) == {d \in Clients \ {c} : RowsHeld(d) \cap req[c].ids # {}}
UserHolders(c, u) == {d \in Clients \ {c} : u \in req[d].users}

Owners(S) == {e.acct : e \in S}
FirstOwner(S) == {u \in Owners(S) : \A v \in Owners(S) : u <= v}
First(S) == {e \in S : \A f \in S : e.id <= f.id}

Blockers(c) ==
    CASE req[c].pc = "rows" -> RowHolders(c)
      [] req[c].pc = "first" -> UNION {UserHolders(c, u) : u \in FirstOwner(req[c].reserves)}
      [] req[c].pc = "apply" -> UNION {UserHolders(c, e.acct) : e \in First(req[c].todo)}
      [] OTHER -> {}

NoDetection(c) == FALSE             \* mutant: innodb_deadlock_detect = OFF
InDeadlock(c) ==
    \E S \in SUBSET Clients :
        /\ c \in S
        /\ \A d \in S : Blockers(d) \cap S # {} /\ \E x \in S : d \in Blockers(x)

Unlocked(u) == \A c \in Clients : u \notin req[c].users
-----------------------------------------------------------------------------
(* One user, one step. *)
UsedId(u, amount) ==                \* mutant: an id given out before
    [id |-> Min({nextId, 2}), acct |-> u, amount |-> amount, made |-> now,
     expire |-> Expire(now)]
NewReservation(u, amount) ==
    [id |-> nextId, acct |-> u, amount |-> amount, made |-> now, expire |-> Expire(now)]

Insufficient(u, amount) == amount < 0 /\ Fixed(u) + Reserved(u) + amount < 0

Reserve(u, amount) ==
    /\ Unlocked(u) /\ nextId <= MaxId
    /\ ~Insufficient(u, amount)
    /\ rsv' = rsv \cup {NewReservation(u, amount)}
    /\ nextId' = nextId + 1
    /\ UNCHANGED <<now, ledger, deposit, credit, req, snap, history>>

AddCredit(u, price) ==
    /\ Unlocked(u) /\ deposit[u] + price <= MaxDeposit
    /\ deposit' = [deposit EXCEPT ![u] = @ + price]
    /\ credit' = [credit EXCEPT ![u] = Fixed(u) + price]
    /\ UNCHANGED <<now, rsv, nextId, ledger, req, snap, history>>

Tick == /\ now < MaxTime /\ now' = now + 1
        /\ UNCHANGED <<tables, req, snap, history>>
-----------------------------------------------------------------------------
(* /commit and /cancel: count, lock the reservations, lock one owner, apply, *)
(* delete and COMMIT.                                                      *)
Leave(c) == /\ req' = [req EXCEPT ![c] = Idle]
            /\ snap' = [snap EXCEPT ![c] = NoSnapshot]
NoWrite == UNCHANGED <<now, tables, history>>

Arrive(c) ==
    /\ req[c].pc = "idle"
    /\ \E kind \in {"commit", "cancel"}, ids \in Batches :
         /\ ids \subseteq 1..(nextId - 1)
         /\ req' = [req EXCEPT ![c].kind = kind, ![c].pc = "count", ![c].ids = ids]
    /\ UNCHANGED snap /\ NoWrite

CountOk(c) == /\ req[c].ids \subseteq Alive
              /\ req[c].kind = "commit" => \A e \in Rows(req[c].ids) : Committable(e)

\* The first consistent read: the snapshot every later SUM of /commit reads.
Count(c) ==
    /\ req[c].pc = "count" /\ CountOk(c)
    /\ req' = [req EXCEPT ![c].pc = "rows"]
    /\ snap' = IF req[c].kind = "commit"
               THEN [snap EXCEPT ![c] = [u \in Users |-> Fixed(u)]] ELSE snap
    /\ NoWrite

CountRefused(c) == req[c].pc = "count" /\ ~CountOk(c) /\ Leave(c) /\ NoWrite

\* FOR UPDATE reads what is committed now.  The rows are locked in the order of
\* their ids by requests that hold no other lock, so one step is enough.
LockRows(c) ==
    /\ req[c].pc = "rows" /\ Blockers(c) = {} /\ req[c].ids \subseteq Alive
    /\ req' = [req EXCEPT ![c].pc = "first", ![c].reserves = Rows(req[c].ids)]
    /\ UNCHANGED snap /\ NoWrite

AlreadyCommitted(c) ==
    /\ req[c].pc = "rows" /\ Blockers(c) = {} /\ ~(req[c].ids \subseteq Alive)
    /\ Leave(c) /\ NoWrite

\* LIMIT 1: the lock of the first owner only.
LockFirstUser(c) ==
    /\ req[c].pc = "first" /\ Blockers(c) = {}
    /\ req' = [req EXCEPT ![c].pc = "apply", ![c].users = FirstOwner(req[c].reserves),
                          ![c].todo = IF req[c].kind = "commit" THEN req[c].reserves ELSE {}]
    /\ UNCHANGED snap /\ NoWrite

\* modifyCredit of the next reservation: its UPDATE waits for the owner's row.
ApplyCredit(c) ==
    /\ req[c].pc = "apply" /\ req[c].todo # {} /\ Blockers(c) = {}
    /\ req' = [req EXCEPT ![c].users = @ \cup Owners(First(req[c].todo)),
                          ![c].todo = @ \ First(@)]
    /\ UNCHANGED snap /\ NoWrite

\* What the request's own transaction sums: its snapshot and its own rows.
Summed(c, u) == snap[c][u] + Total({e \in req[c].reserves : e.acct = u})

LeaveRows(ids) == rsv               \* mutant: DELETE FROM reserve forgotten
Remaining(ids) == {e \in rsv : e.id \notin ids}

Finish(c) ==
    /\ req[c].pc = "apply" /\ req[c].todo = {}
    /\ rsv' = Remaining(req[c].ids)
    /\ uses' = [i \in Ids |-> IF i \in req[c].ids THEN uses[i] + 1 ELSE uses[i]]
    /\ Leave(c)
    /\ UNCHANGED <<now, nextId, deposit>>

CommitReserves(c) ==
    /\ req[c].kind = "commit" /\ Finish(c)
    /\ ledger' = ledger \cup {[id |-> e.id, acct |-> e.acct, amount |-> e.amount] :
                                e \in req[c].reserves}
    /\ credit' = [u \in Users |-> IF u \in Owners(req[c].reserves) THEN Summed(c, u)
                                                             ELSE credit[u]]
    /\ late' = late \cup {e.id : e \in {r \in req[c].reserves : ~Counted(r)}}

CancelReserves(c) ==
    /\ req[c].kind = "cancel" /\ Finish(c)
    /\ UNCHANGED <<ledger, credit, late>>

\* Error 1213: rolled back and answered 500.
Victim(c) == InDeadlock(c) /\ Leave(c) /\ NoWrite

Progress(c) ==
    \/ Count(c) \/ CountRefused(c) \/ LockRows(c) \/ AlreadyCommitted(c)
    \/ LockFirstUser(c) \/ ApplyCredit(c) \/ CommitReserves(c) \/ CancelReserves(c)
    \/ Victim(c)

Next ==
    \/ \E u \in Users, amount \in Amounts : Reserve(u, amount)
    \/ \E u \in Users, price \in Prices : AddCredit(u, price)
    \/ \E c \in Clients : Arrive(c) \/ Progress(c)
    \/ Tick

Spec == Init /\ [][Next]_vars
\* The server answers, and InnoDB grants a row to whoever waits for it longest.
FairSpec == Spec /\ \A c \in Clients : SF_vars(Progress(c))
-----------------------------------------------------------------------------
\* The shape of the tables and requests; an id is given to one reservation only.
TablesOK ==
    /\ now \in 0..MaxTime
    /\ rsv \subseteq Reservation /\ ledger \subseteq Posting
    /\ nextId \in 1..(MaxId + 1)
    /\ \A e, f \in rsv : e.id = f.id => e = f
    /\ \A e \in rsv \cup ledger : e.id < nextId
    /\ req \in [Clients -> Request]
    /\ uses \in [Ids -> Nat] /\ late \subseteq Ids
TypeOK ==
    /\ TablesOK
    /\ deposit \in [Users -> Nat] /\ credit \in [Users -> Int]
    /\ snap \in [Clients -> [Users -> Int]]

\* The reservations a request has locked are still there, and no other request
\* has them; one that has not got them yet holds no lock, so nobody waits for it.
RowsGuarded ==
    \A c \in Clients :
        /\ RowsHeld(c) \subseteq Alive
        /\ \A d \in Clients \ {c} : RowsHeld(c) \cap RowsHeld(d) = {}
        /\ req[c].pc \in {"first", "apply"} => req[c].reserves = Rows(req[c].ids)
        /\ req[c].pc \notin {"apply"} => req[c].users = {}

\* A reservation is settled or cancelled once, whatever retries and requests for
\* overlapping sets of them are in flight (the second check, after FOR UPDATE).
SettledOnce ==
    \A i \in 1..(nextId - 1) : uses[i] = (IF i \in Alive THEN 0 ELSE 1)

\* Settled money covers the reservations that count, unless one that no longer
\* counted was settled all the same: that is the only way to an overdraft.
CoveredUnlessLate ==
    \A u \in Users :
        \/ Fixed(u) + Reserved(u) >= 0
        \/ \E e \in ledger : e.acct = u /\ e.amount < 0 /\ e.id \in late

\* /commit turns down only a reservation whose five minutes are over, or one
\* that was used.
CommitHonoured ==
    [][\A c \in Clients :
         /\ req[c].kind = "commit" /\ req[c].pc \in {"count", "rows"}
         /\ req'[c].pc = "idle"
         => \E i \in req[c].ids :
              i \in Alive => \E e \in Rows({i}) : now > e.made + 2 * TTL]_vars

\* Every request is answered: deadlocks of the owners' rows are broken.
RequestsAnswered == \A c \in Clients : req[c].pc # "idle" ~> req[c].pc = "idle"

\* Until a reservation expires, the server is the bank the exchange relies on.
Noted(S) == {[id |-> e.id, acct |-> e.acct, amount |-> e.amount, ref |-> "note"] : e \in S}
Promise == INSTANCE IsuBank WITH
             Accounts <- Users, Refs <- {"note"}, Deposit <- Deposit,
             rsv <- Noted(rsv), ledger <- Noted(ledger), nextRsv <- nextId
\* (BankInit of the abstract bank has no reservation: the start is one Reserve
\* after another.)
ImplementsIsuBank == [][Promise!BankNext]_(Promise!bankVars)
-----------------------------------------------------------------------------
(* What the documents say and the code does not do. *)

\* ISUBANK_SPEC: /check tells whether the user holds the amount -- by a cached sum.
CreditMatchesLedger == \A u \in Users : credit[u] = Fixed(u)
=============================================================================
