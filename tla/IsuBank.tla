------------------------------ MODULE IsuBank ------------------------------
(***************************************************************************)
(* What the bank API promises to an application: reservations that are     *)
(* made, settled or dropped atomically, and a reservation that takes money *)
(* only when the settled money not already reserved covers it.  The        *)
(* exchange is modelled against this module; Bank models the server.       *)
(***************************************************************************)
EXTENDS Integers, FiniteSets, Functions

CONSTANTS
    Accounts,   \* the bank's users
    Deposit,    \* Deposit[a]: settled money of a before the model starts
    Refs        \* what a reservation is made for (history, as in the bank's note)

VARIABLES
    rsv,        \* table reserve: the reservations that are alive
    ledger,     \* table credit: the settled reservations
    nextRsv     \* AUTO_INCREMENT of table reserve

bankVars == <<rsv, ledger, nextRsv>>

Entry == [id : Nat \ {0}, acct : Accounts, amount : Int, ref : Refs]

BankTypeOK ==
    /\ rsv \subseteq Entry
    /\ ledger \subseteq Entry
    /\ nextRsv \in Nat \ {0}

BankInit ==
    /\ rsv = {}
    /\ ledger = {}
    /\ nextRsv = 1

Total(S) == SumFunction([e \in S |-> e.amount])

\* SUM(amount) of table credit, and of the reservations that take money.
Fixed(a) == Deposit[a] + Total({e \in ledger : e.acct = a})
Reserved(a) == Total({e \in rsv : e.acct = a /\ e.amount < 0})

\* POST /check answers 200: reservations are not counted.  The server compares
\* its cached user.credit, which is this sum but for the race of Bank's
\* CreditMatchesLedger.
Funded(a, price) == Fixed(a) >= price

Insufficient(a, amount) == amount < 0 /\ Fixed(a) + Reserved(a) + amount < 0

Reserve(a, amount, ref) ==
    /\ amount # 0
    /\ ~Insufficient(a, amount)
    /\ rsv' = rsv \cup {[id |-> nextRsv, acct |-> a, amount |-> amount, ref |-> ref]}
    /\ nextRsv' = nextRsv + 1
    /\ UNCHANGED ledger

\* All of ids are settled together, or the call fails and nothing changes.
Commit(ids) ==
    /\ ids # {} /\ ids \subseteq {e.id : e \in rsv}
    /\ ledger' = ledger \cup {e \in rsv : e.id \in ids}
    /\ rsv' = {e \in rsv : e.id \notin ids}
    /\ UNCHANGED nextRsv

Cancel(ids) ==
    /\ ids # {} /\ ids \subseteq {e.id : e \in rsv}
    /\ rsv' = {e \in rsv : e.id \notin ids}
    /\ UNCHANGED <<ledger, nextRsv>>

\* Five minutes after it was made, a reservation no longer counts.
Lapse(id) ==
    /\ id \in {e.id : e \in rsv}
    /\ rsv' = {e \in rsv : e.id # id}
    /\ UNCHANGED <<ledger, nextRsv>>
\* The promise as a specification.  A new row is one of rsv', whatever its amount.
BankNext ==
    \/ \E e \in rsv' : Reserve(e.acct, e.amount, e.ref)
    \/ \E ids \in SUBSET {e.id : e \in rsv} : Commit(ids) \/ Cancel(ids)
    \/ \E e \in rsv : Lapse(e.id)
BankSpec == BankInit /\ [][BankNext]_bankVars
============================================================================
