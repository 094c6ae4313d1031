SPECIFICATION FairSpec
CONSTANTS
    alice = alice  bob = bob  c1 = c1  c2 = c2
    Users = {alice, bob}
    Clients = {c1, c2}
    Trader = trader
    Free = free
    NoRow = norow
    Offers <- LiveOffers
    Books <- LiveBooks
    Deposit <- Poor
    MaxOrders = 2
    LimitFactor = 10
    Faults = {"check_error", "reserve_error", "reserve_lost", "commit_refused",
              "commit_lost", "cancel_error", "crash"}
    MaxRestarts = 1
CHECK_DEADLOCK FALSE
INVARIANTS TradesBalanced MoneyConserved
PROPERTIES RequestsAnswered RunEnds
