SPECIFICATION Spec
CONSTANTS
    alice = alice  bob = bob  c1 = c1  c2 = c2
    Users = {alice, bob}
    Clients = {c1, c2}
    Trader = trader
    Free = free
    NoRow = norow
    Offers <- RaceOffers
    Books <- RaceBooks
    Deposit <- Poor
    MaxOrders = 3
    LimitFactor = 10
    Faults = {}
    MaxRestarts = 0
SYMMETRY ClientSymmetry
CHECK_DEADLOCK FALSE
PROPERTIES CanceledStaysCanceled
