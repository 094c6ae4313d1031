SPECIFICATION FairSpec
CONSTANTS
    alice = alice  bob = bob  c1 = c1  c2 = c2
    Users = {alice, bob}
    Clients = {c1}
    Trader = trader
    Free = free
    NoRow = norow
    Offers <- UnitOffers
    Books <- LiveBooks
    Deposit <- Rich
    MaxOrders = 2
    LimitFactor = 10
    Faults = {}
    MaxRestarts = 0
CHECK_DEADLOCK FALSE
PROPERTIES CrossedBookIsTraded
