SPECIFICATION Spec
CONSTANTS
    alice = alice  bob = bob  c1 = c1  c2 = c2
    Users = {alice, bob}
    Clients = {c1, c2}
    Trader = trader
    Free = free
    NoRow = norow
    Offers <- SmallOffers
    Books <- SmallBooks
    Deposit <- Poor
    MaxOrders = 4
    LimitFactor = 1
    Faults = {}
    MaxRestarts = 0
SYMMETRY ClientSymmetry
CHECK_DEADLOCK FALSE
INVARIANTS TypeOK TradesBalanced OpenWhileInTransaction PaidExactlyOnce NoStrandedReserve
PROPERTIES OneTradePerOrder
