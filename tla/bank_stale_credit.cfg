SPECIFICATION Spec
CONSTANTS
    NumUsers = 2
    Clients = {c1, c2}
    Starts <- TradeStarts
    Amounts <- TradeAmounts
    Batches <- TradeBatches
    Prices = {1}
    Deposit <- TwoAndThree
    MaxDeposit = 3
    MaxId = 3
    TTL = 1
    MaxTime = 4
SYMMETRY ClientSymmetry
CHECK_DEADLOCK FALSE
INVARIANTS CreditMatchesLedger
