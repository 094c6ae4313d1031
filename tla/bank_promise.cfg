SPECIFICATION FairSpec
CONSTANTS
    NumUsers = 3
    Clients = {c1, c2}
    Starts <- CrossStarts
    Amounts <- CrossAmounts
    Batches <- CrossBatches
    Prices = {}
    Deposit <- Two
    MaxDeposit = 2
    MaxId = 6
    TTL = 1
    MaxTime = 1
CHECK_DEADLOCK FALSE
PROPERTIES ImplementsIsuBank RequestsAnswered
