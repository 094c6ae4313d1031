SPECIFICATION Spec
CONSTANTS
    Grains = {1, 2}
    Window <- LongWindow
    Base = 2
    Lookback <- NoLookback
    Seeds <- OneSeed
    Price <- UpAndDown
    MaxTrades = 3
    MaxTime = 3
    MaxEvents = 2
    Faults = {"deadlock", "settle_error", "commit_error", "info_error"}
CHECK_DEADLOCK FALSE
INVARIANTS TypeOK CandlesSummarise ChartMatchesTable PageAscending PageWithinTable MissedOnlyIfSplit
