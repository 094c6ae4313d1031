SPECIFICATION FairSpec
CONSTANTS
    None = None
    MaxLogs = 2
    MaxInits = 1
    MaxRestarts = 1
    Faults = {"select_error", "insert_error", "commit_error", "request_error"}
CHECK_DEADLOCK FALSE
INVARIANTS TypeOK LogsOnce CommittedIsLogged CacheFollowsTable SentToCurrent
PROPERTIES LogsEnd
