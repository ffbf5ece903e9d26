CONSTANTS
    sync = sync
    timed = timed
    silent = silent
    Calls <- MCCalls
    Sync <- MCSync
    Timed <- MCTimed
    Silent <- MCSilent
    Cancellable = {}
    Blocked = {}
    ReplyKinds = {"empty", "body", "fail"}
    CallIds = 4
    MaxConnects = 1
    MayFail = FALSE
SPECIFICATION FairSpec
CHECK_DEADLOCK FALSE
PROPERTIES TimedCallsEnd CallsEnd
