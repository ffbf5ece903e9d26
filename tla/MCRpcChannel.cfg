CONSTANTS
    sync = sync
    timed = timed
    silent = silent
    Calls <- MCCalls
    Sync <- MCSync
    Timed <- MCTimed
    Silent <- MCSilent
    Cancellable <- MCTimed
    Blocked <- MCTimed
    ReplyKinds = {"body", "huge"}
    CallIds = 4
    MaxConnects = 2
    MayFail = TRUE
SPECIFICATION Spec
CHECK_DEADLOCK FALSE
INVARIANTS AnswersMatch SendsInOrder SingleWrite QueueHasSender WaitingCallsTracked
PROPERTY ImplementsService
