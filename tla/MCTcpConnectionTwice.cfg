CONSTANTS
    Msgs = {m, c}
    Calls = {c}
    Request = request
    CallIds = {1}
    MaxIncoming = 1
    BatchSend = TRUE
    BuffMax = 2
    MaxConnects = 1
    RouterStarts = TRUE
    Impatient = FALSE
SPECIFICATION Spec
CHECK_DEADLOCK FALSE
INVARIANT ReaderAssert
