CONSTANTS
    Msgs = {m, c, d}
    Calls = {c, d}
    Request = request
    CallIds = {1}
    MaxIncoming = 1
    BatchSend = TRUE
    BuffMax = 1
    MaxConnects = 2
    RouterStarts = FALSE
    Impatient = FALSE
SYMMETRY MessageSymmetry
SPECIFICATION Spec
CHECK_DEADLOCK FALSE
INVARIANTS WriterMatches WireInOrder NotOnNextConnection OneRead ToldOfLoss AwaitMatches AwaitTracked
