CONSTANTS
    DbServers = {d}
    GameServers = {g}
    Center = Center
    None = None
    MaxLinks = 4
    MaxDone = 2
    MaxFaults = 1
    MaxLate = 1
SPECIFICATION FairSpec
CHECK_DEADLOCK FALSE
INVARIANTS TableExact Retried
PROPERTY Converges
