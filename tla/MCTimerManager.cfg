CONSTANTS
    MaxTimers = 2
    Setters = {"timer", "auto", "fix_bool"}
    Periods = {1}
    MaxTime = 3
    MaxStarts = 2
SPECIFICATION Spec
CHECK_DEADLOCK FALSE
INVARIANTS Rate ChainAlive
PROPERTY StopHolds
