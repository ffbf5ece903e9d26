CONSTANTS
    Ring = ring
    Links = {a, b, c}
    MaxDepth = 2
    Removal = "self"
    MaxRefs = 4
SYMMETRY LinkSymmetry
SPECIFICATION Spec
CHECK_DEADLOCK FALSE
INVARIANTS SafeAgainstRecursion RefsExact RingSound EmissionComplete
