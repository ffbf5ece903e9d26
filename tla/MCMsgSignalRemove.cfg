CONSTANTS
    Ring = ring
    Links = {a, b}
    MaxDepth = 1
    Removal = "any"
    MaxRefs = 2
SYMMETRY LinkSymmetry
SPECIFICATION Spec
CHECK_DEADLOCK FALSE
INVARIANTS SafeAgainstRecursion
