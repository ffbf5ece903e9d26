CONSTANTS
    Classes = 4
    Chunks = 3
    Buffers = {b1, b2}
    Sizes = {1, 2, 3}
SPECIFICATION Spec
INVARIANT ContentsKept
CHECK_DEADLOCK FALSE
