SPECIFICATION Spec
CONSTANTS
    Ring = {r1, r2}
    Parts = 2
    MaxPayloads = 2
    FrameQueue = 1
    None = None
INVARIANT EventThreadLives
CHECK_DEADLOCK FALSE
