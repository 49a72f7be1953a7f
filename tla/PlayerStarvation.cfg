SPECIFICATION Spec
CONSTANTS
    Stream <- TwoPictures
    Samples = 4
    Frames = 2
    FrameBlocks = 2
    RecordBlocks = 1
    BufferBlocks = 2
    QueuedBlocks = 1
    Commands = {}
    Faults = {}
INVARIANTS
    FallingBehindOnlyHolds
