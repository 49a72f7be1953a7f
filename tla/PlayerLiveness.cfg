SPECIFICATION FairSpec
CONSTANTS
    Stream <- TwoPictures
    Samples = 4
    Frames = 2
    FrameBlocks = 2
    RecordBlocks = 1
    BufferBlocks = 2
    QueuedBlocks = 3
    Commands = {"pause"}
    Faults = {}
PROPERTIES
    StopReturns
    RadioIsServed
    PlaysToTheEnd
