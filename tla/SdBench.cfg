SPECIFICATION Spec
CONSTANTS
    Slots = {"received_file", "input", "p_file", "p_duplicate"}
    Paths <- MCPaths
    MaxFiles = 3
    CardFaults = {"mount", "unmount", "mkdir", "memory", "open", "read", "write", "size", "sync", "worn"}
    FileBytes = 3
    PayloadBytes = 2
    MaxAttempts = 2
    QueueCount = 2
    AirDepth = 1
    Copies = {0, 1, 2}
    MaxSessions = 2
    Frames = 2
    TestMaxFiles = 2
    CodecFaults = {"create", "prepare", "encode", "decode", "quality"}
    MaxResets = 2
INVARIANTS
    PassIsTrue
    CountIsExact
PROPERTIES
    FilesPreserved
    TestEnds
CHECK_DEADLOCK FALSE
