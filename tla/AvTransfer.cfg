SPECIFICATION Spec
CONSTANTS
    clip = clip
    other = other
    short = short
    Clips = {clip, other, short}
    Uploads = {clip}
    Size <- MCSize
    Stocked <- MCStocked
    Length = 3
    MinSize = 2
    PayloadSize = 2
    UsbChunk = 2
    MaxAttempts = 2
    QueueCount = 2
    AirDepth = 0
    Copies = {0, 1}
    Faults = {"radio", "create", "write", "corrupt", "read", "rename", "usb"}
    MaxSessions = 2
    MaxResets = 1
INVARIANTS
    FilesAreVerified
    StagingInStep
PROPERTIES
    NeverReplaced
    KeepsPromise
    Settles
CHECK_DEADLOCK FALSE
