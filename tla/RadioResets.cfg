SPECIFICATION Spec
CONSTANTS
    good = good
    torn = torn
    short = short
    PayloadSize = 6
    Clips = {good, short}
    Windows = {}
    DefaultWindow = 2
    AckPackets = 2
    QueueCount = 2
    CommandDepth = 1
    AirDepth = 0
    Copies = {0, 1}
    Allocations = {TRUE}
    Timeouts = FALSE
    MaxSessions = 2
    MaxResets = 1
    Stream <- MCStream
    HeaderSize = 2
    RecordSize = 2
    SmallestRecord = 1
    Rate = 3
    Fps = 2
    AacSamples = 2
INVARIANTS
    RamHoldsOffer
PROPERTIES
    KeepsPromise
