SPECIFICATION Spec
CONSTANTS
    good = good
    torn = torn
    short = short
    PayloadSize = 4
    Clips = {good, torn}
    Windows = {1}
    DefaultWindow = 2
    AckPackets = 2
    QueueCount = 2
    CommandDepth = 1
    AirDepth = 1
    Copies = {0, 1, 2}
    Allocations = {TRUE}
    Timeouts = FALSE
    MaxSessions = 1
    MaxResets = 1
    Stream <- MCStream
    HeaderSize = 2
    RecordSize = 2
    SmallestRecord = 1
    Rate = 3
    Fps = 2
    AacSamples = 2
INVARIANTS
    BusyIsTruthful
    OnlyFaultsReject
