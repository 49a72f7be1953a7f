SPECIFICATION Spec
CONSTANTS
    PayloadSize = 3
    Totals <- MCTotals
    Packets <- MCPackets
    Offsets <- MCOffsets
    Wrap = 14
    DebounceMs = 3
    MaxGap = 4
    HeldCounts = FALSE
    MaxPresses = 2
    Frames = 3
    Fps = 2
    Rate = 5
    Block = 3
    Queued = 6
    Commands = {"play", "pause", "begin"}
    Faults = {"file", "memory", "driver", "task", "card", "picture", "audio"}
    MaxSubmitted = 21
    LocalFrames = 3
    Period = 3
    TurnMax = 2
    DecodeMax = 4
    Clips = {c1, c2}
    LocalFaults = {"mount", "card", "picture", "usb"}
    CountWrap = 2
    SequenceWrap = 4
    Base = 2
    SessionDigits = {1, 2}
    MaxBoots = 2
    MaxDisturbances = 2
    PcmBlocks <- MCPcmBlocks
    MaxPackets = 5
    Tracks = {m1, m2}
    Chunks = 2
    MaxHosts = 3
    MaxMishaps = 1
    Takes = 3
    Warmup = 1
    DmaBlocks = 2
    EventDepth = 3
    Rates = {16, 48}
    MaxScripts = 2
    MaxStalls = 2
    MaxTroubles = 1
INVARIANTS
    TypesOK
    NeverBeyondWindow
    NeverAhead
    OnSchedule
    EveryPacketAlone
    HostIsRight
    SavedIsOneRecording
PROPERTIES
    EdgesAreExact
    PicturesGoForward
    StopEnds
    VideoPreserved
    RoundTripsAreTrue
    TimeoutsAreExcused
    LoraRecovers
CHECK_DEADLOCK FALSE
