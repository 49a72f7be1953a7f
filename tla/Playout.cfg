SPECIFICATION Spec
CONSTANTS
    Capacity = 3
    Prebuffer = 2
    Range = 6
    Expiry = 2
    MicDepth = 2
    Modes = {"live", "tone"}
    Steady = FALSE
    Disturbances = 3
INVARIANTS
    NeverBackwards
PROPERTIES
    Recovers
