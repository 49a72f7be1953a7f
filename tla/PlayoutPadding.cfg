SPECIFICATION Spec
CONSTANTS
    Capacity = 5
    Prebuffer = 3
    Range = 8
    Expiry = 2
    MicDepth = 2
    Modes = {}
    Steady = TRUE
    Disturbances = 3
PROPERTIES
    PaddingSettles
