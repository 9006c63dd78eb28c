SPECIFICATION HubSpec
CONSTANTS
    Browser = "FF"
    Type = "STREAM"
    Servers = 3
    Algorithm = "priority"
    MaxAttempts = 4
    InitialDelay = 1
    MaxDelay = 5
    Multiplier = 2
    MaxQueue = 2
    MaxAhead = 0
    Up = {0, 1, 2}
    Message = {m1, m2, m3, m4}
    MaxSockets = 3
SYMMETRY Symmetry
INVARIANTS
    TypeOK
    RequestsMove TriesAll Delivered
PROPERTIES NoMoreAttempts
CHECK_DEADLOCK FALSE
