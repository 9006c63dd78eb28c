SPECIFICATION ClientsSpec
CONSTANTS
    d1 = d1
    Dest = {d1, d2}
    Flash = FALSE
    Streaming = FALSE
    Browser = "firefox"
    MaxUrl = 1
    MaxCalls = 3
    MaxFaults = 2
INVARIANTS
    TypeOK PollTypeOK
    NotDeaf CallsAccounted OneSocket
    Agree
PROPERTIES StaysClosed Silent
CHECK_DEADLOCK FALSE
