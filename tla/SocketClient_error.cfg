SPECIFICATION FairSpec
CONSTANTS
  Dest = {d1}
  Flash = TRUE
  MaxCalls = 2
  MaxFaults = 1
PROPERTIES Reconnects
CHECK_DEADLOCK FALSE
