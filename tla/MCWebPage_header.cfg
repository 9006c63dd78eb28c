SPECIFICATION Spec
CONSTANTS
  Thread = {t1, t2}
  Message = {m1}
  Channel = {c1}
  Transient = {}
  LongPolling = TRUE
  MaxPending = 1
  Null = Null
  HB = HB
INVARIANTS HeaderFirst
CHECK_DEADLOCK FALSE
