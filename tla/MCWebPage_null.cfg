SPECIFICATION Spec
CONSTANTS
  Thread = {t1, t2}
  Message = {m1, m2}
  Channel = {c1, c2}
  Transient = {c1}
  LongPolling = TRUE
  MaxPending = 2
  Null = Null
  HB = HB
SYMMETRY OfMessages
INVARIANTS NullChecked
CHECK_DEADLOCK FALSE
