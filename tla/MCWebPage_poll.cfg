SPECIFICATION Spec
CONSTANTS
  Thread = {t1, t2}
  Message = {m1, m2, m3}
  Channel = {c1, c2}
  Transient = {c1, c2}
  LongPolling = TRUE
  MaxPending = 1
  Null = Null
  HB = HB
SYMMETRY Symmetric
INVARIANTS TypeOK Accounted OneBodyPerRequest OvershootBound
CHECK_DEADLOCK FALSE
