SPECIFICATION Spec
CONSTANTS
  Thread = {t1, t2, t3}
  Listeners = {t1}
  Message = {m1, m2, m3, m4}
  Page = {p1}
  LongPolling = {p1}
  Transient = {}
  MaxPending = 0
  MaxLinks = 1
  Null = Null
SYMMETRY Symmetric
INVARIANTS OvershootBound NothingLost
CHECK_DEADLOCK FALSE
