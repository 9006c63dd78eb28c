SPECIFICATION Spec
CONSTANTS
  Thread = {t1, t2}
  Listeners = {t1, t2}
  Message = {m1, m2}
  Page = {p1, p2}
  LongPolling = {p1}
  Transient = {p1}
  MaxPending = 0
  MaxLinks = 1
  Null = Null
SYMMETRY Symmetric
INVARIANTS TypeOK AtMostOnce Accounted
PROPERTIES KeepsPromise
CHECK_DEADLOCK FALSE
