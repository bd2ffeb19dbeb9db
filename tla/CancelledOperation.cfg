SPECIFICATION Spec
CONSTANTS
  d1 = d1
  d2 = d2
  a1 = a1
  t1 = t1
  t2 = t2
  x1 = x1
  o1 = o1
  m1 = m1
  Deferreds = {d1, d2}
  Activities = {a1}
  Typed = {t1, t2}
  Nexus = {x1}
  Offers = {o1}
  Mailboxes = {m1}
  MaxFibers = 2
  Bodies <- OperationOnly
  MaxMessages = 2
  MaxResumes = 0
  OutboundCachePatched = TRUE
  FiberCancellationPatched = TRUE
INVARIANT SharedCallsSurvive
CHECK_DEADLOCK FALSE
