SPECIFICATION FairSpec
CONSTANTS
  d1 = d1
  d2 = d2
  c1 = c1
  a1 = a1
  a2 = a2
  m1 = m1
  Deferreds = {d1, d2}
  Clocks = {c1}
  Activities = {a1, a2}
  Compensated = {a1, a2}
  Mailboxes = {m1}
  SignalClockPatched = TRUE
  CausesJoin = FALSE
  Bodies <- SagaOnly
  MaxJobs <- CancelSaga
INVARIANT CompensationsCanRun
CHECK_DEADLOCK FALSE
