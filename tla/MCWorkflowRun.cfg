SPECIFICATION FairSpec
CONSTANTS
  d1 = d1
  d2 = d2
  c1 = c1
  a1 = a1
  a2 = a2
  m1 = m1
  Deferreds = {d1, d2}
  Clocks = {c1}
  Activities = {a1, a2}
  Compensated = {a1, a2}
  Mailboxes = {m1}
  SignalClockPatched = TRUE
  CausesJoin = TRUE
  Bodies <- AllBodies
  MaxJobs <- FewJobs
INVARIANT TypeOK
INVARIANT NoLostWakeup
INVARIANT PassesNeverRegress
INVARIANT StatusReported
INVARIANT CompensationMatchesOutcome
INVARIANT CancelledNeverCompletes
INVARIANT InterruptedNeverSucceeds
PROPERTY AwaitEnds
PROPERTY InterruptedRunCloses
CHECK_DEADLOCK FALSE
