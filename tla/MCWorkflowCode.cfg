SPECIFICATION AllSpec
CONSTANTS
  None = None
  d1 = d1
  d2 = d2
  a1 = a1
  t1 = t1
  t2 = t2
  x1 = x1
  o1 = o1
  m1 = m1
  Deferreds = {d1, d2}
  Activities = {a1}
  Typed = {t1, t2}
  Nexus = {x1}
  Offers = {o1}
  Mailboxes = {m1}
  MaxFibers = 2
  Bodies <- AllBodies
  MaxMessages = 3
  MaxResumes = 1
  OutboundCachePatched = TRUE
  FiberCancellationPatched = TRUE
  Executions = {1, 2}
  MaxVersion = 3
  MaxBranches = 3
  NoBranch = NoBranch
  MaxAttempts = 3
  MaxRepeats = 2
  Besides = {TRUE, FALSE}
  NoExit = NoExit
  Steps = 3
  MaxSignals = 5
  Units = {0, 127, 128, 2047, 2048, 55296, 56319, 56320, 57343, 57344, 65535}
  MaxUnits = 3
  Rooms = {0, 1, 2, 3, 4, 5, 6, 7, 8}
  Lengths = {0, 1, 54, 55, 56, 63, 64, 119, 120, 200}
  WordRange = 256
  Entries <- AnyEntry
INVARIANT TypeOK
INVARIANT StableCallsReplay
INVARIANT TakenInOrder
INVARIANT ReplaysAgree
INVARIANT OutcomesTravel
INVARIANT OnlyThrownRetried
INVARIANT PolyfillsAgree
INVARIANT PolyfillsFirst
INVARIANT LintedStaysInSandbox
PROPERTY NotReissued
PROPERTY RunEnds
PROPERTY PhaseAdvances
PROPERTY RequestsServed
PROPERTY CallsReturn
PROPERTY LateAnswersReturned
CHECK_DEADLOCK FALSE
