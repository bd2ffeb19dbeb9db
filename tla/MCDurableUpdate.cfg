SPECIFICATION Spec
SYMMETRY Symmetry
CONSTANTS
  c1 = c1
  c2 = c2
  n1 = n1
  n2 = n2
  x = x
  y = y
  a = a
  b = b
  f1 = f1
  f2 = f2
  None = None
  Clients = {c1, c2}
  Channels = {n1, n2}
  Ids = {x, y}
  Requests <- MCRequests
  Answers = {a, b}
  Takers = {f1, f2}
  ChannelOf <- MCChannelOf
  MaxRuns = 2
  MaxPasses = 1
  MaxCalls = 1
INVARIANT TypeOK
INVARIANT AcceptedOnce
INVARIANT TakenOnce
PROPERTY KeepsPromise
CHECK_DEADLOCK FALSE
