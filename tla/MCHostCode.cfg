SPECIFICATION AllSpec
CONSTANTS
  f = f
  g = g
  h = h
  k1 = k1
  k2 = k2
  v1 = v1
  v2 = v2
  Fibers = {f, g, h}
  Scoped = {f}
  MaxTotal = 4
  PageSizes = {0, 1, 2, 3}
  Limits = {0, 1, 2, 3, 5}
  MaxEmpty = 1
  Unlimited = Unlimited
  Values = {v1, v2}
  MaxBatch = 2
  Keys = {k1, k2}
  MaxCodecs = 2
  None = None
  d1 = d1
  d2 = d2
  c1 = c1
  Executions <- Three
  Deferreds = {d1, d2}
  Clocks = {c1}
  Programs <- All
  MaxInterrupts = 1
  MaxResumes = 1
  RoutingPatched = TRUE
INVARIANT TypeOK
INVARIANT ShutdownStops
INVARIANT ConnectionsReleased
INVARIANT ListsExactly
INVARIANT ReportsAddUp
INVARIANT RoundTrips
 
PROPERTY ScopeCloses
PROPERTY CompletionsArrive
CHECK_DEADLOCK FALSE
