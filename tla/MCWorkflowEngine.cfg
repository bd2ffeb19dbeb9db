SPECIFICATION FairSpec
CONSTANTS
  a = a
  b = b
  p = p
  ok = ok
  fail = fail
  None = None
  Callers = {a, b, p}
  Uses <- Everybody
  Outcomes = {ok, fail}
  MaxChains = 2
  MaxRuns = 2
  MaxCalls <- FewCalls
  FollowRuns <- OnlyAFollows
INVARIANT TypeOK
PROPERTY KeepsPromise
PROPERTY OutcomesReturned
CHECK_DEADLOCK FALSE
