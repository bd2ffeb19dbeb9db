SPECIFICATION OutcomeSpec
CONSTANTS
  MaxAttempts = 2
  MaxRepeats = 1
  Besides = {TRUE}
  NoExit = NoExit
INVARIANT StartsChildOnce
CHECK_DEADLOCK FALSE
