SPECIFICATION Spec
CONSTANTS
  Starts <- TwoStarts
  Digits <- ShorterDigits
  MaxFaults = 1
  Calls = {k1}
  WaitOnce = FALSE
INVARIANTS
  OneDaemon SuccessTrue
PROPERTIES
  EveryStartEnds EveryCallAnswered ServiceConnects WatchFollows
CHECK_DEADLOCK FALSE
