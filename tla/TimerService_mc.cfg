SPECIFICATION FairSpec
CONSTANTS
  NumTimers = 2
  TokenMod = 3
  Callers = {c1}
  Delays = {1}
  Periods = {2}
  StartFails = TRUE
  MaxStops = 1
  Horizon = 4
  MaxArms = 2
INVARIANTS EarliestGuarded TokenNamesOneTimer
PROPERTY KeepsDeadlines
