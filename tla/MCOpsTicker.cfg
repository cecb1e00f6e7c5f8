SPECIFICATION Spec
CONSTANTS
  Accounts = {cn}
  CheckinAccounts = {cn}
  Runners = {r1, r2}
  Slots <- MCSlots
  Stoppers = {s1, s2}
  MaxStarts = 2
  DeadThreshold = 2
INVARIANTS
  TickerTypeOK
  WgCountsGoroutines
  TickerRuns
  SafeWithoutOverlap
PROPERTIES
  StopDrains
  ComesToRest
CHECK_DEADLOCK FALSE
