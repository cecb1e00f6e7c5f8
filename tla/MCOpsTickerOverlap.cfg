SPECIFICATION Safety
CONSTANTS
  Accounts = {cn}
  CheckinAccounts = {cn}
  Runners = {r1, r2}
  Slots <- MCSlots
  Stoppers = {s1}
  MaxStarts = 2
  DeadThreshold = 2
INVARIANT
  NoStackedLoops
CHECK_DEADLOCK FALSE
