SPECIFICATION Spec
CONSTANTS
  Requests = {r1, r2}
  Accounts = {a1, a2}
  Exits = {e}
  ExitOf <- MCExitOf
  DegradeThreshold = 2
  DegradeCooldown = 2
  EgressThreshold = 2
  StreakReset = 2
  BackoffBase = 1
  BackoffMax = 2
  RetryAfters = {0, 1, 3}
  MaxStreak = 3
  None = None
INVARIANT
  GateTypeOK
PROPERTIES
  OneBlame
  WindowNotExtended
  OnlyEarlierRequestsLift
  GatesReopen
