\* Three callers and two credentials: a leader, a waiter of its flight and a
\* caller that comes late or refreshes the other credential.  Two keepalives
\* share a flight and compete for the lock with a disabling.
SPECIFICATION RefreshSpec
CONSTANTS
  Keepers = {k1, k2}
  HostCalls = {h1}
  Disablers = {d1}
  Ids = {a, b}
  Account = a
  Two = {f1, f2}
  Flights = {f1, f2, f3}
  MaxToken = 1
  DeadThreshold = 1
  NoRT = NoRT
  Blank = Blank
  Failed = Failed
  NoId = NoId
  Panicked = Panicked
  None = None
  Zero = Blank
  Callers <- MCCallers
  Results <- MCResults
INVARIANTS
  MutexInv
  OneRunPerId
PROPERTIES
  OutcomeFrozen
  JoinsLiveRun
  CallsReturn
  HandlersReturn
