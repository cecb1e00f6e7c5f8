SPECIFICATION Spec
CONSTANTS
  Keepers = {k1}
  HostCalls = {h1}
  Disablers = {d1}
  Ids = {a}
  Flights = {f1, f2}
  MaxToken = 3
  DeadThreshold = 2
  NoRT = NoRT
  Blank = Blank
  Failed = Failed
  NoId = NoId
  Panicked = Panicked
  None = None
  Zero = Blank
  Callers <- MCCallers
  Results <- MCResults
INVARIANTS
  CredentialTypeOK
  SnapshotIsCurrent
  SavedTokenIsCurrent
  LagIsExplained

PROPERTIES
  OnlyHostEnables
