SPECIFICATION UpkeepSpec
CONSTANTS
  Day <- MCDay
  Tasks <- MCTasks
  Hour <- MCHour
  Scope <- MCScope
  Realms = {"cn", "global"}
  Draws <- MCDraws
  FirstTask = {"checkin9", "checkin21"}
  MaxRun = 1
  LedgerCap = 3
  TaskLogMax = 1
  Cn = a1
  Global = a2
  Accounts = {a1, a2}
  RealmOf <- MCRealmOf
  Page = page
  Fetchers = {f1}
  Tiers <- MCTiers
  Kinds <- MCKinds
  Packages <- MCPackages
  MaxFailures = 1
  Parts = {"benefits"}
PROPERTIES AllBenefitsClaimed
CHECK_DEADLOCK FALSE
