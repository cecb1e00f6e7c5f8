SPECIFICATION RequestsSpec
CONSTANTS
  Keys = {k1, k2, k3}
  Accounts = {a1, a2}
  NoAccount = NoAccount
  StickyMax = 2
  Others = {o1}
  Models = {m1}
  NoKey = NoKey
  Pickers = {p1, p2}
  Priority <- MCPriority
  Bodies <- MCBodies
  Auths = {a1}
  Fetches = {f1, f2}
  Host = host
  UserAgents <- MCUserAgents
  Catalogs <- MCCatalogs
  NoId = "none"
  Requests = {r1}
  Asked <- MCAsked
  Chats <- MCChats
SYMMETRY Symmetric
CONSTRAINT FewConversations
INVARIANTS SchedTypeOK KeepsConversation OffersResolve PairedForUpstream EffortFits
PROPERTIES ImplementsRecency PickJustified
CHECK_DEADLOCK FALSE
