SPECIFICATION Spec
CONSTANTS
  Files = {fa, fb}
  Plain = {v0, v1}
  Secrets = {secret}
  NoFile = NoFile
  Nobody = Nobody
  Threads = {t1, t2}
  MaxRequests = 3
  MaxCommits = 2
  Touching = {1}
  MaxFetches = 2
  MaxClicks = 5
  Shared = {w1, w2}
  People = {me, pb, pc}
  Me = me
  Other = pb
  Mine = w1
  NoPerson = NoPerson
  Requests = {r1, r2}
  MaxAsked = 2
  Names = {u1, u2}
  NoName = NoName
  Homes = {h1, h2}
  NoHome = NoHome
  MaxActs = 3
  Shops = {w1, w2}
  Machines = {m1, m2}
  Apps = {a}
  Offers = {o1, o2}
  NoShop = NoShop
  NoAlias = NoAlias
  MaxBuys = 4
  AuditSpaces = {w1, w2}
  NoAudit = NoAudit
  AuditSettings <- TwoSettings
  RequestKinds = {{"errors", "health"}}
  FilterValues = {"any", "one"}
  NoFilter = "any"
  MaxPage = 2
  QueueMax = 1
  BatchMax = 2
  MaxAudits = 3
INVARIANTS HistoriesTypeOK SecretsOnlyRenamed NothingLeftStaged DiffIsOfSelection AddressesUnique DecisionsKept  OrdersAgree AuditAgrees PanelShowsItsQuery
CHECK_DEADLOCK FALSE
