\* A restore beside a write.
SPECIFICATION Spec
CONSTANTS
  Files = {fa, fb}
  Plain = {v0, v1}
  Secrets = {secret}
  NoFile = NoFile
  Nobody = Nobody
  Threads = {t1, t2}
  MaxRequests = 3
  MaxCommits = 2
  Touching = {1}
  MaxFetches = 2
  MaxClicks = 5
  Shared = {w1, w2}
  People = {me, pb, pc}
  Me = me
  Other = pb
  Mine = w1
  NoPerson = NoPerson
  Requests = {r1, r2}
  MaxAsked = 3
  Names = {u1, u2}
  NoName = NoName
  Homes = {h1, h2}
  NoHome = NoHome
  MaxActs = 4
  Shops = {w1, w2}
  Machines = {m1, m2}
  Apps = {a}
  Offers = {o1, o2}
  NoShop = NoShop
  NoAlias = NoAlias
  MaxBuys = 5
  AuditSpaces = {w1, w2}
  NoAudit = NoAudit
  AuditSettings <- TwoSettings
  RequestKinds = {{"errors", "health"}}
  FilterValues = {"any", "one"}
  NoFilter = "any"
  MaxPage = 1
  QueueMax = 1
  BatchMax = 1
  MaxAudits = 0
INVARIANTS NoSecretInHistory
CHECK_DEADLOCK FALSE
