SPECIFICATION SmallSpec
CONSTANTS
  w1 = w1
  w2 = w2
  WorkspaceIds = {w1, w2}
  NoId = NoId
  User = User
  NoUser = NoUser
  Owned = {w1}
  Requested = w1
  KnownUser = User
  OpSlots = {1, 2}
  Devices = {da, db}
  Places = {pa, pb}
  NoDevices = NoDevices
  NoStatus = NoStatus
  MaxJobs = 2
  MaxActs = 4
  Homes = {w1, w2}
  UserCount = 2
  NoOne = NoOne
  MaxEdits = 3
  MaxPolls = 1
  MaxWrites = 1
  TeamSpaces = {w1, w2}
  Logins = {u1, u2}
  NoLogin = NoLogin
  MaxSteps = 4
  MaxForeign = 1
  Names = {na, nb}
  NoName = NoName
  MaxInputs = 5
  MaxKeys = 2
  Sites = {w1, w2}
  Localhost = Localhost
  Apexes = {fa}
  Subdomains = {sa}
  NoDomain = NoDomain
  MaxMoves = 3
INVARIANTS PageTypeOK SelectionAgrees DeployedUnlessMixed LiveViewFollows EditsReachFile DetailsAgree
PROPERTIES SavedUsersKept StatusFollowsOrder
CHECK_DEADLOCK FALSE
