\* Every text parses: Save and leave, canceled and queued again for another text.
SPECIFICATION Spec
CONSTANTS
  Workspaces = {wa, wb}
  NoWorkspace = NoWorkspace
  Paths = {pa, pb}
  NoPath = NoPath
  First = wa
  FirstPath = pa
  MaxEdits = 2
  Invalid = {}
  MaxCommands = 2
  Slots = {1, 2}
  KdbxFiles = {ka, kb}
  OtherFiles = {oa}
  Nothing = Nothing
  RightPassword = r
  WrongPassword = x
  MaxLoads = 2
  Yards = {ya, yb}
  HostFiles = {fa, fb}
  NoCall = NoCall
  MaxBulk = 0
  VFiles = {fa, fb}
  Masters = {ma, mb}
  NoMaster = NoMaster
  OpSlots = {1, 2}
  MaxSecrets = 2
  MaxAsks = 0
PROPERTIES GuardPreventsLoss
CHECK_DEADLOCK FALSE
