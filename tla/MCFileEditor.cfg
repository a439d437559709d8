SPECIFICATION Spec
CONSTANTS
  Workspaces = {wa, wb}
  NoWorkspace = NoWorkspace
  Paths = {pa, pb}
  NoPath = NoPath
  First = wa
  FirstPath = pa
  MaxEdits = 2
  Invalid = {2}
  MaxCommands = 2
  Slots = {1, 2}
  KdbxFiles = {ka, kb}
  OtherFiles = {oa}
  Nothing = Nothing
  RightPassword = r
  WrongPassword = x
  MaxLoads = 2
  VFiles = {fa, fb}
  Masters = {ma, mb}
  NoMaster = NoMaster
  OpSlots = {1, 2}
  MaxSecrets = 2
  MaxAsks = 3
  Yards = {ya, yb}
  HostFiles = {fa, fb}
  NoCall = NoCall
  MaxBulk = 4
INVARIANTS PanelTypeOK CleanMeansSaved EntriesOfUnlocked PasswordsOpen BulkAsAsked
PROPERTIES LeaveKeepsEdits AutosaveEventually
CHECK_DEADLOCK FALSE
