\* A role is chosen, then another workspace is opened; nothing fails.
SPECIFICATION SyncSpec
CONSTANTS
  Spaces = {wa, wb}
  FirstSpace = wa
  Aliases = {device, sa}
  Device = device
  NoAlias = NoAlias
  Roles = {ra}
  NoEntry = NoEntry
  MaxClicks = 2
  MaxFailures = 0
  Commands = {"toggle", "switch"}
INVARIANTS WorkspaceScoped
CHECK_DEADLOCK FALSE
