SPECIFICATION Spec
CONSTANTS
  Spaces = {wa, wb}
  FirstSpace = wa
  Aliases = {device, sa}
  Device = device
  NoAlias = NoAlias
  Roles = {ra}
  NoEntry = NoEntry
  MaxClicks = 2
  MaxFailures = 1
  Commands = {"toggle", "plan", "select", "add", "order", "rename", "delete", "purge", "switch", "reload"}
  RoleIds = {ra, rb}
  Servers = {sa, sb}
  FieldValues = {va, vb}
  DefaultValue = va
  Unset = Unset
  NoRole = NoRole
  MaxTouches = 4
  Apps = {a1, a2, a3}
  BundleIds = {b1}
  Words = {wo}
  NoFilters = NoFilters
  MaxChoices = 4
  RoleApps = {a1, a2, a3}
  Hosts = {sa, sb}
  BundleApps = {a1, a2}
  OneApp = a1
  MaxPresses = 5
INVARIANTS ServersTypeOK PurgedStaysOut RoleConfigAgrees FiltersSurviveReload ButtonSettles
PROPERTIES SelectionConverges RemovalsDrain
CHECK_DEADLOCK FALSE
