\* The store of the server and the store of the bots.
CONSTANTS
  Installers = {r1}
  Names = {n1}
  Registries = {own, other}
  ConfigRegs = {own}
  Trusted = {other}
  Claude = {other}
  MaxVersion = 2
  Packed = {}
  MaxChanges = 1
  MaxInstalls = 2
  MaxFileFaults = 1
  MaxKills = 1
  Absent = Absent
  Truncated = Truncated
SPECIFICATION PluginSpec
CHECK_DEADLOCK FALSE
INVARIANTS ActiveToolsAreOffered
