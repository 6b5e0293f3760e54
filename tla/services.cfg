CONSTANTS
  Items = {x1, x2, x3}
  Callers = {g1, g2}
  MaxWrites = 5
  MaxRestarts = 1
  None = None
  Procs = {native, acp}
  Records = {i1}
  Threads = {t1}
  Messages = {m1}
  ThreadOf <- MCThreadOf
  MaxMutations = 3
  MaxCrashes = 2
  Free = Free
  Stale = Stale
  Torn = Torn
  NoFile = NoFile
  NoChange = NoChange
  m1 = m1
  t1 = t1
  Channels = {ch}
  MaxStarts = 2
  MaxEvents = 5
  MaxDrops = 2
  Installers = {r1}
  Names = {n1}
  Registries = {own, other}
  ConfigRegs = {own, other}
  Trusted = {other}
  Claude = {other}
  MaxVersion = 2
  Packed = {2}
  MaxChanges = 2
  MaxInstalls = 2
  MaxFileFaults = 1
  MaxKills = 1
  Absent = Absent
  Truncated = Truncated
  SkillIds = {s1, s2}
  Phantom = Phantom
  MaxUploaded = 1
  MaxDiskFaults = 1
  MaxReloads = 1
  Runs = {run1, run2}
  MaxContents = 4
  MaxFaults = 2
  MaxLosses = 1
  UserNames = {root, ann}
  Admin = root
  Passwords = {p, q}
  AdminPassword = p
  Operators = {c1, c2}
  signedIn = c1
  Nobody = Nobody
  MaxRequests = 3
  MaxFailures = 1
  MaxServerStarts = 1
SPECIFICATION ServicesSpec
CHECK_DEADLOCK FALSE
INVARIANTS OneEntryEach OwnEntriesAgree MonitorIsConsistent BackupIsKept
  PluginsAreKept SkillsAreKept
PROPERTIES PoolNeverEmpties IsAtomicMap UsersAreKept
