SPECIFICATION ScenarioSpec
CONSTANTS
  t1 = t1
  x = x
  m1 = m1
  m2 = m2
  NoTenant = NoTenant
  NoUser = NoUser
  NoSlug = NoSlug
  NoFlag = NoFlag
  NoCall = NoCall
  NoRequest = NoRequest
  NoItem = NoItem
  Tenants = {t1, t2}
  Slugs = {x, y}
  Users = {m1, m2, m3}
  Calls = {c1, c2}
  Capacities = {1, 2}
  Offered = {}
  InitialTenants <- OneTenant
  InitialUsers <- Outsiders
  Sockets = {s1, s2}
  Items = {i1, i2}
  Marks = {k1}
  Flags = {f1, f2}
  Keys = {a1, a2}
  Texts = {b1, b2}
  Uploads = {o1, o2, o3}
  Allowed = {o1, o2}
  Requests = {q1, q2, q3}
  Hooks = {h1}
  Events = {e1, e2}
  MaxRetries = 1
  RejectionEndsProcess = {TRUE, FALSE}
  InitialHooks <- NoHooks
  Clients = {m1, m2}
  MaxRestarts = 1
  FileFaults = 2
  HookFaults = 1
INVARIANTS
  ServicesTypeOK JoinsBounded OnlineIffConnected NothingMissed CountedOnce
  UpdateStands OrphansExplained
  DuplicatesExplained OutcomesExplained
PROPERTIES
  FilesSpec
SYMMETRY ServiceSymmetry
CHECK_DEADLOCK FALSE
