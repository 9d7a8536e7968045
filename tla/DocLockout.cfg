SPECIFICATION ScenarioSpec
CONSTANTS
  u1 = u1
  u2 = u2
  old = old
  new = new
  wrong = wrong
  NoUser = NoUser
  NoSession = NoSession
  NoBearer = NoBearer
  admin = admin
  t1 = t1
  Actors = {u1}
  Roles = {admin, member}
  Tenants = {t1}
  Signers = {h1}
  Guarded = {r1}
  Endpoints <- AdminOrAny
  Lifetime = 1
  InitialAccounts <- OneAdmin
  MaxInstant = 2
  MaxSigned = 2
  NoTenant = NoTenant
  NoHandler = NoHandler
  NoRequest = NoRequest
  Users = {u1, u2}
  Passwords = {old, new, wrong}
  Calls = {c1, c2}
  SessionIds = {s1, s2, s3}
  Offered = {}
  MaxLoginAttempts = 5
  LockDuration = 1
  SessionExpiry = 2
  ResetExpiry = 1
  InitialUsers <- OneRegistered
  MaxTime = 3
  MaxPurges = 3
  MaxTokens = 2
INVARIANTS
  LockedAfterLimit
SYMMETRY AccountSymmetry
CHECK_DEADLOCK FALSE
