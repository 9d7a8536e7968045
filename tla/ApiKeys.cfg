SPECIFICATION Spec
CONSTANTS
  t1 = t1
  t2 = t2
  u1 = u1
  u2 = u2
  p1 = p1
  p2 = p2
  k1 = k1
  k2 = k2
  s1 = s1
  s2 = s2
  NoText = NoText
  NoPolicy = NoPolicy
  NoInput = NoInput
  NoProvider = NoProvider
  NoKey = NoKey
  Users = {u1, u2}
  Texts <- MCTexts
  Fold <- MCFold
  ModelFamily <- MCModelFamily
  PeriodLength <- MCPeriodLength
  Providers = {"openai", "anthropic", "gemini", "mock", "unheard-of"}
  Priorities = {0, 1, 2}
  Tenants = {t1, t2}
  PolicyIds = {p1}
  Requests = {r1}
  Inputs <- KeyInputs
  KeyIds = {k1, k2}
  Secrets = {s1, s2}
  Admins = {a1, a2}
  PolicyForms = {}
  PatchedFields = {{"isActive"}}
  InitialPolicies <- TogglePolicies
  InitialKeys <- InitialKeyRows
  MaxInFlight = 1
  MaxTokens = 0
  MaxTime = 0
SYMMETRY AdminSymmetry
INVARIANTS
  AnswerMatchesAudit
  KeyUseIsRecorded
  KeysUnique
PROPERTIES
  DeletedStaysDeleted
CHECK_DEADLOCK FALSE
