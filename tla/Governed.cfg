SPECIFICATION FairSpec
CONSTANTS
  t1 = t1
  t2 = t2
  u1 = u1
  u2 = u2
  p1 = p1
  p2 = p2
  k1 = k1
  k2 = k2
  s1 = s1
  s2 = s2
  NoText = NoText
  NoPolicy = NoPolicy
  NoInput = NoInput
  NoProvider = NoProvider
  NoKey = NoKey
  Users = {u1, u2}
  Texts <- MCTexts
  Fold <- MCFold
  ModelFamily <- MCModelFamily
  PeriodLength <- MCPeriodLength
  Providers = {"openai", "anthropic", "gemini", "mock", "unheard-of"}
  Priorities = {0, 1, 2}
  Tenants = {t1}
  PolicyIds = {p1, p2}
  Requests = {r1}
  Inputs <- PathInputs
  KeyIds = {k1}
  Secrets = {s1}
  Admins = {a1}
  PolicyForms <- PathForms
  PatchedFields = {{"type", "action", "priority", "rules"}}
  InitialPolicies <- PathPolicies
  InitialKeys <- InitialKeyRows
  MaxInFlight = 2
  MaxTokens = 1
  MaxTime = 1
PROPERTIES
  GovernedSpec
  EveryRequestEnds
CHECK_DEADLOCK FALSE
