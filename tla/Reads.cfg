SPECIFICATION ScenarioSpec
CONSTANTS
  t1 = t1
  t2 = t2
  m1 = m1
  m2 = m2
  r1 = r1
  NoTenant = NoTenant
  NoRow = NoRow
  NoData = NoData
  ListedIds = {1, 2, 3, 4}
  SortValues = {0, 6}
  Tables <- Listables
  Callers <- OneCaller
  QueryLimit = 2
  MaxChanges = 2
  RowIds = {r1, r2}
  Templates <- Reportables
  Scopes = {t1, NoTenant}
  Asked = {"dashboard", "usage", "compliance", "security", "tenant",
           "tenantStats", "policyStats", "usageStats", "documents"}
  InitialRows <- OneRow
  MaxWrites = 2
INVARIANTS
  WalksErrBoundedly PartsFit
CHECK_DEADLOCK FALSE
