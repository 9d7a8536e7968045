-------------------------------- MODULE Reports --------------------------------
(***************************************************************************)
(* The reports: each counts rows of several tables in queries of its own,  *)
(* sent together and answered in any order, while other requests go on     *)
(* writing.  A report is the set of rows behind each of its numbers; the   *)
(* groups of a breakdown are counted as one, by the rows they divide.      *)
(*                                                                         *)
(* A row is its table, its tenant and what the filters look at; its age is *)
(* relative to the instant the report takes as now.                        *)
(***************************************************************************)
EXTENDS Naturals, FiniteSets

CONSTANTS
  RowIds, Templates,  \* ids of rows, and the rows other requests write
  Scopes,             \* tenants a report is asked for, NoTenant for them all
  Asked,              \* the reports an instance asks for
  InitialRows,
  MaxWrites,          \* bound on the writes during a report
  NoTenant, NoRow

ASSUME ReportsAssumption ==
  \A table \in InitialRows :
    /\ table = [r \in RowIds |-> table[r]]
    /\ IsFiniteSet({r \in RowIds : table[r] # NoRow})

VARIABLES
  rows,    \* RowIds -> row, or NoRow
  report   \* the running report and the numbers it has

vars == <<rows, report>>

-----------------------------------------------------------------------------
\* The filters of the queries; "tenantFilter" is empty for the platform.
Of(table, tenant) ==
  {r \in RowIds : /\ rows[r] # NoRow /\ rows[r].table = table
                  /\ tenant # NoTenant => rows[r].tenant = tenant}
Standing(ids) == {r \in ids : ~rows[r].deleted}
Enabled(ids) == {r \in ids : rows[r].active}
Since(ids, ages) == {r \in ids : rows[r].age \in ages}
Ending(ids, outcome) == {r \in ids : rows[r].outcome = outcome}
Day == {"day"}
Week == {"day", "week"}
Month == {"day", "week", "month"}

\* MonitoringService
\* Variant: the active users include the deleted ones.
GetDashboardDeletedToo(t) ==
  [totalUsers |-> Standing(Of("users", t)),
   activeUsers |-> Enabled(Of("users", t)),
   totalTenants |-> IF t = NoTenant THEN Standing(Of("tenants", t)) ELSE {t},
   totalPolicies |-> Of("policies", t),
   totalAiRequests |-> Of("ai_logs", t),
   aiRequestsLast24h |-> Since(Of("ai_logs", t), Day),
   totalDocuments |-> Of("documents", t)]
GetDashboard(t) ==
  [totalUsers |-> Standing(Of("users", t)),
   activeUsers |-> Enabled(Standing(Of("users", t))),
   totalTenants |-> IF t = NoTenant THEN Standing(Of("tenants", t)) ELSE {t},
   totalPolicies |-> Of("policies", t),
   totalAiRequests |-> Of("ai_logs", t),
   aiRequestsLast24h |-> Since(Of("ai_logs", t), Day),
   totalDocuments |-> Of("documents", t)]
GetUsageReport(t) ==
  LET recent == Since(Of("ai_logs", t), Month) IN
  [requestsByDay |-> recent, byProvider |-> recent, byStatus |-> recent,
   totalRequests |-> recent,
   topUsers |-> {r \in recent : rows[r].user}]
GetComplianceReport(t) ==
  LET evaluations == Since(Of("policy_logs", t), Month) IN
  [totalViolations |-> Ending(evaluations, "DENIED"),
   byDecision |-> evaluations,
   deniedAiRequests |-> Ending(Since(Of("ai_logs", t), Month), "DENIED"),
   totalPolicies |-> Of("policies", t),
   activePolicies |-> Enabled(Of("policies", t))]
GetSecurityReport(t) ==
  LET failures == Ending(Of("audit_logs", t), "LOGIN_FAILED") IN
  [failedLogins24h |-> Since(failures, Day),
   failedLogins7d |-> Since(failures, Week),
   lockedAccounts |-> {r \in Of("users", t) : rows[r].locked}]
GetTenantReport(t) ==
  [users |-> Standing(Of("users", t)), policies |-> Of("policies", t),
   aiRequests |-> Of("ai_logs", t), documents |-> Of("documents", t)]
\* TenantsService, PoliciesService, AiGatewayService, RagService
GetStats(t) ==
  [totalUsers |-> Standing(Of("users", t)),
   activeUsers |-> Enabled(Standing(Of("users", t))),
   auditLogCount |-> Of("audit_logs", t)]
GetTenantPolicyStats(t) ==
  [totalPolicies |-> Of("policies", t),
   activePolicies |-> Enabled(Of("policies", t)),
   totalPolicyLogs |-> Of("policy_logs", t),
   recentDenials24h |-> Since(Ending(Of("policy_logs", t), "DENIED"), Day)]
GetUsageStats(t) ==
  [totalRequests |-> Of("ai_logs", t),
   requestsLast24h |-> Since(Of("ai_logs", t), Day),
   byProvider |-> Of("ai_logs", t), byStatus |-> Of("ai_logs", t),
   tokenStats |-> Ending(Of("ai_logs", t), "SUCCESS")]
GetDocumentStats(t) ==
  [totalDocuments |-> Of("documents", t), byStatus |-> Of("documents", t),
   totalChunks |-> Of("document_chunks", t)]

Platform == {"dashboard", "usage", "compliance", "security"}
RowsOf(name, t) ==
  CASE name = "dashboard"   -> GetDashboard(t)
    [] name = "usage"       -> GetUsageReport(t)
    [] name = "compliance"  -> GetComplianceReport(t)
    [] name = "security"    -> GetSecurityReport(t)
    [] name = "tenant"      -> GetTenantReport(t)
    [] name = "tenantStats" -> GetStats(t)
    [] name = "policyStats" -> GetTenantPolicyStats(t)
    [] name = "usageStats"  -> GetUsageStats(t)
    [] name = "documents"   -> GetDocumentStats(t)

-----------------------------------------------------------------------------
Idle == [name |-> "none"]
Init == rows \in InitialRows /\ report = Idle

\* getTenantReport() and the reports of a tenant's own services need a tenant.
Ask(name, t) ==
  /\ report = Idle /\ (t = NoTenant => name \in Platform)
  /\ report' = [name |-> name, tenant |-> t, touched |-> 0,
                answers |-> [q \in {} |-> 0]]
  /\ UNCHANGED rows
Running == report # Idle
Answered == DOMAIN report.answers
Questions == DOMAIN RowsOf(report.name, report.tenant)
Finished == Running /\ Answered = Questions

\* One query is answered; the tokens of getUsageStats() are asked for last.
Answer(q) ==
  /\ Running /\ q \in Questions \ Answered
  /\ q = "tokenStats" => Questions \ Answered = {q}
  /\ report' = [report EXCEPT !.answers =
       [p \in Answered \cup {q} |->
          IF p = q THEN Cardinality(RowsOf(report.name, report.tenant)[q])
          ELSE report.answers[p]]]
  /\ UNCHANGED rows

\* Another request creates, changes or deletes a row.
InScope(row) == row # NoRow /\ (report.tenant # NoTenant => row.tenant = report.tenant)
Write(r, row) ==
  /\ Running /\ report.touched < MaxWrites /\ ~Finished
  /\ rows[r] # NoRow /\ row # NoRow => rows[r].table = row.table
  /\ rows' = [rows EXCEPT ![r] = row]
  /\ report' = [report EXCEPT !.touched =
                  IF InScope(rows[r]) \/ InScope(row) THEN @ + 1 ELSE @]

Next ==
  \/ \E name \in Asked, t \in Scopes : Ask(name, t)
  \/ Running /\ \E q \in Questions : Answer(q)
  \/ \E r \in RowIds, row \in Templates \cup {NoRow} : Write(r, row)

Spec == Init /\ [][Next]_vars

-----------------------------------------------------------------------------
\* Pairs <<part, whole>>: every row behind the first number is behind the second.
Parts(name) ==
  CASE name = "dashboard"   -> {<<"activeUsers", "totalUsers">>,
                                <<"aiRequestsLast24h", "totalAiRequests">>}
    [] name = "usage"       -> {<<"byProvider", "totalRequests">>,
                                <<"totalRequests", "byStatus">>,
                                <<"byStatus", "requestsByDay">>,
                                <<"requestsByDay", "byProvider">>,
                                <<"topUsers", "totalRequests">>}
    [] name = "compliance"  -> {<<"totalViolations", "byDecision">>,
                                <<"activePolicies", "totalPolicies">>}
    [] name = "security"    -> {<<"failedLogins24h", "failedLogins7d">>}
    [] name = "tenantStats" -> {<<"activeUsers", "totalUsers">>}
    [] name = "policyStats" -> {<<"activePolicies", "totalPolicies">>,
                                <<"recentDenials24h", "totalPolicyLogs">>}
    [] name = "usageStats"  -> {<<"requestsLast24h", "totalRequests">>,
                                <<"byProvider", "byStatus">>,
                                <<"tokenStats", "totalRequests">>}
    [] name = "documents"   -> {<<"byStatus", "totalDocuments">>}
    [] OTHER -> {}

\* Every report: its numbers come from different instants, so that a part may
\* exceed its whole, and "inactivePolicies" be negative; but by no more than
\* the writes to rows of its own scope while it ran, and never in a quiet one.
PartsFit ==
  Finished =>
    \A pair \in Parts(report.name) :
      report.answers[pair[1]] <= report.answers[pair[2]] + report.touched
=============================================================================
