-------------------------------- MODULE MCReads --------------------------------
(***************************************************************************)
(* What clients read for TLC: a walk over the pages of a list, or a report,*)
(* while other requests write.  A behaviour picks one.                     *)
(***************************************************************************)
EXTENDS Reports, Integers

CONSTANTS
  t1, t2, m1, m2, r1,         \* tenants, users, the id of a row
  ListedIds, SortValues, Tables, \* Listings: the ids, the keys, what may be listed
  Callers, QueryLimit, MaxChanges, NoData
VARIABLES listed, walk, changes, scenario

-----------------------------------------------------------------------------
(* Lists: of each a table of four rows, most of them the caller's own.     *)

TableOf ==
  [users |-> "users", tenants |-> "tenants", tenantUsers |-> "users",
   policies |-> "policies", policyLogs |-> "policy_logs", aiLogs |-> "ai_logs",
   webhooks |-> "webhooks", webhookLogs |-> "webhook_logs",
   notifications |-> "notifications", flags |-> "feature_flags",
   files |-> "file_uploads", audit |-> "audit_logs"]
\* A row with a higher number sorts first; two of the rows tie.
Own(list, r) == [table |-> TableOf[list], tenant |-> t1, owner |-> m1,
                 deleted |-> FALSE, hit |-> TRUE, key |-> IF r = 3 THEN 2 ELSE r]
\* The row numbered last belongs to somebody else, or does not exist yet.
Other(list) == [Own(list, 4) EXCEPT !.tenant = t2, !.owner = m2, !.hit = FALSE]
Listables ==
  [list \in DOMAIN TableOf |->
     {[r \in ListedIds |-> IF r = 4 THEN last ELSE Own(list, r)]
        : last \in {Other(list), NoRow}}]
OneCaller == [tenant : {t1, NoTenant}, owner : {m1}, searches : BOOLEAN]

Lists == INSTANCE Listings
  WITH rows <- listed, RowIds <- ListedIds, Lists <- DOMAIN TableOf,
       Scopes <- Callers, InitialRows <- Tables, DefaultPage <- 1, DefaultLimit <- 20
ListRow(row) ==
  /\ row = [table |-> row.table, tenant |-> row.tenant, owner |-> row.owner,
            deleted |-> row.deleted, hit |-> row.hit, key |-> row.key]
  /\ row.key \in Int
ASSUME ListsAssumption ==
  /\ SortValues \subseteq Int /\ QueryLimit \in Nat
  /\ \A list \in DOMAIN TableOf : \A table \in Tables[list] :
       /\ table = [r \in ListedIds |-> table[r]]
       /\ \A r \in ListedIds : table[r] # NoRow => ListRow(table[r])
       /\ IsFiniteSet({r \in ListedIds : table[r] # NoRow})
  /\ NoData \notin Nat /\ \A ids \in SUBSET ListedIds : ids # NoData

-----------------------------------------------------------------------------
(* Reports: of each table a row that passes every filter, and some that do *)
(* not.                                                                    *)

Row(table) ==
  [table |-> table, tenant |-> t1, active |-> TRUE, deleted |-> FALSE,
   locked |-> FALSE, user |-> TRUE, outcome |-> "SUCCESS", age |-> "day"]
Reportables ==
  {Row(table) : table \in {"users", "policies", "policy_logs", "ai_logs", "documents"}}
  \cup {[Row("users") EXCEPT !.deleted = TRUE], [Row("users") EXCEPT !.active = FALSE],
        [Row("users") EXCEPT !.tenant = t2], [Row("policies") EXCEPT !.active = FALSE],
        [Row("policy_logs") EXCEPT !.outcome = "DENIED"],
        [Row("ai_logs") EXCEPT !.age = "old"],
        [Row("ai_logs") EXCEPT !.outcome = "DENIED", !.user = FALSE, !.age = "month"],
        [Row("audit_logs") EXCEPT !.outcome = "LOGIN_FAILED"],
        [Row("audit_logs") EXCEPT !.outcome = "LOGIN_FAILED", !.age = "week"]}
\* One row of any kind, and ids of rows that are yet to come.
OneRow == {[r \in RowIds |-> IF r = r1 THEN row ELSE NoRow] : row \in Reportables}

-----------------------------------------------------------------------------
lists == <<listed, walk, changes>>

ScenarioInit ==
  \/ /\ scenario = "lists" /\ Lists!Init
     /\ rows = [r \in RowIds |-> NoRow] /\ report = Idle
  \/ /\ scenario = "reports" /\ Init
     /\ listed = [r \in ListedIds |-> NoRow] /\ walk = Lists!Idle /\ changes = 0
ScenarioNext ==
  /\ \/ scenario = "lists" /\ Lists!Next /\ UNCHANGED vars
     \/ scenario = "reports" /\ Next /\ UNCHANGED lists
  /\ UNCHANGED scenario
ScenarioSpec == ScenarioInit /\ [][ScenarioNext]_<<lists, vars, scenario>>

\* The paginated lists: see Listings.
WalksErrBoundedly == Lists!WalksErrBoundedly
=============================================================================
