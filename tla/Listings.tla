------------------------------- MODULE Listings -------------------------------
(***************************************************************************)
(* The paginated listings: each is a filter over one table, asked page by  *)
(* page.  A page is two queries, the rows and their number, that the       *)
(* service sends together and the database answers in any order, while     *)
(* other requests create, update, delete and restore rows.                 *)
(*                                                                         *)
(* A row is its table, its tenant, the user or parent it belongs to,       *)
(* whether a search finds it, and its key: the value of the column the     *)
(* caller sorts by.  An update may change the key, unless that column is   *)
(* createdAt, which is sorted by when the caller names none.  Descending   *)
(* order stands for both.                                                  *)
(* The client is external: it follows hasNextPage from page 1 on.          *)
(***************************************************************************)
EXTENDS Pagination, FiniteSets, SequencesExt

CONSTANTS
  RowIds,       \* ids of rows
  SortValues,   \* values of the column the listing is sorted by, integers here
  Lists,        \* the listings an instance walks
  Scopes,       \* what a caller is: its tenant and user, whether it searches
  InitialRows,  \* sets of initial tables, by listing
  QueryLimit,   \* the limit the client asks for; 0 when it gives none
  MaxChanges,   \* bound on the changes made during a walk
  NoTenant, NoRow, NoData

VARIABLES
  rows,     \* RowIds -> row, or NoRow
  walk,     \* the walk of the client
  changes

vars == <<rows, walk, changes>>

Query == [page |-> 0, limit |-> QueryLimit]
Limit == LimitOf(Query)

-----------------------------------------------------------------------------
\* The filters.  buildSearchFilter() and buildSoftDeleteFilter().
Search(row, scope) == scope.searches => row.hit
NotDeleted(row) == ~row.deleted
OptionalTenant(row, scope) == scope.tenant # NoTenant => row.tenant = scope.tenant

UsersFindAll(row, scope) ==
  row.table = "users" /\ NotDeleted(row) /\ Search(row, scope)
    /\ OptionalTenant(row, scope)
TenantsFindAll(row, scope) ==
  row.table = "tenants" /\ NotDeleted(row) /\ Search(row, scope)
GetTenantUsers(row, scope) ==
  row.table = "users" /\ NotDeleted(row) /\ Search(row, scope)
    /\ row.tenant = scope.tenant
PoliciesFindAll(row, scope) ==
  row.table = "policies" /\ Search(row, scope) /\ OptionalTenant(row, scope)
GetPolicyLogs(row, scope) == row.table = "policy_logs" /\ row.owner = scope.owner
GetLogs(row, scope) == row.table = "ai_logs" /\ OptionalTenant(row, scope)
WebhooksFindAll(row, scope) == row.table = "webhooks"
WebhookGetLogs(row, scope) == row.table = "webhook_logs" /\ row.owner = scope.owner
FindAllForUser(row, scope) == row.table = "notifications" /\ row.owner = scope.owner
FlagsFindAll(row, scope) == row.table = "feature_flags"
FindByUser(row, scope) == row.table = "file_uploads" /\ row.owner = scope.owner
AuditFindAll(row, scope) == row.table = "audit_logs" /\ OptionalTenant(row, scope)

Where(list, row, scope) ==
  CASE list = "users"         -> UsersFindAll(row, scope)
    [] list = "tenants"       -> TenantsFindAll(row, scope)
    [] list = "tenantUsers"   -> GetTenantUsers(row, scope)
    [] list = "policies"      -> PoliciesFindAll(row, scope)
    [] list = "policyLogs"    -> GetPolicyLogs(row, scope)
    [] list = "aiLogs"        -> GetLogs(row, scope)
    [] list = "webhooks"      -> WebhooksFindAll(row, scope)
    [] list = "webhookLogs"   -> WebhookGetLogs(row, scope)
    [] list = "notifications" -> FindAllForUser(row, scope)
    [] list = "flags"         -> FlagsFindAll(row, scope)
    [] list = "files"         -> FindByUser(row, scope)
    [] list = "audit"         -> AuditFindAll(row, scope)

Listed(table, list, scope) ==
  {r \in RowIds : table[r] # NoRow /\ Where(list, table[r], scope)}

\* Rows that tie come in whatever order the database likes.
Sorted(s) == \A i, j \in DOMAIN s : i < j => rows[s[i]].key >= rows[s[j]].key
Orders(ids) == {s \in SetToSeqs(ids) : Sorted(s)}
Untied(table, ids) ==
  {r \in ids : \A q \in ids : table[q].key = table[r].key => q = r}
PageRows(order, page) ==
  {order[i] : i \in Positions(page, Limit) \cap DOMAIN order}

-----------------------------------------------------------------------------
Idle == [step |-> "idle"]
Init == /\ walk = Idle /\ changes = 0
        /\ \E list \in Lists : rows \in InitialRows[list]

Begin(list, scope) ==
  /\ walk = Idle
  /\ walk' = [step |-> "asking", list |-> list, scope |-> scope, page |-> PageOf(Query),
              data |-> NoData, total |-> NoData,
              seen |-> [r \in RowIds |-> 0],
              \* history: rows listed all the time that never tied with another
              stable |-> Untied(rows, Listed(rows, list, scope)),
              removed |-> 0, inserted |-> 0,  \* history: rows that went, that came,
              late |-> 0,                     \* that came between count and findMany,
              moved |-> 0]                    \* and whose key changed
  /\ UNCHANGED <<rows, changes>>

Asking == walk.step = "asking"
FindMany ==
  /\ Asking /\ walk.data = NoData
  /\ \E order \in Orders(Listed(rows, walk.list, walk.scope)) :
       LET data == PageRows(order, walk.page) IN
       walk' = [walk EXCEPT !.data = data,
                  !.seen = [r \in RowIds |-> IF r \in data THEN @[r] + 1 ELSE @[r]]]
  /\ UNCHANGED <<rows, changes>>
Count ==
  /\ Asking /\ walk.total = NoData
  /\ walk' = [walk EXCEPT !.total = Cardinality(Listed(rows, walk.list, walk.scope))]
  /\ UNCHANGED <<rows, changes>>
\* buildPaginatedResult(); the client goes on while there is a next page.
HasNext(page, total) == IF walk.list = "aiLogs"
                        THEN HasNextLogs(page, Limit, total)
                        ELSE HasNextPage(page, Limit, total)
Answer ==
  /\ Asking /\ walk.data # NoData /\ walk.total # NoData
  /\ walk' = IF HasNext(walk.page, walk.total)
             THEN [walk EXCEPT !.page = @ + 1, !.data = NoData, !.total = NoData]
             ELSE [walk EXCEPT !.step = "ended"]
  /\ UNCHANGED <<rows, changes>>

\* Another request writes row r.
Write(r, row) ==
  LET table == [rows EXCEPT ![r] = row]
      now == Listed(table, walk.list, walk.scope)
      was == r \in Listed(rows, walk.list, walk.scope)
      is == r \in now
      counted == walk.total # NoData /\ walk.data = NoData
  IN
  /\ Asking /\ changes < MaxChanges /\ changes' = changes + 1
  /\ rows' = table
  /\ walk' = [walk EXCEPT
       !.stable = @ \cap Untied(table, now),
       !.removed = IF was /\ ~is THEN @ + 1 ELSE @,
       !.inserted = IF is /\ ~was THEN @ + 1 ELSE @,
       !.late = IF is /\ ~was /\ counted THEN @ + 1 ELSE @,
       !.moved = IF was /\ is /\ row.key # rows[r].key THEN @ + 1 ELSE @]
Create(r, row) == rows[r] = NoRow /\ Write(r, [row EXCEPT !.deleted = FALSE])
Update(r, row) == rows[r] # NoRow /\ rows[r].table = row.table /\ Write(r, row)
Delete(r) == rows[r] # NoRow /\ Write(r, NoRow)
SetDeleted(r) ==
  /\ rows[r] # NoRow /\ rows[r].table \in {"users", "tenants"}
  /\ Write(r, [rows[r] EXCEPT !.deleted = ~@])

\* What is written is like some row, with any key.
Likes == {r \in RowIds : rows[r] # NoRow}
Written == {[rows[r] EXCEPT !.key = key] : r \in Likes, key \in SortValues}
Next ==
  \/ \E list \in Lists, scope \in Scopes : Begin(list, scope)
  \/ FindMany \/ Count \/ Answer
  \/ \E r \in RowIds : \/ \E row \in Written : Create(r, row) \/ Update(r, row)
                       \/ Delete(r) \/ SetDeleted(r)

Spec == Init /\ [][Next]_vars

-----------------------------------------------------------------------------
\* Every listing: a walk misses a row that was listed all the time only when
\* another row left the listing meanwhile, or came between the count and the
\* rows of a page, or when the value that it or another is sorted by changed:
\* one row missed for each, and none in a quiet table.  A row that ties with
\* another in the sorted column has no such promise.
MissedBounded ==
  walk.step = "ended" =>
    LET missed == {r \in walk.stable : walk.seen[r] = 0}
    IN Cardinality(missed) <= walk.removed + walk.late + walk.moved

\* Every listing: a row is shown again only when another row came meanwhile, or
\* the sorted value of one changed.
RepeatsBounded ==
  Asking =>
    LET repeated == {r \in walk.stable : walk.seen[r] > 1}
    IN repeated # {} => walk.inserted > 0 \/ walk.moved > 0

\* buildPaginationMeta() and buildPrismaQueryOptions(): when nothing changes
\* the listing during a walk, it ends with the page of the last row, has seen
\* each row that ties with no other once, and none that is not of the listing.
QuietWalkIsExact ==
  walk.step = "ended" /\ walk.removed = 0 /\ walk.inserted = 0 /\ walk.moved = 0 =>
    LET ids == Listed(rows, walk.list, walk.scope)
        total == Cardinality(ids) IN
    /\ total = 0 => walk.page = DefaultPage
    /\ total > 0 => (walk.page - 1) * Limit < total /\ total <= walk.page * Limit
    /\ \A r \in Untied(rows, ids) : walk.seen[r] = 1
    /\ \A r \in RowIds \ ids : walk.seen[r] = 0

\* A walk over the pages of any listing errs only by what was written meanwhile.
WalksErrBoundedly == MissedBounded /\ RepeatsBounded /\ QuietWalkIsExact
=============================================================================
