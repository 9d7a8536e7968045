# Formal models of Secure Gov

TLA+ models of the backend (`src/backend-api`), checked with TLC on small
instances, with theorems checked by TLAPS for every value of the constants.

## 1. The system

A NestJS service in front of PostgreSQL (Prisma), Redis (BullMQ) and several AI
providers. It keeps almost no state in memory: a request is a chain of awaited
database calls, and anything may happen between two of them. What has to be
right is therefore a matter of interleavings over tables.

| Component | State | Operations | Interacts with |
|---|---|---|---|
| AI gateway (`modules/ai-gateway`) | `ai_logs`, `api_keys.last_used_at`; the locals of each `chat()` | `chat` | policy engine (call), providers (HTTP), `api_keys` |
| Policy engine (`modules/policies/policy-evaluation.service.ts`) | `policy_logs` | `evaluate` | reads `policies`, counts `ai_logs`; called by the gateway and by `POST /policies/evaluate` |
| Policy administration (`policies.service.ts`) | `policies` | `create`, `update`, `remove`, `toggleActive` | a deletion cascades to `policy_logs` |
| API key administration (`api-keys.service.ts`) | `api_keys` | `create`, `rotate`, `toggle`, `remove` | rows the gateway reads and touches |
| Authentication (`modules/auth`) | `users` (attempts, lock, tokens), `sessions` | `register`, `login`, `refresh`, `logout`, `changePassword`, `forgotPassword`, `resetPassword`, verification | mail; the guards read what it signed |
| Guards (`common/guards`, `auth/strategies`) | the token a request brings | authentication, role check | every request; `users` |
| RAG documents (`modules/rag`) | `documents`, `document_chunks`, the queue, files | `upload`, `process`, `reprocess`, `remove`, `search`, `chat` | queue worker; embeddings; RAG chat calls the gateway |
| Tenants and users (`modules/tenants`, `modules/users`) | `tenants`, `users` | creation, update, soft delete, restore, `addUser`, `removeUser` | capacity against concurrent additions |
| Webhooks (`modules/webhooks`) | `webhooks`, `webhook_logs` | CRUD, `trigger`, delivery with retries | remote servers; not awaited by the caller |
| Notifications (`modules/notifications`) | `notifications`, the sockets of each user | connect, disconnect, create, list, mark read | WebSocket clients |
| Feature flags (`modules/feature-flags`) | `feature_flags` | create, update, toggle, remove | |
| File upload (`modules/file-upload`) | `file_uploads`, storage | upload, remove | storage is a second, separate write |
| Lists and pagination (`common/utils`, `database/helpers`) | none | twelve list endpoints | every table |
| Audit and monitoring | `audit_logs` (read only) | nine reports | every table |
| Infrastructure | | bootstrap, configuration, mail, queue and database connections, seed | |

What is hard, component by component, and what makes it correct:

* **Gateway and policies.** Policies are loaded once and visited over several
  awaits while they are edited; the usage limits count rows that are written
  only after the provider has answered; two audit tables are written at
  different moments, one with its errors swallowed; the process may die while
  a provider works. Correct means: nothing reaches a provider that the loaded
  policies refuse; a refusal names the policy that caused it; answers and audit
  rows agree, never two for one request; limits are exceeded by no more than
  what is in flight.
* **Keys and policies under administration.** Handlers read a row, then write
  it. Correct means: one key per tenant and provider; nothing deleted comes
  back; administration takes no row of `ai_logs` away, and rows of `policy_logs`
  only with the policy they name, as the schema cascades.
* **Authentication.** Attempts, locks, sessions and tokens are read, then
  written after an `await` of bcrypt. Correct means: a lock is not undone by a
  login that began after it; a session ended stays ended; how often a reset or a
  refresh token works, how many wrong passwords go unnoticed, and how many
  sessions outlive a change of the password is bounded by the handlers that
  overlap. Those that outlive it were opened by a login or a refresh that had
  read before; they can be refreshed like any other.
* **Guards.** A token carries the role and the tenant of the moment it was
  signed. Correct means: a role taken away is gone when the token expires, and
  a tenant left is left at once.
* **Documents.** A queue with retries, an in-memory fallback, reprocessing that
  overlaps processing, deletion of a file and of a row in two steps, a key that
  comes and goes. Correct means: the run that completed a document has stored
  each chunk once; a document at a halt has a reason; a search shows a document
  that lacks chunks only after a reprocessing removed some from under a
  processing at work, and one that has chunks twice only when processings
  overlapped or followed each other without a removal; no text is lost.
* **Tenants.** Correct means: `maxUsers` holds, or is exceeded by what is in
  flight; nobody is in a tenant that does not exist.
* **Webhooks and notifications.** Correct means: a delivery ends; what the logs
  say is what the receiver saw; a user is online exactly while a socket of
  theirs is; a client that walked its list after connecting misses nothing.
* **Lists and reports.** Pages are cut by position, reports add up numbers of
  different instants. Correct means: both err by no more than what was written
  meanwhile, and not at all when nothing was.

`PROJECT.json` lists each hazard at its line, with the properties that cover it.

## 2. Modules

| Module | Models |
|---|---|
| `PolicyEvaluation` | operators: what each of the seven policy types says of a prompt, the counts behind rate limits and quotas, the decision of an action |
| `AiGateway` | `evaluate()` and `chat()` step by step, providers, crashes, database failures, the administrators of policies and keys, the clock |
| `GovernedAccess` | abstract: a request is judged once, delivered only if admitted, recorded once, then closed |
| `GovernedGateway` | the refinement mapping from `AiGateway` to `GovernedAccess` |
| `AuthSessions` | the handlers of `AuthService`, the administrators of accounts, the clock |
| `SessionLedger` | abstract: handlers prove a password or present a session, and open one later on what they read; who may outlive a closing of all, how often a session is replaced |
| `RequestAccess` | tokens and the guards that read them, while roles and tenants change |
| `DocumentPipeline` | upload, queue, workers, in-memory processing, reprocessing and deletion, crashes |
| `FileLedger` | abstract: the file is written before its row and unlinked before the row goes |
| `Chunking` | `chunkText()`, paragraph by paragraph |
| `RagChat` | processings and reprocessings that may overlap, their embeddings, search and `ragChat()`, composed with `GovernedAccess` for the gateway |
| `TenantMembership` | every write of `TenantsService` and `UsersService` |
| `WebhookDelivery` | webhooks, `trigger()` and the delivery loop |
| `NotificationHub` | sockets, the map of connected users, notifications |
| `FeatureFlags` | flags under overlapping updates, toggles and removals |
| `FileUploads` | files and rows of `FileUploadService` |
| `Pagination`, `Listings` | the arithmetic of pages; the twelve lists, walked by a client |
| `Reports` | the nine reports, query by query |
| `MCAiGateway`, `MCPolicies`, `MCAccounts`, `MCDocuments`, `MCBackground`, `MCServices`, `MCReads` | instances for TLC |
| `AiGatewayProofs`, `GovernedGatewayProofs`, `AuthSessionsProofs`, `DocumentPipelineProofs`, `ServicesProofs`, `TenantMembershipProofs`, `ReadsProofs` | theorems; those of `SessionLedger` stand in that module itself |

Composition: `GovernedGateway` maps the gateway onto `GovernedAccess`, and
`RagChat` uses that promise in place of the gateway. `AuthSessions` implements
`SessionLedger`; `DocumentPipeline` and `FileUploads`, which use the same
`StorageService`, both implement `FileLedger`.

### State and code

Tables are functions from ids to rows, with a sentinel where no row is, or sets
of rows. A handler between two awaits is a record with the step it stands at and
what it read: `req[r]` (gateway), `call[c]` (accounts, tenants, flags),
`request[r]` (documents, uploads, guards), `runs[x]` (an execution of
`processDocument()`), `delivery[d]` (an execution of `deliverWebhook()`),
`walk`, `report`. Rows hold the columns the properties need. Variables and
fields marked `history` are not in the code; properties speak of them, no guard
does except the bounds.

| Code | Actions |
|---|---|
| `evaluate()`: `findMany`, the loop | `LoadPolicies`; `EvaluatePolicy`, `EvaluateTokenQuota` for the second query of a quota with both limits |
| `logPolicyDecision()` | `LogPolicyDecision`, whose insert may fail without effect |
| `chat()`: refusal; key; provider; row and answer | `LogDenied`; `FindKey`, `TouchKey`; `Forward`, then `ProviderAnswers` or `ProviderFails`; `LogSuccess`, `LogFailed` |
| policies and keys CRUD | `CreatePolicy`, `UpdatePolicy`, `RemovePolicy`, `CreateKey`, `RotateKey`, `RemoveKey`; `BeginToggle`, `EndToggle` |
| `login()` | `BeginLogin`; `FailLogin` or `GenerateTokens`, `CommitLogin` |
| `refreshToken()` | `BeginRefresh`, `GenerateTokens`, `CommitRefresh` |
| `logout()`, `revokeSession()` | `Logout`, `LogoutEverywhere`, `RevokeSession` |
| `changePassword()` | `BeginChange`, `CommitChange` |
| `forgotPassword()`, `resetPassword()` | `BeginForgot`, `CommitForgot`, `SendMail`; `BeginReset`, `CommitReset` |
| `register()`, verification | `BeginRegister`, `CreateUser` or `RefuseUser`, `SendMail`; `BeginVerify`, `CommitVerify`; `BeginResend`, `CommitResend` |
| `JwtAuthGuard`, `JwtStrategy.validate()`, `RolesGuard` | `Present`, `Admit` |
| `uploadDocument()` | `Upload`, `CreateDocument`, `Enqueue` or `EnqueueFails` |
| `processDocument()` | `MarkProcessing`, `LoadText`, `CreateChunk` and `EmbedChunk` for each chunk, `Complete`; `RecordFailure`; `RunFails`, `Reject` for the job |
| `reprocessDocument()`, `deleteDocument()` | `Find`, `ClearChunks`, `MarkPending`, `Enqueue`; `Find`, `UnlinkFile`, `DeleteRow` |
| the same two in `RagChat` | `BeginRun`, `ReadKey`, `CreateChunk`, `EmbedChunk`, `Complete`; `FailRun`, `RecordFailure`; `ClearChunks`, `MarkPending` |
| `searchDocuments()`, `ragChat()` | `Ask`, `QueryKey`, `EmbedQuery`, `SearchSimilarChunks`, `Chat`, `Answer` |
| `TenantsService`, `UsersService` | `BeginCreateTenant`, `CreateTenant`; `BeginOnTenant`, `UpdateTenant`, `SetTenantDeleted`; `FindTenant`, `CountMembers`, `FindUser`, `Join`; `BeginLeave`, `Leave`; `BeginOnUser`, `PlaceUser`, `SetUserDeleted` |
| `trigger()`, `deliverWebhook()` | `Trigger`; `Attempt`, `LogAnswer`, `Succeed`, `CallFails`, `GiveUp`, `CountFailure`, `Rejected` |
| `NotificationsGateway`, `NotificationsService` | `Connect`, `Refuse`, `Disconnect`, `Restart`; `Store`, `Send`, `List`, `FindItem`, `MarkAsRead`, `MarkAllAsRead` |
| flags; uploads | `Create`, `Find`, `Update`, `Toggle`, `Remove`; `Store`, `CreateRow`, `Find`, `Unlink`, `DeleteRow` |
| a list; a report | `Begin`, `FindMany`, `Count`, `Answer`; `Ask`, `Answer` |
| a rejected query | `DatabaseFails`, `CallFails`, `RequestFails`, `RunFails`, `EnqueueFails`, `Rejected`; `AbandonRun` when the last write of a processing fails |
| outside the code | `Crash`, `Restart`, `Tick`, `TakeJob`; `Create`, `Update`, `Delete`, `SetDeleted` of `Listings`, the writes of `Reports` |

Abstractions.

* A prompt is the set of texts it contains, and a keyword, a topic, a pattern or
  a model name is such a text; `Fold` is lower-casing; a pattern that does not
  compile matches nothing, as in the code. The prompt is the last user message:
  `chat()` evaluates that one and forwards all messages, so what the properties
  say of the content is said of the last user message. The JSON rules are one
  record with the defaults the code gives missing fields. Calendar periods are
  intervals of the clock.
* A handler that reads a row only to answer 404 or 409 and writes without using
  what it read is one step in `AiGateway`, as the write itself fails if the row
  is gone or the unique index is violated. In the services such reads are steps
  of their own: their writes go by id and find soft-deleted rows too.
* A row of `ai_logs` may be committed and the answer lost; the reply is then
  `lost`. A stored key is assumed to decrypt (the secret of the process does not
  change).
* A password hash is the password. A JWT is its user and the second it was
  signed in, which is all the code puts in it: two tokens of one user and one
  second are the same token. Random tokens are numbers never issued before.
* A document's text is the number of chunks `chunkText()` makes of it;
  `Chunking` says what those chunks are. In `Chunking` the k-th character of
  paragraph p is a value of its own, so that two equal stretches of text are the
  same stretch. In `RagChat` a processing or a reprocessing of a document may
  begin at any time, beside any others, for nothing in the code keeps them
  apart; queue, files and deletion, which `DocumentPipeline` has, are left out.
* An HTTP answer of a webhook receiver is approving or not; the receiver may get
  a call whose answer never comes back.
* The writes that `Listings` interleaves are any creation, update, soft deletion,
  restoration or removal of a row, without the guards of the services. A row's
  `key` is the value of the column the caller sorts by, whichever that is, and an
  update may change it. Those of `Reports` are any creation, change or removal
  of a row.
* A client of a list, of a notification list too, is taken to walk all its
  pages: each answer of the code is one page. `NotificationHub` has that walk as
  one step; `Listings` says what may happen between its pages.

## 3. What TLC checks

Twelve runs, eight of which pass; the four others are in the next section.
Deadlock is not checked: a behaviour ends when all handlers are done, all ids are
used and the clock has stopped.

The smaller services share no row and call one another nowhere, so one run
holds several of them as *scenarios*: a behaviour picks one in its initial state
and the others stand still. This loses nothing, for a property of one service
depends on the variables of that service alone, and every interleaving within
the service is there. Where components do interact they are composed: policies,
keys and chats in `AiGateway`, RAG chat with the gateway's promise in `RagChat`,
credentials and sessions in `AuthSessions`, queue, requests and workers in
`DocumentPipeline`.

| Run | Shows | Instance |
|---|---|---|
| `policies` | `PolicyFirst`, `AuditIsTrue` while one administrator creates, patches (all fields, or the priority alone), toggles and removes policies; `OvershootBounded` as time passes | race: 1 request of 3 kinds, 2 policy ids, 2 forms, priorities 0 to 2; limits: 3 requests of 2 users, 2 at a time, limits of 1, 4 instants |
| `api_keys` | `AnswerMatchesAudit`, `KeyUseIsRecorded`, `KeysUnique`, `DeletedStaysDeleted` while keys are created, rotated, toggled and removed | 1 request of 2 tenants, 2 administrators, 2 keys, 2 secrets, 1 policy to toggle and remove |
| `governed` | `GovernedSpec`, the refinement; `EveryRequestEnds`, under fairness | 1 request over all six paths of a chat, 1 administrator |
| `accounts` | `MissesBounded`, `LockMovedByEarlierLogin`; `LedgerSpec`, `SurvivorsBounded`, `RefreshesBounded`; `ResetTokenUsesBounded`, `PasswordChangeIsEarned`; `RoleIsRecent` | 2 handlers, 2 accounts, one of them yet to register, 3 sessions that live for an instant, 3 instants (2 where sessions are opened and closed, with one change of the password), 5 attempts as in the code; tokens and guards: 1 login or refresh beside 1 request |
| `documents` | `RunIsComplete`, `StuckIsExplained`, `FilesSpec`; `TextIsCut`; `SourcesAreWhole`, `MixedIsExplained` | 1 document of two chunks, 2 requests, 2 jobs, 2 runs, 1 failing call, 1 crash; texts of up to 5 paragraphs of up to 6 characters, chunks of 7 with an overlap of 3; 2 tenants and a question; either one processing and a reprocessing while the key changes once, or two processings and a reprocessing that overlap |
| `background` | `DeliveriesEnd`, `QueuedSettles`, under fairness | a webhook with the three retries of the code, 1 failing call; a document with the three attempts of the code, 2 failing calls, 1 crash |
| `services` | `JoinsBounded`; `OnlineIffConnected`, `NothingMissed`, `CountedOnce`; `UpdateStands`; `OrphansExplained`, `FilesSpec`; `DuplicatesExplained`, `OutcomesExplained` | 2 handlers over 2 tenants and 3 users; 2 sockets, 2 notifications, 1 restart; 2 flags; 3 uploads, one refused, 2 failing calls; 2 deliveries of one webhook, 1 retry, 1 failing call |
| `reads` | `WalksErrBoundedly`, `PartsFit` | each of twelve lists: 4 rows, pages of 2, 2 writes, which may sort a row anew; each of nine reports: 2 rows, 2 writes |

Every run with a type invariant checks it too (`TypeOK`, `ServicesTypeOK`).

Bounds and why they are enough.

* Two handlers at a time, wherever handlers meet over a row: a step read too
  early and used too late needs one other handler in between. Where a bound
  depends on the number of handlers (`OvershootBounded`, `MissesBounded`,
  `JoinsBounded`, `ResetTokenUsesBounded`, `RefreshesBounded`) two reach it, and the theorems of the
  next chapter say it for any number. A third request in `limits` shows that the
  excess does not add up over time.
* `MaxTokens` of a completion is 1: for a quota in tokens only needs completions
  that cost something and some that cost nothing. `MaxTime` is just large enough
  for a window, a period, a lock or a session to end while something runs.
* Two policies give every order of a blocking and an allowing match, and the
  same priority.
* `MaxLoginAttempts` keeps its value of 5. The other durations are an instant or
  two: only their order matters. `MAX_RETRIES` and the attempts of a job keep
  theirs in `background`; `services` has one retry, for there the question is
  what one lost answer does and not how many rounds there are.
* In `documents` a second run and a crash give a job handed out again, an upload
  in memory and one in the queue, and a reprocessing beside a processing.
* Texts of five paragraphs overflow a chunk with the paragraph that fills it
  exactly, with one that is longer than a chunk, and twice in a row.
* Four rows in pages of two, of which a write may remove one, have a full, a half
  and no last page. An update moves a row to the front or to the end of the
  list. Rows that tie in the sorted column are among them, and nothing is
  promised of those: the database may return them in another order for every
  page.
* `governed` has one request: the refinement of overlapping requests is proved.

Symmetry permutes requests, administrators, handlers, session ids and events:
sets whose members no definition names. The runs with liveness properties use
none; `GovernedSpec`, `LedgerSpec` and `FilesSpec` say what steps are possible
and nothing of fairness.

What the properties count as allowed is part of the result. `OvershootBounded`
counts only rows of requests that passed the same row of `policies`: an
administrator may tighten a limit below what was already used, and no code could
prevent that. `MissesBounded` has the number of ways to choose counter values
below the limit as its bound: with one handler that is the limit itself; with
two the wrong passwords an unlocked account has taken stay below fifteen, since
handlers that began with the same count write the same count. `SurvivorsBounded`
counts lines and not sessions: a session that outlived a change of the password
may be refreshed as often as its holder likes, and by refreshes that overlap into
several. `RunIsComplete` speaks of the chunks of the run that
completed a document: an earlier attempt's may stand beside them, and a
reprocessing may have removed some. What a search may then find is the subject of
`SourcesAreWhole`: a chunk that is missing must have gone when a removal met a
processing at work (`undercut`), a chunk that is there twice must come from
processings with no removal between them (`piled`). `WalksErrBoundedly` charges a
missed row to a row that left, that came between the two queries of a page, or
that was sorted anew (`moved`). `StuckIsExplained` lists who may have given
a document up. `OrphansExplained` and `DuplicatesExplained` count one orphan or
repeated call for each failing call.

Fairness. `AiGateway!FairSpec` asks weak fairness of each handler's next step,
for Node resumes an awaited handler when its promise settles, and of the
provider's answer or failure: `provider.chat()` has no timeout of its own, so that
a request ends rests on the connection to the provider ending.
`WebhookDelivery!FairSpec` asks it of each delivery: `fetch` is aborted after ten
seconds and the waits of the loop are timers. `DocumentPipeline!FairSpec` asks it
of taking a waiting job, which is what the queue does, and of a run's next step.
Nothing is asked of administrators, requests, the clock, or failures.
`QueuedSettles` holds with fewer failures than attempts and no more crashes than
the queue hands a job out again for, and only of documents whose job reached the
queue; one processed in memory stays PROCESSING for ever after a crash, which is
what `StuckIsExplained` says.

### Where the documents and the code differ

Four runs are expected to end in a violation; each states what a document says.

| Run | Document | Code |
|---|---|---|
| `doc_allow` | `docs/API_GUIDE.md:162`: "`ALLOW` — Explicitly allow" | `buildResult()` has no case for ALLOW: it denies |
| `doc_lockout` | `docs/SECURITY.md:43`: "Account lockout after 5 failed attempts" | failed logins that overlap write the same count, so five need not lock |
| `doc_rotation` | `docs/DISSERTATION.md:351`: "Token rotation revokes the old refresh token on each use, preventing replay attacks" | the token is looked up first and its session revoked later, by id: refreshes of one token that overlap are all answered |
| `doc_same_model` | `docs/VIVA_PREPARATION.md:317`: "the user's question goes through the same embedding model" | the key is read for each document and each question, and without one, or when OpenAI refuses, the built-in model is used |

Others can be read off the modules without a run:

* `docs/DATABASE.md:86` has "lower = higher priority": the query orders by
  `priority: 'desc'`, so the higher number decides (`NextInOrder`).
* `docs/SECURITY.md:176` has "Every prompt evaluation with decision" logged: only
  matches are written to `policy_logs`.
* `docs/API_GUIDE.md:230` has the chat endpoint log "everything": a chat for an
  unknown provider, or without a key, leaves no row.
* `docs/SECURITY.md:174` has "Login success/failure, logout, token refresh" in the
  audit trail: no service calls `AuditService.log()`, so the reports that count
  failed logins count rows that only seed data writes.
* `docs/SECURITY.md:37`: "Each refresh issues a new refresh token and revokes the
  old one". A token has no random part: within the second of its issue the
  refreshed token is the old one, on a new session.
* `docs/DATABASE.md:44` calls `maxUsers` the "Maximum users allowed": only
  `addUserToTenant()` looks at it, so users created in a tenant or moved to it
  are not counted against it, and `JoinsBounded` is about that one path.
* `docs/DATABASE.md:179` calls `totalChunks` the "Number of text chunks
  generated": it is that of the run that finished last, and other runs may have
  left chunks.
* `docs/VIVA_PREPARATION.md:61` has chunks and embeddings "all in one
  transaction": they are written one at a time.

## 4. What is proved

The assumptions are those named in the modules: constants have their types, what
stands for an absent row is no row, tables start without duplicates, dangling
references, counted failures or tokens still to be mailed, handlers are finite in
number where they are counted. TLC evaluates them in every run of these modules.
Sets of requests, inputs, users, policies, keys, tenants, sessions, documents and
files are arbitrary, finite or not, except where a theorem counts them.

Four of the theorem modules extend an MC module. `RequestAccess`, `RagChat`,
`Chunking`, the four small services, `Listings` and `Reports` are proved about as
`MCAccounts`, `MCDocuments`, `MCServices` and `MCReads` instantiate them; the
constants of these instances are constants of the MC module (`AccessAssumption`,
`RagAssumption`, `CuttingAssumption`, `ServicesAssumption`, `ListsAssumption`), and
only the cfg gives them their small values: the theorems hold for all others.
Inductions run without the library's induction theorems, which take an operator:
a nonempty set of naturals has a least element (`LeastOfNaturals`,
`NaturalsAreReached`), and the set is that of the counterexamples.

### Gateway

**`TypeCorrect`, `PolicyFirstHolds`** (`AiGatewayProofs`). `PolicyFirst` is not
inductive: it speaks of what was received, and not of how the handler got there.
The invariant `IInv` (in `AiGateway`) adds what each handler knows:

* `OrderInv`: policies visited do not match the content and belong to the
  snapshot; while the second query of a quota is under way, the policy at hand
  is next in order;
* `DecisionInv`: a decision is that of a policy that is next in order after
  those passed, or ALLOWED with none left;
* `StageInv`: from the stage one can tell whether there is a decision and
  whether it allows;
* `ReceivedInv`: what a provider received belongs to an allowed request.

`DecidedIsGood`, `MovingOnIsGood` and `OneHandlerChanges` say what any step does to
one handler, and one lemma per action uses them. `PolicyFirst` follows: a
blocking policy that matches has not been passed, so the policy that decided
was visited before it and has no lower priority. Even `TypeOK` needs `IInv`: a
refusal is written with the id of a policy, which must be there.

**`KeysStayUnique`, `AuditSurvives`, `DeletionIsFinal`** (`AiGatewayProofs`). The
invariant `TablesInv` adds that ids of policies are unique and that every row's
id is in `usedIds`: without it a new row might take the id of another. Each
lemma shows at once that a step keeps `TablesInv`, the audit trail and deletions.

**`KeyUseRecorded`** (`AiGatewayProofs`). `KeyUseInv`: the key a handler holds is of
its tenant and provider and has an id that was used up, and from the moment its
use is stamped until the provider has it, every row with that id shows a use. As
ids are never used twice, no row that does not show it can take the id later; a
rotation keeps the stamp, a removal takes the row.

**`OvershootsAreBounded`** (`AiGatewayProofs`). That the counted rows stay below a
limit and what is in flight is not inductive: a request in flight may or may not
have been counted by the one that passes next. `LimitsInv` takes both together.
`RoomInv`: for every policy row that requests may have passed, every input and
the present window, the rows counted *and* the requests in flight that passed the
same row are at most the limit less one and `MaxInFlight`; for tokens each
request in flight stands for `MaxTokens`. A request that passes found fewer rows
than the limit, and there are `MaxInFlight` others at most (`FlightInv`); one that
writes its row turns from the one kind into the other (`RoomWritten`); time only
takes rows out of a window, or begins a period that is empty but for the rows of
the future, of which there are none (`WindowsShrink`, `PeriodsAdvance`).
`WorkInv` bounds the cost of a completion, and `RowsInv` says that a row in the
table is of a request that is over and is therefore not counted twice. The sum of
the tokens of a set of rows is defined as the cardinality of the set of their
tokens (`TokensOf`), which the provers can reason about.

**`AuditIsTruthful`, `AnswersAreAudited`** (`GovernedGatewayProofs`). `AuditInv`
relates each row to the handler it came from: `RowFits` (the decision, the policy
and the outcome are the handler's, and a refused one never received),
`LogFits` (a row of `policy_logs` has the handler's decision and, when it is
blocking, the handler's policy), and `AnswerFits` (before the answer there is no
row, after it exactly the one the answer announces, after a lost answer one at
most). It rests on `IInv`: a refusal can be told from the stage. Deleting or
changing a policy does not matter, because a handler has its own snapshot, which
is what a refusal is compared with.

**`GatewayIsGoverned`** (`GovernedGatewayProofs`). With `Committed` (past the
evaluation the verdict is no longer open, and a call under way was received)
each step is one of `Judge`, `Deliver`, `Close`, `Abandon`, or a stutter.
**`GatewayKeepsPromise`** then carries `PromiseHolds`, proved of `GovernedAccess` from
its actions alone, over to the gateway.

### Accounts and sessions

`AuthInv` (`AuthSessionsProofs`) is `TypeOK` and `CallsInv`: what a running
handler knows (`GoodCall`), relative to the tables of the moment. A login holds a
row whose lock has run out by now; a password change holds the password it
proved; a reset holds a token that was mailed to its account; a refresh holds a
session that exists. `KnowledgeKeeps` says that a handler keeps what it knows as
long as accounts, sessions and mails are never deleted and time does not run
backwards, which `Grows` says of every step; so each action has to be looked at
only for the handler that moves.

* **`AccountsTypeCorrect`**: `TypeOK`, for which a handler's account must exist.
* **`LocksAreMovedByEarlierLogins`**: a login that runs holds a row whose lock is
  not in force. If it writes while a lock is, the row it holds is not the row of
  the table, so the lock came after it had read.
* **`PasswordChangesAreEarned`**: from `GoodCall`, the only handlers that replace
  the password of an account that exists hold the old one or a mailed token.
* **`TokenUsesAreBounded`**: `TokensInv` says that the uses of a token and the
  handlers that hold it are together at most all handlers, that a token still on
  a row is on one row alone and has not been used, and that one not issued yet is
  in nobody's hands. A completed reset takes the token from the row and one
  handler from those that hold it.
* **`MissesAreBounded`**: the bound is attained only if handlers that read early
  hold their value back while the others take the counter up, and then write a
  low one; the invariant has to say how much of that is still to come. For an
  account that is not locked, `MissesInv` counts, at each level below the limit,
  the handlers that can still take the counter there (`Reached`: those that hold
  at least that much, and those that can still read it). Each level is worth the
  ways in which so many handlers take the counter from there to the limit
  (`Weight`, a difference of two neighbours in Pascal's triangle), and the wrong
  passwords so far are no more than the levels together. A login that begins
  changes no count, for a handler that reads the counter could read it before. A
  failure raises the level it writes by one handler and may empty those above;
  what the level gains pays for all that the others lose, and for one wrong
  password more (`FailurePays`: the sum of a column of the triangle is an entry of
  it). When every handler reaches every level, the sum is the bound less one
  (`SomeAbove`). The sum over the levels is not written as one: `Above` has all
  functions that grow at least by those weights, and the wrong passwords are below
  the last value of each. That `choose` of the community modules obeys Pascal's rule
  is proved from the factorial (`FactorialIs`, `WaysDivide`, `Pascal`).
* **`SessionsFollowLedger`**: each step is one of `SessionLedger` or a stutter. What
  a login proved and a refresh read is the handler's `grant` (`CallGrant`), taken
  when it reads and used when it writes. So the ledger has the order the code
  has: a login may prove the old password, the change of the password commits,
  and the login opens its session all the same; and two refreshes of one token
  may each open one.
* **`SurvivorsAreBounded`, `RefreshesAreBounded`, `ClosedStaysClosed`**
  (`SessionLedger`) follow from the ledger alone. A session carries the epoch its
  password was proved in, and the session its line was opened with over a closing
  of all, if there is one (`root`). `RootsKnown`: what is open on an older password
  has a root, and so has what a handler presented since the last closing. The
  bounds are not inductive by themselves, for a handler may still be about to
  open a session: `LinesWithin` counts the lines that outlived a closing together
  with the handlers whose reading is older than it, `ReplacedWithin` the sessions
  that replaced one together with the handlers that hold it. To open uses a grant
  up; after a closing nothing can be presented that is not open again
  (`WithinShrinks`, `WithinMoves`).
* **`FewSessionsSurvive`, `FewRefreshesOfOneToken`** carry both over to the code: no
  more lines outlive a change of the password or a logout everywhere, and no more
  sessions come of one refresh token, than there are handlers at the same time.
* **`RolesAreRecent`, `TenantsAreCurrent`** (of `RequestAccess`). `AccessInv`: what a
  login or refresh looked up, and what a token was signed with, was true at the
  instant `lookedUp`, so the role was held then or later (`HeldLonger`: the last
  instant a role was held never moves back); a request presented a token that had
  not expired; and the tenant its user has is among those seen since. No bound on
  refreshes is needed, since each of them looks the account up again.

### Documents

**`DocumentsTypeCorrect`, `StuckIsAccountedFor`, `CompletedIsWhole`**
(`DocumentPipelineProofs`). `DocumentsInv` has, besides the types:

* `Numbered`, `NamesKnown`: jobs and runs are numbered without gaps, and whatever
  names a document names one that was uploaded;
* `HandlersInv`: an upload that has stored its file is alone with the document; no
  other handler meets a file without a row, and one that unlinked the file will
  not see it again;
* `JobsInv`: a run for a job works on the job's document, while the job is active,
  and no other run works for that job at the same time;
* `ChunksInv`: of a run's own chunks exactly those up to its index are there,
  unless a reprocessing removed some while it ran or the document is gone;
* `CompletedInv`: a completed document names the run that completed it, which has
  ended with all its chunks.

`RunIsComplete` is `CompletedInv` and a count. `StuckIsExplained` is inductive
beside `JobsInv`: whenever somebody stops working on a document that is not
settled, it hands it to another (a request to a job, a job to a run, a run back to
its job) or gives it up, and with two runs for one job the hand-over would not be
one. **`DocumentsKeepOrder`**: `HandlersInv` again; each step is one of `FileLedger`
for one document or a stutter.

**`SourcesStayWhole`, `MixturesHaveCauses`** (of `RagChat`). `ModelsInv` says what
one can tell from the history kept with an embedding: a key is stored exactly
after an odd number of changes, so the model follows from the number of changes
at which the key was read and from whether the call was declined. Hence a
question and a chunk with the same of both have the same model.
`SourcesAreWhole` is of the moment a search ran; `PaperInv` is of every document at
every moment. `Made`: the chunks a processing at work has made are there, unless a
removal met it at work (or another: `undercut` is of the document). `Finished`: a
completed document that no removal met at work has all its chunks, or has none and
nobody works on it, which is the state between the two writes of a
reprocessing; a search finds nothing then. `MadeByOne`: unless processings piled
up, all rows of a document are of one processing, and no other is at work; a
processing makes a row once (`MadeOnce`). `QuestionsInv` keeps what the search saw.

**`TextsAreCut`** (of `Chunking`). `TextIsCut` speaks of the chunks pushed when the
loop has ended; `CutInv` speaks of the text that is being cut. Its last chunk is
what would be pushed now, the trimmed `current` (`Cut`), so `Kept` (every paragraph
stands whole in its chunk, in order) and `Chained` (each chunk begins with the
trimmed end of the one before) hold after every paragraph. A paragraph that fits
makes the last chunk longer and leaves its beginning alone (`LastChunk`); one that
does not leaves it as it is and begins another with its end (`NextChunk`). The
arguments are about ends of texts: each text ends in a character that is no blank
(`Ended`), so trimming takes something from the front only, the end that is shared
is never empty, and the end of a text is shared by every text it is put before
(`SharedIsShared`, `TrimOfLonger`). `Overlap` is at least one here, as in the code:
with none, `slice(-0)` would be the whole chunk.

### Files, flags, notifications and webhooks

All in `ServicesProofs`.

* **`UploadsTypeCorrect`, `UploadsKeepOrder`**. `UploadHandlersInv`: a handler that
  has stored a file has it to itself and no row lists it; one that has found a row
  meets a file without a row never again; one that has unlinked a file will not
  see it come back. So whichever of two overlapping removals comes second finds
  its item one stage further, and stutters.
* **`OrphansHaveCauses`**. `LeftInv`: the items with a file or a row alone that no
  handler has in hand are finite in number and no more than the failed calls.
  Every step but a failing call only takes items from that set (`LeftByFaults`);
  that one adds the item of the handler it ends.
* **`FlagsTypeCorrect`, `UpdatesStand`**. `FlagsInv` is both: handlers write
  columns, so the only thing to see is that none writes another's.
* **`HubTypeCorrect`, `OnlineAreConnected`, `NothingIsMissed`,
  `ReadsAreCountedOnce`**. `HubSafe` adds to the types that an open socket has a
  user and that a notification has no row before `create()`. A notification stored
  after a client's list is sent to its socket, since the map has the socket;
  what is stored but not sent is still under way. `marked` counts rows that turn
  from unread to read, so it is bounded by their cardinality.
* **`WebhooksTypeCorrect`, `DuplicatesHaveCauses`, `OutcomesHaveCauses`**.
  `GoodDelivery` is a ledger of one delivery: approvals, rows of the log, attempts
  and what failed (`upset`), by the step the delivery stands at. While it may still
  send, each approval so far was followed by a failure. `ChargesInv` bounds
  `failureCount` by the deliveries that gave up and are past the increment, which
  are finitely many.

**`ServicesTypeCorrect`** puts the types of these services and of the tenants
together, as the run `services` checks them: each of the services keeps to its own
specification, and their steps may come in any order.

### Tenants

**`MembershipTypeCorrect`, `JoinsAreBounded`** (`TenantMembershipProofs`).
`MembershipInv` is `TypeOK`, which includes references and unique slugs, what each
handler knows, as above, and for each tenant two counts:

* `Roomy`: the users brought in and the handlers that have counted are fewer than
  the widest capacity and all handlers together. A handler that counts and goes on
  found fewer users than the capacity, and those that counted before it are all
  handlers but itself at most; one that writes turns itself into a user.
* `Punctual`: the users who came too late and the handlers on their way in are
  fewer than all handlers, for the one that deletes the tenant is not on its way
  in, and none that begins later finds it.

### Lists and reports

Both in `ReadsProofs`.

**`WalksErrOnlyByWrites`** (of `Listings`). A page is positions in a sorted
sequence; the proof turns positions into counts. The place of a row that ties with
no other is the number of rows that sort before it, plus one (`PlaceIsRank`), so a
row is on the page read last or an earlier one exactly when its `Rank` is within
the `Depth` of the walk, whatever the database does with ties (`PageHoldsRanks`).
Ranks are of a table, and each write makes another: a row that leaves lowers a
rank by one at most, one that comes raises it by one at most, and one that is
sorted anew does either to the others, or changes its own rank and no other's
order (`RankOfLowered`, `RankOfRaised`). Lowered, it lets one other row slip before
the depth; raised, it may slip there itself; never both (`WalkDisturbed`, `RowMoves`).
`GoodWalk` says of a walk that is still going on: the rows that have slipped
before its depth unread are no more than those that left and those that were
sorted anew; while nothing came and nothing was sorted anew, no row was read
twice, and those read are within its depth; while nothing was written at all,
exactly the rows within its depth were read, once each. The count and the
rows of a page are two queries: whoever comes between them may stand behind the
last page, and `late` is the number of those. A walk ends where the pages reach the
count (`NextPageIsNeeded`, `WalkEnds`). There may be any number of rows, pages and
writes, but each table is finite.

**`PartsFitTogether`** (of `Reports`). `PartsFit` speaks of the finished report.
`ReadsInv` says what holds on the way: where a number is still to be asked, the
rows behind it at the moment stand in its place. An answer puts the number for
the rows, and the rows of a part are rows of its whole (`PartsAreParts`, for each
of the reports); a write moves what is still to be asked by one at most, and only
if its row is in the report's scope, when it is counted (`WritesAreCounted`). The
tables are finite, and there may be any number of rows, tenants and writes.

### Only proved, only model-checked

Two properties have a theorem and no run, for no small instance says more of them
than the code itself: `AuditIsKept` (one action touches the rows) and
`TenantIsCurrent` (the tenant is looked up for every request).

Every invariant the runs check is the conclusion of a theorem, and so is every
action property. Two kinds of thing stay with TLC:

* Liveness (`EveryRequestEnds`, `DeliveriesEnd`, `QueuedSettles`): fairness and
  ENABLED are out of the prover's reach.
* What a run says of the composition it chooses. `MCAccounts`, `MCServices` and the
  others pick a scenario, with the calls it offers; the theorems are about the
  specifications of the components, with any calls.

## 5. Not modelled

* Infrastructure: bootstrap, configuration, seed data, database and queue
  connections, SMTP, S3, health checks. I/O without logic of its own.
* Validation of requests by DTOs, except where a handler depends on it
  (pagination defaults, upload types and sizes); the wording of answers and of
  the exception filter; logging; ciphers and signatures; extraction of text from
  PDF and DOCX; the similarity of embeddings.
* `PermissionsGuard`, `TenantThrottlerGuard` and the audit interceptor, which no
  module registers; `TenantGuard`, which lets every request through, for no
  handler has the `@TenantAware` decorator; the throttler of the framework.
* `AuditService.log()`, which nothing calls.
* Queries that return single rows (`getLogById`, `findOne`, `me`, ...), and users
  without a tenant in `POST /policies/evaluate`, who are answered before
  anything is evaluated.
* The removal of a tenant's row with all that cascades from it: the services only
  soft-delete tenants.
