------------------------------ MODULE AiGateway ------------------------------
(***************************************************************************)
(* The AI gateway: POST /ai/chat and POST /policies/evaluate, from the     *)
(* loading of the tenant's policies to the audit row                       *)
(* (modules/ai-gateway, modules/policies), with the administrators that    *)
(* change policies and API keys meanwhile.                                 *)
(*                                                                         *)
(* The service keeps no state between requests: the state is the tables    *)
(* policies, policy_logs, ai_logs and api_keys, the local variables of the *)
(* requests being handled, and what the AI provider has received.  Every   *)
(* awaited database call is one step, and anything may happen in between.  *)
(***************************************************************************)
EXTENDS PolicyEvaluation

CONSTANTS
  Requests,        \* HTTP requests handled during a behaviour
  Inputs,          \* what a request may carry
  NoInput,         \* a request not received yet
  Providers,       \* provider names a caller may write, known or not
  NoProvider,      \* the caller names no provider
  ModelFamily,     \* the prefix family of a lower-case model name
  KeyIds,          \* primary keys of the table api_keys
  Secrets,         \* provider credentials
  NoKey,           \* no API key row, no credential
  Admins,          \* administrator sessions
  PolicyForms,     \* bodies of POST and PATCH /policies
  PatchedFields,   \* the sets of fields a PATCH may give
  InitialPolicies, \* rows of policies at the start
  InitialKeys,     \* rows of api_keys at the start
  MaxInFlight,     \* bound: requests handled at the same time
  MaxTokens,       \* bound: tokens one completion may cost
  MaxTime          \* bound: last instant of the clock

RegisteredProviders == {"openai", "anthropic", "gemini", "mock"}
Families == {"gpt-", "o1", "o3", "claude-", "gemini-", "other"}

Input == [endpoint : {"chat", "evaluate"}, tenant : Tenants, user : Users,
          prompt : SUBSET Texts, length : Nat, model : Texts \cup {NoText},
          provider : Providers \cup {NoProvider}]

KeyRow == [id : KeyIds, tenant : Tenants, provider : RegisteredProviders,
           secret : Secrets, isActive : BOOLEAN, lastUsedAt : Int]

PolicyForm == [type : PolicyTypes, action : PolicyActions,
               priority : Priorities, isActive : BOOLEAN, rules : Rules]

NeverUsed == -1

ASSUME GatewayConstantsAssumption ==
  /\ Inputs \subseteq Input
  /\ \A in \in Inputs : in.endpoint = "chat" => in.model # NoText
  /\ NoInput \notin Input
  /\ NoProvider \notin Providers
  /\ ModelFamily \in [Texts -> Families]
  /\ NoKey \notin KeyRow \cup Secrets
  /\ NoPolicy \notin PolicyRow
  /\ PolicyForms \subseteq PolicyForm
  /\ PatchedFields \subseteq
       SUBSET {"type", "action", "priority", "isActive", "rules"}
  /\ MaxInFlight \in Nat \ {0}
  /\ MaxTokens \in Nat
  /\ MaxTime \in Nat

ASSUME InitialTablesAssumption ==
  /\ InitialPolicies \subseteq PolicyRow
  /\ \A p, q \in InitialPolicies : p.id = q.id => p = q
  /\ InitialKeys \subseteq KeyRow
  /\ \A k, l \in InitialKeys : k.id = l.id => k = l
  /\ \A k, l \in InitialKeys :
       k.tenant = l.tenant /\ k.provider = l.provider => k = l

VARIABLES
  now,        \* the clock
  policies,   \* table policies: a set of rows
  policyLog,  \* table policy_logs
  aiLog,      \* table ai_logs
  apiKeys,    \* table api_keys
  usedIds,    \* primary keys generated so far (random UUIDs never repeat)
  toggling,   \* per administrator: a toggle between its read and its write
  req,        \* per request: the locals of its handler
  received    \* what the AI providers have received

tables == <<policies, policyLog, aiLog, apiKeys, usedIds>>
vars == <<now, tables, toggling, req, received>>

-----------------------------------------------------------------------------
(* Types *)

Stages == {"idle", "evaluating", "readTokens", "logDecision", "logDenied",
           "findKey", "touchKey", "forward", "calling", "logSuccess",
           "logFailed", "done"}
Replies == {"none", "ok", "evaluated", "forbidden", "badRequest",
            "providerError", "notFound", "error", "lost"}

Handler == [stage : Stages, input : Inputs \cup {NoInput},
            snapshot : SUBSET PolicyRow, passed : SUBSET PolicyRow,
            policy : PolicyRow \cup {NoPolicy},
            decision : Decisions \cup {"none"},
            key : KeyRow \cup {NoKey}, tokens : Nat, reply : Replies]

Idle == [stage |-> "idle", input |-> NoInput, snapshot |-> {}, passed |-> {},
         policy |-> NoPolicy, decision |-> "none", key |-> NoKey,
         tokens |-> 0, reply |-> "none"]

AiLogRow == [request : Requests, tenant : Tenants, user : Users,
             status : {"SUCCESS", "FAILED", "DENIED"}, decision : Decisions,
             policy : PolicyIds \cup {NoPolicy}, tokens : Nat, time : Nat]

PolicyLogRow == [request : Requests, policy : PolicyIds, tenant : Tenants,
                 user : Users, decision : Decisions]

NoToggle == [table |-> "none"]
Toggle == [table : {"policies"}, id : PolicyIds, seen : BOOLEAN]
            \cup [table : {"api_keys"}, id : KeyIds, seen : BOOLEAN]

TypeOK ==
  /\ now \in 0..MaxTime
  /\ policies \subseteq PolicyRow
  /\ policyLog \subseteq PolicyLogRow
  /\ aiLog \subseteq AiLogRow
  /\ apiKeys \subseteq KeyRow
  /\ usedIds \subseteq PolicyIds \cup KeyIds
  /\ toggling \in [Admins -> Toggle \cup {NoToggle}]
  /\ req \in [Requests -> Handler]
  /\ received \subseteq [request : Requests, secret : Secrets \cup {NoKey}]

Init ==
  /\ now = 0
  /\ policies = InitialPolicies
  /\ policyLog = {}
  /\ aiLog = {}
  /\ apiKeys = InitialKeys
  /\ usedIds = {p.id : p \in InitialPolicies} \cup {k.id : k \in InitialKeys}
  /\ toggling = [a \in Admins |-> NoToggle]
  /\ req = [r \in Requests |-> Idle]
  /\ received = {}

-----------------------------------------------------------------------------
(* Handling a request: PolicyEvaluationService.evaluate *)

InFlight == {r \in Requests : req[r].stage \notin {"idle", "done"}}

Enter(r, stage) == req' = [req EXCEPT ![r].stage = stage]

Answer(r, reply) ==
  req' = [req EXCEPT ![r].stage = "done", ![r].reply = reply]

\* dto.provider ?? detectProvider(dto.model)
DetectProvider(model) ==
  LET family == ModelFamily[Fold[model]] IN
  CASE family \in {"gpt-", "o1", "o3"} -> "openai"
    [] family = "claude-"              -> "anthropic"
    [] family = "gemini-"              -> "gemini"
    [] OTHER                           -> "mock"

ProviderOf(input) ==
  IF input.provider # NoProvider THEN input.provider
                                 ELSE DetectProvider(input.model)

\* Variant: the decision is looked at after the provider has been resolved.
StageAfterProviderFirst(input, decision) ==
  IF input.endpoint = "evaluate" THEN "done"
  ELSE IF ProviderOf(input) = "mock" THEN "forward"
  ELSE IF ProviderOf(input) \notin RegisteredProviders THEN "done"
  ELSE IF Allowing(decision) THEN "findKey" ELSE "logDenied"

\* Where a handler goes once the evaluation has returned a decision, and the
\* answer it gives if it goes no further: POST /policies/evaluate ends here.
StageAfter(input, decision) ==
  IF input.endpoint = "evaluate" THEN "done"
  ELSE IF ~Allowing(decision) THEN "logDenied"
  ELSE IF ProviderOf(input) = "mock" THEN "forward"
  ELSE IF ProviderOf(input) \in RegisteredProviders THEN "findKey" ELSE "done"

ReplyAfter(input, decision) ==
  IF StageAfter(input, decision) # "done" THEN "none"
  ELSE IF input.endpoint = "evaluate" THEN "evaluated" ELSE "badRequest"

Decided(handler, decision, policy) ==
  [handler EXCEPT !.decision = decision, !.policy = policy,
                  !.stage = StageAfter(handler.input, decision),
                  !.reply = ReplyAfter(handler.input, decision)]

\* A request arrives and evaluate() loads the active policies of its tenant.
LoadPolicies(r) ==
  /\ req[r].stage = "idle"
  /\ Cardinality(InFlight) < MaxInFlight
  /\ \E in \in Inputs :
       LET active == {p \in policies : p.tenant = in.tenant /\ p.isActive}
           loaded == [Idle EXCEPT !.input = in, !.snapshot = active,
                                  !.stage = "evaluating"]
       IN req' = [req EXCEPT ![r] =
                    IF active = {} THEN Decided(loaded, "ALLOWED", NoPolicy)
                                   ELSE loaded]
  /\ UNCHANGED <<now, tables, toggling, received>>

\* Variant: lowest number first.
NextAscending(handler) ==
  LET rest == handler.snapshot \ handler.passed IN
  {p \in rest : \A q \in rest : p.priority <= q.priority}

\* Variant: no ORDER BY.
NextUnordered(handler) == handler.snapshot \ handler.passed

\* Rows of equal priority come back in any order.
NextInOrder(handler) ==
  LET rest == handler.snapshot \ handler.passed IN
  {p \in rest : \A q \in rest : p.priority >= q.priority}

\* Variant: the loop never advances.
PassWithoutAdvancing(r, p) == Enter(r, "evaluating")

\* The policy does not match: go on with the next one, or allow.
Pass(r, p) ==
  LET visited == [req[r] EXCEPT !.passed = @ \cup {p}, !.stage = "evaluating"]
  IN req' = [req EXCEPT ![r] =
               IF visited.passed = visited.snapshot
                 THEN Decided(visited, "ALLOWED", NoPolicy) ELSE visited]

\* The policy matches: buildResult(), then the decision is logged.
Match(r, p) ==
  req' = [req EXCEPT ![r].policy = p, ![r].decision = Decision(p.action),
                     ![r].stage = "logDecision"]

\* What evaluatePolicy() finds with at most one database read.
FirstReadMatch(p, input) ==
  \/ ContentMatch(p, input)
  \/ RateLimitMatch(p, input, aiLog, now)
  \/ RequestQuotaMatch(p, input, aiLog, now)
  \/ p.rules.maxRequests = 0 /\ TokenQuotaMatch(p, input, aiLog, now)

\* A usage quota with both limits reads the request count, then the tokens.
ReadsTwice(p) ==
  HasPeriod(p) /\ p.rules.maxRequests # 0 /\ p.rules.maxTokens # 0

EvaluatePolicy(r) ==
  /\ req[r].stage = "evaluating"
  /\ \E p \in NextInOrder(req[r]) :
       \/ FirstReadMatch(p, req[r].input) /\ Match(r, p)
       \/ /\ ~FirstReadMatch(p, req[r].input)
          /\ ReadsTwice(p)
          /\ req' = [req EXCEPT ![r].stage = "readTokens", ![r].policy = p]
       \/ /\ ~FirstReadMatch(p, req[r].input)
          /\ ~ReadsTwice(p)
          /\ Pass(r, p)
  /\ UNCHANGED <<now, tables, toggling, received>>

EvaluateTokenQuota(r) ==
  /\ req[r].stage = "readTokens"
  /\ IF TokenQuotaMatch(req[r].policy, req[r].input, aiLog, now)
       THEN Match(r, req[r].policy)
       ELSE Pass(r, req[r].policy)
  /\ UNCHANGED <<now, tables, toggling, received>>

HasRow(table, id) == \E row \in table : row.id = id

\* logPolicyDecision(): an insert whose failure is swallowed.  It fails when
\* the policy is gone (foreign key), and whenever the database does.
LogPolicyDecision(r) ==
  /\ req[r].stage = "logDecision"
  /\ \/ /\ HasRow(policies, req[r].policy.id)
        /\ policyLog' = policyLog \cup
             {[request |-> r, policy |-> req[r].policy.id,
               tenant |-> req[r].input.tenant, user |-> req[r].input.user,
               decision |-> req[r].decision]}
     \/ UNCHANGED policyLog
  /\ req' = [req EXCEPT ![r] = Decided(@, @.decision, @.policy)]
  /\ UNCHANGED <<now, policies, aiLog, apiKeys, usedIds, toggling, received>>

-----------------------------------------------------------------------------
(* Handling a request: AiGatewayService.chat after the evaluation *)

\* createAiLog() and the answer.  The row may be committed and the answer
\* lost, when a connection or the process breaks in between: the caller gets
\* nothing, or an error that does not tell.
CreateAiLog(r, status, policy, reply) ==
  /\ aiLog' = aiLog \cup
       {[request |-> r, tenant |-> req[r].input.tenant,
         user |-> req[r].input.user, status |-> status,
         decision |-> req[r].decision, policy |-> policy,
         tokens |-> req[r].tokens, time |-> now]}
  /\ Answer(r, reply) \/ Answer(r, "lost")
  /\ UNCHANGED <<now, policies, policyLog, apiKeys, usedIds, toggling,
                 received>>

\* Variant: the refusal names the first policy loaded, not the one that matched.
LogDeniedFirstLoaded(r) ==
  /\ req[r].stage = "logDenied"
  /\ \E p \in req[r].snapshot :
       /\ \A q \in req[r].snapshot : p.priority >= q.priority
       /\ CreateAiLog(r, "DENIED", p.id, "forbidden")

LogDenied(r) ==
  /\ req[r].stage = "logDenied"
  /\ CreateAiLog(r, "DENIED", req[r].policy.id, "forbidden")

\* Variant: the lookup is not scoped to the tenant.
ActiveKeysOfAnyTenant(input) ==
  {k \in apiKeys : k.provider = ProviderOf(input) /\ k.isActive}

\* getApiKeyForTenant(): findFirst, then lastUsedAt is written.
ActiveKeys(input) ==
  {k \in apiKeys : /\ k.tenant = input.tenant
                   /\ k.provider = ProviderOf(input)
                   /\ k.isActive}

FindKey(r) ==
  /\ req[r].stage = "findKey"
  /\ \/ \E k \in ActiveKeys(req[r].input) :
          req' = [req EXCEPT ![r].key = k, ![r].stage = "touchKey"]
     \/ ActiveKeys(req[r].input) = {} /\ Answer(r, "badRequest")
  /\ UNCHANGED <<now, tables, toggling, received>>

\* Variant: an upsert of the row read before.
TouchKeyUpsert(r) ==
  /\ req[r].stage = "touchKey"
  /\ apiKeys' = {k \in apiKeys : k.id # req[r].key.id} \cup
                  {[req[r].key EXCEPT !.lastUsedAt = now]}
  /\ Enter(r, "forward")
  /\ UNCHANGED <<now, policies, policyLog, aiLog, usedIds, toggling, received>>

\* The update fails when the row is gone; if not, the secret read before is
\* used, whatever the row holds by now.
TouchKey(r) ==
  /\ req[r].stage = "touchKey"
  /\ \/ /\ HasRow(apiKeys, req[r].key.id)
        /\ apiKeys' = {IF k.id = req[r].key.id
                         THEN [k EXCEPT !.lastUsedAt = now] ELSE k :
                       k \in apiKeys}
        /\ Enter(r, "forward")
     \/ /\ ~HasRow(apiKeys, req[r].key.id)
        /\ Answer(r, "notFound")
        /\ UNCHANGED apiKeys
  /\ UNCHANGED <<now, policies, policyLog, aiLog, usedIds, toggling, received>>

SecretOf(handler) == IF handler.key = NoKey THEN NoKey ELSE handler.key.secret

\* provider.chat(): the provider receives the prompt.
Forward(r) ==
  /\ req[r].stage = "forward"
  /\ received' = received \cup {[request |-> r, secret |-> SecretOf(req[r])]}
  /\ Enter(r, "calling")
  /\ UNCHANGED <<now, tables, toggling>>

ProviderAnswers(r) ==
  /\ req[r].stage = "calling"
  /\ \E t \in 0..MaxTokens :
       req' = [req EXCEPT ![r].stage = "logSuccess", ![r].tokens = t]
  /\ UNCHANGED <<now, tables, toggling, received>>

\* An HTTP error, a malformed answer, or no connection at all.
ProviderFails(r) ==
  /\ req[r].stage \in {"forward", "calling"}
  /\ ProviderOf(req[r].input) # "mock"
  /\ Enter(r, "logFailed")
  /\ UNCHANGED <<now, tables, toggling, received>>

\* Variant: the success row is written inside the try block of the call, so a
\* failure after its commit is taken for a provider error.
LogSuccessInsideTry(r) ==
  /\ req[r].stage = "logSuccess"
  /\ \/ CreateAiLog(r, "SUCCESS", NoPolicy, "ok")
     \/ /\ aiLog' = aiLog \cup
             {[request |-> r, tenant |-> req[r].input.tenant,
               user |-> req[r].input.user, status |-> "SUCCESS",
               decision |-> req[r].decision, policy |-> NoPolicy,
               tokens |-> req[r].tokens, time |-> now]}
        /\ Enter(r, "logFailed")
        /\ UNCHANGED <<now, policies, policyLog, apiKeys, usedIds, toggling,
                       received>>

LogSuccess(r) ==
  /\ req[r].stage = "logSuccess"
  /\ CreateAiLog(r, "SUCCESS", NoPolicy, "ok")

LogFailed(r) ==
  /\ req[r].stage = "logFailed"
  /\ CreateAiLog(r, "FAILED", NoPolicy, "providerError")

\* An awaited database call rejects: nothing catches it, the caller gets 500.
ReadsDatabase(p) ==
  \/ HasWindow(p)
  \/ HasPeriod(p) /\ (p.rules.maxRequests # 0 \/ p.rules.maxTokens # 0)

DatabaseFails(r) ==
  /\ \/ /\ req[r].stage = "idle"
        /\ \E in \in Inputs :
             req' = [req EXCEPT ![r] = [Idle EXCEPT !.input = in,
                       !.stage = "done", !.reply = "error"]]
     \/ /\ req[r].stage \in {"readTokens", "logDenied", "findKey", "touchKey",
                             "logSuccess", "logFailed"}
        /\ Answer(r, "error")
     \/ /\ req[r].stage = "evaluating"
        /\ \E p \in NextInOrder(req[r]) : ReadsDatabase(p)
        /\ Answer(r, "error")
  /\ UNCHANGED <<now, tables, toggling, received>>

\* The process dies: every request in flight is lost, the tables stay.
Crash ==
  /\ InFlight # {}
  /\ req' = [r \in Requests |->
               IF r \in InFlight
                 THEN [req[r] EXCEPT !.stage = "done", !.reply = "lost"]
                 ELSE req[r]]
  /\ toggling' = [a \in Admins |-> NoToggle]
  /\ UNCHANGED <<now, tables, received>>

-----------------------------------------------------------------------------
(* Administrators: PoliciesService and ApiKeysService.  Their handlers read *)
(* the row before they write it, to answer 404 or 409; the write itself     *)
(* fails when the row is gone, or when the unique index is violated, so one *)
(* step stands for both, except for the toggles, which write what they read.*)

Free(a) == toggling[a] = NoToggle

CreatePolicy(a) ==
  /\ Free(a)
  /\ \E id \in PolicyIds \ usedIds, t \in Tenants, f \in PolicyForms :
       /\ policies' = policies \cup
            {[id |-> id, tenant |-> t, type |-> f.type, action |-> f.action,
              priority |-> f.priority, isActive |-> f.isActive,
              rules |-> f.rules]}
       /\ usedIds' = usedIds \cup {id}
  /\ UNCHANGED <<now, policyLog, aiLog, apiKeys, toggling, req, received>>

\* Fields a PATCH does not give are left as they are.
Patched(p, form, fields) ==
  [p EXCEPT !.type     = IF "type" \in fields THEN form.type ELSE @,
            !.action   = IF "action" \in fields THEN form.action ELSE @,
            !.priority = IF "priority" \in fields THEN form.priority ELSE @,
            !.isActive = IF "isActive" \in fields THEN form.isActive ELSE @,
            !.rules    = IF "rules" \in fields THEN form.rules ELSE @]

UpdatePolicy(a) ==
  /\ Free(a)
  /\ \E p \in policies, f \in PolicyForms, fields \in PatchedFields :
       policies' = (policies \ {p}) \cup {Patched(p, f, fields)}
  /\ UNCHANGED <<now, policyLog, aiLog, apiKeys, usedIds, toggling, req,
                 received>>


\* policy_logs.policy_id cascades; ai_logs.policy_id is no foreign key.
RemovePolicy(a) ==
  /\ Free(a)
  /\ \E p \in policies :
       /\ policies' = policies \ {p}
       /\ policyLog' = {l \in policyLog : l.policy # p.id}
  /\ UNCHANGED <<now, aiLog, apiKeys, usedIds, toggling, req, received>>

\* Variant: no unique index, two sessions have both found no row.
CreateKeyUnchecked(a) ==
  /\ Free(a)
  /\ \E id \in KeyIds \ usedIds, t \in Tenants, s \in Secrets,
        provider \in RegisteredProviders \ {"mock"} :
       /\ apiKeys' = apiKeys \cup
            {[id |-> id, tenant |-> t, provider |-> provider, secret |-> s,
              isActive |-> TRUE, lastUsedAt |-> NeverUsed]}
       /\ usedIds' = usedIds \cup {id}
  /\ UNCHANGED <<now, policies, policyLog, aiLog, toggling, req, received>>

CreateKey(a) ==
  /\ Free(a)
  /\ \E id \in KeyIds \ usedIds, t \in Tenants, s \in Secrets,
        provider \in RegisteredProviders \ {"mock"} :
       /\ \A k \in apiKeys : k.tenant # t \/ k.provider # provider
       /\ apiKeys' = apiKeys \cup
            {[id |-> id, tenant |-> t, provider |-> provider, secret |-> s,
              isActive |-> TRUE, lastUsedAt |-> NeverUsed]}
       /\ usedIds' = usedIds \cup {id}
  /\ UNCHANGED <<now, policies, policyLog, aiLog, toggling, req, received>>

RotateKey(a) ==
  /\ Free(a)
  /\ \E k \in apiKeys, s \in Secrets :
       apiKeys' = (apiKeys \ {k}) \cup {[k EXCEPT !.secret = s]}
  /\ UNCHANGED <<now, policies, policyLog, aiLog, usedIds, toggling, req,
                 received>>

RemoveKey(a) ==
  /\ Free(a)
  /\ \E k \in apiKeys : apiKeys' = apiKeys \ {k}
  /\ UNCHANGED <<now, policies, policyLog, aiLog, usedIds, toggling, req,
                 received>>

\* toggleActive() and toggle(): read isActive ...
BeginToggle(a) ==
  /\ Free(a)
  /\ \/ \E p \in policies : toggling' = [toggling EXCEPT ![a] =
          [table |-> "policies", id |-> p.id, seen |-> p.isActive]]
     \/ \E k \in apiKeys : toggling' = [toggling EXCEPT ![a] =
          [table |-> "api_keys", id |-> k.id, seen |-> k.isActive]]
  /\ UNCHANGED <<now, tables, req, received>>

\* ... and write its opposite, to the row if it is still there.
Toggled(table, t) ==
  {IF row.id = t.id THEN [row EXCEPT !.isActive = ~t.seen] ELSE row :
     row \in table}

EndToggle(a) ==
  /\ \/ /\ toggling[a].table = "policies"
        /\ policies' = Toggled(policies, toggling[a])
        /\ UNCHANGED apiKeys
     \/ /\ toggling[a].table = "api_keys"
        /\ apiKeys' = Toggled(apiKeys, toggling[a])
        /\ UNCHANGED policies
  /\ toggling' = [toggling EXCEPT ![a] = NoToggle]
  /\ UNCHANGED <<now, policyLog, aiLog, usedIds, req, received>>

-----------------------------------------------------------------------------
(* The specification *)

Tick ==
  /\ now < MaxTime
  /\ now' = now + 1
  /\ UNCHANGED <<tables, toggling, req, received>>

Handle(r) ==
  \/ EvaluatePolicy(r) \/ EvaluateTokenQuota(r) \/ LogPolicyDecision(r)
  \/ LogDenied(r) \/ FindKey(r) \/ TouchKey(r) \/ Forward(r)
  \/ LogSuccess(r) \/ LogFailed(r)

Respond(r) == ProviderAnswers(r) \/ ProviderFails(r)

Administer(a) ==
  \/ CreatePolicy(a) \/ UpdatePolicy(a) \/ RemovePolicy(a)
  \/ CreateKey(a) \/ RotateKey(a) \/ RemoveKey(a)
  \/ BeginToggle(a) \/ EndToggle(a)

Next ==
  \/ \E r \in Requests :
       LoadPolicies(r) \/ Handle(r) \/ Respond(r) \/ DatabaseFails(r)
  \/ \E a \in Admins : Administer(a)
  \/ Crash
  \/ Tick

Spec == Init /\ [][Next]_vars

\* A handler that can go on does, and a provider answers or fails: the code
\* sets no timeout of its own on the call.
FairSpec ==
  /\ Spec
  /\ \A r \in Requests : WF_vars(Handle(r)) /\ WF_vars(Respond(r))

-----------------------------------------------------------------------------
(* Safety *)

Received(r) == \E c \in received : c.request = r
RowsOf(r) == {row \in aiLog : row.request = r}

\* Policy-first: a prompt that reached a provider was let through by the
\* policies loaded for it.  If one of them blocks this content, then the one
\* that decided is an allowing match that comes no later in priority order.
\* (evaluate() stops at the first match, chat() forwards only if allowed.)
PolicyFirst ==
  \A r \in Requests : Received(r) =>
    /\ Allowing(req[r].decision)
    /\ \A p \in req[r].snapshot :
         ContentMatch(p, req[r].input) /\ ~Allowing(Decision(p.action)) =>
           /\ req[r].policy \in req[r].snapshot
           /\ req[r].policy.priority >= p.priority
           /\ Allowing(Decision(req[r].policy.action))

\* A refusal is due to the policy it names: one the handler loaded, whose
\* action blocks, and that no policy of higher priority pre-empted by a
\* content match (first match in priority order, rows of ai_logs).
RefusalNamesFirstMatch ==
  \A row \in aiLog : row.status = "DENIED" =>
    LET h == req[row.request] IN
    /\ ~Allowing(row.decision)
    /\ \E p \in h.snapshot :
         /\ p.id = row.policy
         /\ Decision(p.action) = row.decision
         /\ \A q \in h.snapshot :
              q.priority > p.priority => ~ContentMatch(q, h.input)

\* A caller's answer and the audit table agree: a finished chat has exactly
\* the row its answer announces, a request in flight or one that ended before
\* the provider was asked has none, and a refused prompt was never received
\* by a provider.  A lost answer leaves the row in doubt, never two of them.
AnswerMatchesAudit ==
  \A r \in Requests :
    LET status == {row.status : row \in RowsOf(r)} IN
    CASE req[r].reply = "ok"            -> status = {"SUCCESS"} /\ Received(r)
      [] req[r].reply = "providerError" -> status = {"FAILED"}
      [] req[r].reply = "forbidden"     -> status = {"DENIED"} /\ ~Received(r)
      [] req[r].reply = "lost"          -> Cardinality(RowsOf(r)) <= 1
      [] OTHER                          -> RowsOf(r) = {}

\* The two audit tables never contradict each other: the decision and, for a
\* refusal, the policy written to ai_logs are those in policy_logs, and a chat
\* for which a blocking decision was logged is never received by a provider.
AuditTablesAgree ==
  \A l \in policyLog :
    /\ \A row \in RowsOf(l.request) :
         /\ row.decision = l.decision
         /\ row.status = "DENIED" => row.policy = l.policy
    /\ Received(l.request) => Allowing(l.decision)

\* What an auditor reads of the decisions: the two tables agree, and a refusal
\* names the policy that decided.
AuditIsTrue == AuditTablesAgree /\ RefusalNamesFirstMatch

\* Rate limits are checked before the row they count is written, so requests
\* in flight may pass together; the excess is bounded by the others in flight.
RateOvershootBounded ==
  \A r \in Requests : \A p \in req[r].passed :
    HasWindow(p) =>
      Cardinality({row \in RateRows(p.rules, req[r].input, aiLog, now) :
                     p \in req[row.request].passed})
        <= p.rules.maxRequests - 1 + MaxInFlight

\* The same for the completions and for the tokens of a usage quota: a period
\* may exceed it by what the requests in flight with the last one cost.
QuotaOvershootBounded ==
  \A r \in Requests : \A p \in req[r].passed :
    HasPeriod(p) =>
      LET rows == {row \in QuotaRows(p.rules, req[r].input, aiLog, now) :
                     p \in req[row.request].passed}
      IN /\ p.rules.maxRequests # 0 =>
              Cardinality(rows) <= p.rules.maxRequests - 1 + MaxInFlight
         /\ p.rules.maxTokens # 0 =>
              TokenSum(rows) <= p.rules.maxTokens - 1 + MaxInFlight * MaxTokens

\* A credential goes out only for a request of the tenant and the provider it
\* was stored for, and, while its row lives, the row shows that it was used.
KeyUseIsRecorded ==
  \A c \in received : c.secret # NoKey =>
    LET h == req[c.request] IN
    /\ h.key.secret = c.secret
    /\ h.key.tenant = h.input.tenant
    /\ h.key.provider = ProviderOf(h.input)
    /\ \A k \in apiKeys : k.id = h.key.id => k.lastUsedAt # NeverUsed

\* One row per tenant and provider, and ids are unique, whatever toggles,
\* rotations and use timestamps overlap (ApiKey @@unique, read-then-write).
KeysUnique ==
  \A k, l \in apiKeys :
    k.id = l.id \/ (k.tenant = l.tenant /\ k.provider = l.provider) => k = l

-----------------------------------------------------------------------------
(* Action properties *)

\* The audit trail survives administration: no step changes or removes a row
\* of ai_logs, and one of policy_logs goes only with its policy.
AuditIsKept ==
  [][/\ aiLog \subseteq aiLog'
     /\ \A l \in policyLog \ policyLog' :
          HasRow(policies, l.policy) /\ ~HasRow(policies, l.policy)']_vars

\* What is deleted stays deleted, whichever half-done toggle, timestamp or
\* update is still to be written: an id once used never comes back.
DeletedStaysDeleted ==
  [][\A id \in usedIds :
       /\ ~HasRow(policies, id) => ~HasRow(policies, id)'
       /\ ~HasRow(apiKeys, id) => ~HasRow(apiKeys, id)']_vars

-----------------------------------------------------------------------------
(* Liveness *)

\* Every request that is received is answered, or lost with the process.
EveryRequestEnds ==
  \A r \in Requests : req[r].stage # "idle" ~> req[r].stage = "done"

-----------------------------------------------------------------------------
(* The inductive invariant behind the proofs: what each handler knows.      *)

Undecided == {"idle", "evaluating", "readTokens"}
Admitted == {"findKey", "touchKey", "forward", "calling", "logSuccess",
             "logFailed"}

\* The policies visited did not match, and they were visited in order: the one
\* at hand has the highest priority of those left.
OrderInv(h) ==
  /\ h.passed \subseteq h.snapshot
  /\ \A p \in h.passed : ~ContentMatch(p, h.input)
  /\ h.stage = "readTokens" => /\ h.policy \in NextInOrder(h)
                               /\ ~ContentMatch(h.policy, h.input)

\* A decision is that of the policy at hand, or there is none left.
DecisionInv(h) ==
  h.decision # "none" =>
    \/ /\ h.policy = NoPolicy
       /\ h.decision = "ALLOWED"
       /\ h.passed = h.snapshot
    \/ /\ h.policy \in NextInOrder(h)
       /\ h.decision = Decision(h.policy.action)

\* Where the handler is tells what it has decided.
StageInv(h) ==
  /\ h.stage \in Undecided => h.decision = "none"
  /\ h.stage # "idle" => h.input \in Inputs
  /\ h.stage = "logDecision" => h.decision # "none" /\ h.policy # NoPolicy
  /\ h.stage = "logDenied" => h.decision # "none" /\ ~Allowing(h.decision)
  /\ h.stage \in Admitted => Allowing(h.decision)
  /\ h.stage = "touchKey" => h.key # NoKey

ReceivedInv ==
  \A r \in Requests : Received(r) =>
    /\ req[r].stage \in {"calling", "logSuccess", "logFailed", "done"}
    /\ Allowing(req[r].decision)

HandlerInv ==
  \A r \in Requests :
    OrderInv(req[r]) /\ DecisionInv(req[r]) /\ StageInv(req[r])

IInv == TypeOK /\ HandlerInv /\ ReceivedInv

-----------------------------------------------------------------------------
(* What the documents say, and the code does not do: each is refuted by a   *)
(* run.                                                                     *)

\* docs/API_GUIDE.md:162, "ALLOW - Explicitly allow": a policy whose action is
\* ALLOW lets what it matches through.  (buildResult has no case for ALLOW.)
AllowPolicyAllows ==
  \A r \in Requests :
    req[r].policy # NoPolicy /\ req[r].decision # "none" =>
      (req[r].policy.action = "ALLOW" => Allowing(req[r].decision))


\* Both limits, whatever the chats in flight.
OvershootBounded == RateOvershootBounded /\ QuotaOvershootBounded
=============================================================================
