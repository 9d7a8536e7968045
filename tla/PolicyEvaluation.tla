-------------------------- MODULE PolicyEvaluation --------------------------
(***************************************************************************)
(* What one policy row says of one prompt: the matching rules of the seven *)
(* policy types and the decision a matching policy leads to                *)
(* (modules/policies/policy-evaluation.service.ts).  The loop that visits  *)
(* the policies of a tenant, with its database reads, is in AiGateway.     *)
(*                                                                         *)
(* The prompt is the last user message of a chat, the only one the service *)
(* evaluates.  It is abstracted to the set of texts it contains and its    *)
(* length; a keyword, a topic, a pattern and a model name are texts.  Fold maps a  *)
(* text to its lower-case form.  A pattern that does not compile is skipped *)
(* by the service: it is a text no prompt contains.                        *)
(***************************************************************************)
EXTENDS Integers, FiniteSets

CONSTANTS
  Tenants,        \* tenants of the platform
  Users,          \* users that send prompts
  Texts,          \* words, topics, patterns and model names
  NoText,         \* the model of a request that names none
  Fold,           \* Fold[t] is the lower-case form of text t
  PolicyIds,      \* primary keys of the table policies
  NoPolicy,       \* no policy
  Priorities,     \* priorities an administrator may give
  PeriodLength    \* length of each calendar period, in clock units

ASSUME FoldAssumption ==
  /\ Fold \in [Texts -> Texts]
  /\ \A t \in Texts : Fold[Fold[t]] = Fold[t]

ASSUME PolicyConstantsAssumption ==
  /\ NoText \notin Texts
  /\ NoPolicy \notin PolicyIds
  /\ Priorities \subseteq Nat
  /\ PeriodLength \in [{"daily", "weekly", "monthly"} -> Nat \ {0}]

PolicyTypes == {"KEYWORD_BLOCK", "MODEL_RESTRICT", "TOPIC_RESTRICT",
                "SENSITIVE_DATA", "RATE_LIMIT", "USAGE_QUOTA", "CUSTOM"}
PolicyActions == {"ALLOW", "DENY", "FLAG", "LOG", "RATE_LIMIT"}
Decisions == {"ALLOWED", "DENIED", "FLAGGED", "LOGGED", "RATE_LIMITED"}

(***************************************************************************)
(* The JSON column "rules".  The service treats a missing list like an     *)
(* empty one and a missing number like zero, so one record type with those *)
(* defaults stands for every rule object.                                  *)
(***************************************************************************)
NoRules == [keywords |-> {}, allowedModels |-> {}, blockedTopics |-> {},
            patterns |-> {}, caseSensitive |-> FALSE, maxRequests |-> 0,
            windowSeconds |-> 0, scope |-> "user", maxTokens |-> 0,
            period |-> "none", maxPromptLength |-> 0]

Rules == [keywords : SUBSET Texts, allowedModels : SUBSET Texts,
          blockedTopics : SUBSET Texts, patterns : SUBSET Texts,
          caseSensitive : BOOLEAN, maxRequests : Nat, windowSeconds : Nat,
          scope : {"user", "tenant"}, maxTokens : Nat,
          period : DOMAIN PeriodLength \cup {"none"}, maxPromptLength : Nat]

PolicyRow == [id : PolicyIds, tenant : Tenants, type : PolicyTypes,
              action : PolicyActions, priority : Priorities,
              isActive : BOOLEAN, rules : Rules]

(***************************************************************************)
(* Content policies look at the prompt and the model only.                 *)
(***************************************************************************)
Folded(texts) == {Fold[t] : t \in texts}

ContainsOneOf(texts, caseSensitive, context) ==
  IF caseSensitive
    THEN texts \cap context.prompt # {}
    ELSE Folded(texts) \cap Folded(context.prompt) # {}

OutsideAllowedModels(rules, context) ==
  /\ context.model # NoText
  /\ rules.allowedModels # {}
  /\ Fold[context.model] \notin Folded(rules.allowedModels)

TooLong(rules, context) ==
  /\ rules.maxPromptLength # 0
  /\ context.length > rules.maxPromptLength

ContentMatch(policy, context) ==
  LET rules == policy.rules IN
  \/ /\ policy.type = "KEYWORD_BLOCK"
     /\ ContainsOneOf(rules.keywords, rules.caseSensitive, context)
  \/ /\ policy.type = "TOPIC_RESTRICT"
     /\ ContainsOneOf(rules.blockedTopics, rules.caseSensitive, context)
  \/ /\ policy.type = "SENSITIVE_DATA"
     /\ ContainsOneOf(rules.patterns, FALSE, context)
  \/ /\ policy.type = "MODEL_RESTRICT"
     /\ OutsideAllowedModels(rules, context)
  \/ /\ policy.type = "CUSTOM"
     /\ TooLong(rules, context)

(***************************************************************************)
(* Usage policies count rows of the table ai_logs.                         *)
(***************************************************************************)
RateRows(rules, context, rows, time) ==
  {row \in rows : /\ row.tenant = context.tenant
                  /\ row.time >= time - rules.windowSeconds
                  /\ rules.scope = "user" => row.user = context.user}

HasWindow(policy) ==
  /\ policy.type = "RATE_LIMIT"
  /\ policy.rules.maxRequests # 0
  /\ policy.rules.windowSeconds # 0

\* Variant: the limit is exceeded only above maxRequests.
RateLimitMatchAbove(policy, context, rows, time) ==
  /\ HasWindow(policy)
  /\ Cardinality(RateRows(policy.rules, context, rows, time))
       > policy.rules.maxRequests

RateLimitMatch(policy, context, rows, time) ==
  /\ HasWindow(policy)
  /\ Cardinality(RateRows(policy.rules, context, rows, time))
       >= policy.rules.maxRequests

PeriodStart(period, time) == time - (time % PeriodLength[period])

QuotaRows(rules, context, rows, time) ==
  {row \in rows : /\ row.tenant = context.tenant
                  /\ row.time >= PeriodStart(rules.period, time)
                  /\ row.status = "SUCCESS"}

\* totalTokens, added up over the rows: the tokens of each, counted together.
TokensOf(rows) == UNION {{row} \X (1..row.tokens) : row \in rows}
TokenSum(rows) == Cardinality(TokensOf(rows))

HasPeriod(policy) ==
  /\ policy.type = "USAGE_QUOTA"
  /\ policy.rules.period \in DOMAIN PeriodLength

\* Variant: the quota is exceeded only above maxRequests.
RequestQuotaMatchAbove(policy, context, rows, time) ==
  /\ HasPeriod(policy)
  /\ policy.rules.maxRequests # 0
  /\ Cardinality(QuotaRows(policy.rules, context, rows, time))
       > policy.rules.maxRequests

RequestQuotaMatch(policy, context, rows, time) ==
  /\ HasPeriod(policy)
  /\ policy.rules.maxRequests # 0
  /\ Cardinality(QuotaRows(policy.rules, context, rows, time))
       >= policy.rules.maxRequests

TokenQuotaMatch(policy, context, rows, time) ==
  /\ HasPeriod(policy)
  /\ policy.rules.maxTokens # 0
  /\ TokenSum(QuotaRows(policy.rules, context, rows, time))
       >= policy.rules.maxTokens

(***************************************************************************)
(* The decision a matching policy leads to.                                *)
(***************************************************************************)
\* Variant: the action itself is stored as the decision.
ActionAsDecision(action) == action

Decision(action) ==
  CASE action = "FLAG"       -> "FLAGGED"
    [] action = "LOG"        -> "LOGGED"
    [] action = "RATE_LIMIT" -> "RATE_LIMITED"
    [] OTHER                 -> "DENIED"

Allowing(decision) == decision \in {"ALLOWED", "FLAGGED", "LOGGED"}

=============================================================================
