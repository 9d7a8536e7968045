----------------------------- MODULE MCAiGateway -----------------------------
(***************************************************************************)
(* Instances of AiGateway for TLC.  Each group of definitions gives the    *)
(* structured constants of one configuration.                              *)
(***************************************************************************)
EXTENDS GovernedGateway, TLC

CONSTANTS t1, t2, u1, u2, p1, p2, k1, k2, s1, s2

\* Requests are interchangeable: no definition names one.
RequestSymmetry == Permutations(Requests)
\* So are administrator sessions.
AdminSymmetry == Permutations(Admins)

\* "Bad" is the keyword "bad" as some prompts write it.
MCTexts == {"bad", "Bad", "gpt-4o", "claude-3", "mock-model"}
MCFold == [t \in MCTexts |-> IF t = "Bad" THEN "bad" ELSE t]
MCModelFamily ==
  [t \in MCTexts |-> CASE t = "gpt-4o" -> "gpt-" [] t = "claude-3" -> "claude-"
                       [] OTHER -> "other"]
MCPeriodLength == [period \in {"daily", "weekly", "monthly"} |->
                     CASE period = "daily" -> 2 [] period = "weekly" -> 4
                       [] OTHER -> 8]

MCInput(endpoint, tenant, user, prompt, model, provider) ==
  [endpoint |-> endpoint, tenant |-> tenant, user |-> user, prompt |-> prompt,
   length |-> Cardinality(prompt), model |-> model, provider |-> provider]
MCPolicy(id, tenant, f) ==
  [id |-> id, tenant |-> tenant, type |-> f.type, action |-> f.action,
   priority |-> f.priority, isActive |-> f.isActive, rules |-> f.rules]
MCForm(type, action, priority, rules) ==
  [type |-> type, action |-> action, priority |-> priority,
   isActive |-> TRUE, rules |-> rules]
MCKey(id, tenant, provider, secret) ==
  [id |-> id, tenant |-> tenant, provider |-> provider, secret |-> secret,
   isActive |-> TRUE, lastUsedAt |-> NeverUsed]

Keyword(w) == [NoRules EXCEPT !.keywords = {w}]

-----------------------------------------------------------------------------
\* Policies changed while prompts are evaluated.
RaceForms ==
  {MCForm("KEYWORD_BLOCK", "DENY", 1, Keyword("bad")),
   MCForm("MODEL_RESTRICT", "FLAG", 2,
          [NoRules EXCEPT !.allowedModels = {"gpt-4o"}])}
\* A PATCH of everything, or of the priority alone.
RacePatches ==
  {{"type", "action", "priority", "isActive", "rules"}, {"priority"}}
RacePolicies ==
  {MCPolicy(p1, t1, MCForm("TOPIC_RESTRICT", "LOG", 0,
                           [NoRules EXCEPT !.blockedTopics = {"bad"}]))}
RaceInputs ==
  {MCInput("chat", t1, u1, {"bad"}, "gpt-4o", "mock"),
   MCInput("chat", t1, u1, {"Bad"}, "mock-model", NoProvider),
   MCInput("evaluate", t1, u1, {"Bad"}, NoText, NoProvider)}

-----------------------------------------------------------------------------
\* A rate limit and a usage quota under concurrent requests.
LimitPolicies ==
  {MCPolicy(p1, t1, MCForm("RATE_LIMIT", "RATE_LIMIT", 2,
                           [NoRules EXCEPT !.maxRequests = 1,
                                           !.windowSeconds = 1])),
   MCPolicy(p2, t1, MCForm("USAGE_QUOTA", "DENY", 1,
                           [NoRules EXCEPT !.maxRequests = 1, !.maxTokens = 1,
                                           !.period = "daily"]))}
LimitInputs ==
  {MCInput("chat", t1, u, {}, "mock-model", NoProvider) : u \in {u1, u2}}

-----------------------------------------------------------------------------
\* Every path of a request at once: a blocking keyword, an allowing usage
\* quota that an administrator may add, a key that may be missing, known and
\* unknown providers.
PathPolicies ==
  {MCPolicy(p1, t1, MCForm("KEYWORD_BLOCK", "DENY", 2, Keyword("bad")))}
PathForms ==
  {MCForm("USAGE_QUOTA", "FLAG", 1,
          [NoRules EXCEPT !.maxRequests = 1, !.maxTokens = 1, !.period = "daily"])}
PathInputs ==
  {MCInput("chat", t1, u1, {"bad"}, "mock-model", NoProvider),
   MCInput("chat", t1, u1, {"bad"}, "gpt-4o", NoProvider),
   MCInput("chat", t1, u1, {}, "gpt-4o", NoProvider),
   MCInput("chat", t1, u1, {}, "claude-3", NoProvider),
   MCInput("chat", t1, u1, {}, "gpt-4o", "unheard-of"),
   MCInput("evaluate", t1, u1, {"bad"}, NoText, NoProvider)}

-----------------------------------------------------------------------------
\* What the documentation says of an administrator's setting.
AllowPolicies ==
  {MCPolicy(p1, t1, MCForm("KEYWORD_BLOCK", "ALLOW", 1, Keyword("bad")))}
DocumentInputs ==
  {MCInput("chat", t1, u1, {"bad"}, "mock-model", NoProvider)}

-----------------------------------------------------------------------------
\* API keys changed while requests look them up.
KeyInputs ==
  {MCInput("chat", t1, u1, {}, "gpt-4o", NoProvider),
   MCInput("chat", t1, u1, {}, "gpt-4o", "anthropic"),
   MCInput("chat", t2, u1, {}, "gpt-4o", NoProvider),
   MCInput("chat", t1, u1, {}, "gpt-4o", "unheard-of")}
TogglePolicies ==
  {MCPolicy(p1, t1, MCForm("KEYWORD_BLOCK", "DENY", 1, Keyword("bad")))}
InitialKeyRows == {MCKey(k1, t1, "openai", s1)}

=============================================================================
