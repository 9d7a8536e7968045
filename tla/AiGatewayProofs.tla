-------------------------- MODULE AiGatewayProofs --------------------------
(***************************************************************************)
(* Type correctness of AiGateway, its policy-first property, what holds of *)
(* its tables whoever writes them, and what the rows of the keys show of   *)
(* their use, for every value of the constants.                            *)
(***************************************************************************)
EXTENDS AiGateway, FiniteSetTheorems, TLAPS

-----------------------------------------------------------------------------
(* One handler at a time *)

GoodHandler(h) ==
  h \in Handler /\ OrderInv(h) /\ DecisionInv(h) /\ StageInv(h)

\* Where evaluate() leaves a handler is one of its stages.
LEMMA StageAfterType ==
  ASSUME NEW in, NEW d
  PROVE  /\ StageAfter(in, d) \in {"done", "logDenied"} \cup Admitted
         /\ StageAfter(in, d) = "logDenied" => ~Allowing(d)
         /\ StageAfter(in, d) \in {"forward", "findKey"} => Allowing(d)
         /\ StageAfter(in, d) \in {"done", "logDenied", "forward", "findKey"}
         /\ ReplyAfter(in, d) \in Replies
  BY DEF StageAfter, ReplyAfter, Admitted, Replies

\* A decision made in first-match order leaves a good handler.
LEMMA DecidedIsGood ==
  ASSUME NEW h \in Handler, NEW d \in Decisions,
         NEW p \in PolicyRow \cup {NoPolicy},
         h.input \in Inputs, OrderInv(h),
         \/ p = NoPolicy /\ d = "ALLOWED" /\ h.passed = h.snapshot
         \/ p \in NextInOrder(h) /\ d = Decision(p.action) /\ p # NoPolicy
  PROVE  GoodHandler(Decided(h, d, p))
<1> DEFINE g == Decided(h, d, p)
<1>1. /\ g \in Handler
      /\ g.decision = d /\ g.policy = p /\ g.input = h.input
      /\ g.stage = StageAfter(h.input, d)
      /\ g.passed = h.passed /\ g.snapshot = h.snapshot
  BY StageAfterType DEF Decided, Handler, Stages, Admitted
<1>2. OrderInv(g)
  BY <1>1, StageAfterType DEF OrderInv
<1>3. DecisionInv(g)
  BY <1>1 DEF DecisionInv, NextInOrder
<1>4. StageInv(g)
  BY <1>1, StageAfterType DEF StageInv, Undecided, Admitted, Decisions
<1> QED
  BY <1>1, <1>2, <1>3, <1>4 DEF GoodHandler

ReceivedStages == {"calling", "logSuccess", "logFailed", "done"}

\* Replacing one handler by a good one keeps what is said of all of them.
LEMMA OneHandlerChanges ==
  ASSUME IInv, NEW r \in Requests, NEW h, GoodHandler(h),
         req' = [req EXCEPT ![r] = h],
         \A q \in Requests \ {r} : Received(q)' => Received(q),
         Received(r)' => h.stage \in ReceivedStages /\ Allowing(h.decision)
  PROVE  /\ req' \in [Requests -> Handler]
         /\ HandlerInv'
         /\ ReceivedInv'
<1>1. req' \in [Requests -> Handler]
  BY DEF IInv, TypeOK, GoodHandler
<1>2. ASSUME NEW q \in Requests
      PROVE  req'[q] = IF q = r THEN h ELSE req[q]
  BY DEF IInv, TypeOK
<1>3. HandlerInv'
  BY <1>2 DEF HandlerInv, IInv, GoodHandler, OrderInv, DecisionInv, StageInv,
              NextInOrder
<1>4. ReceivedInv'
  BY <1>2 DEF ReceivedInv, IInv, ReceivedStages
<1> QED
  BY <1>1, <1>3, <1>4

\* A handler that only moves on, with the same decision, stays good.
LEMMA MovingOnIsGood ==
  ASSUME NEW h, GoodHandler(h), NEW g \in Handler,
         h.stage # "idle",
         g.input = h.input, g.decision = h.decision, g.policy = h.policy,
         g.passed = h.passed, g.snapshot = h.snapshot,
         g.stage \in Admitted => Allowing(h.decision),
         g.stage \notin Undecided \cup {"logDecision", "logDenied"},
         g.stage = "touchKey" => g.key # NoKey
  PROVE  GoodHandler(g)
  BY DEF GoodHandler, OrderInv, DecisionInv, StageInv, NextInOrder, Undecided

-----------------------------------------------------------------------------
(* The steps of evaluate() *)

\* A step that changes one handler and no table keeps the invariant.
LEMMA HandlerStep ==
  ASSUME IInv, NEW r \in Requests, NEW h, GoodHandler(h),
         req' = [req EXCEPT ![r] = h],
         UNCHANGED <<now, tables, toggling, received>>,
         Received(r) => h.stage \in ReceivedStages /\ Allowing(h.decision)
  PROVE  IInv'
<1>1. \A q \in Requests : Received(q)' => Received(q)
  BY DEF Received
<1>2. req' \in [Requests -> Handler] /\ HandlerInv' /\ ReceivedInv'
  BY <1>1, OneHandlerChanges
<1> QED
  BY <1>2 DEF IInv, TypeOK, tables

\* What the invariant says of a handler that has not decided yet.
LEMMA UndecidedHandler ==
  ASSUME IInv, NEW r \in Requests,
         req[r].stage \in {"evaluating", "readTokens"}
  PROVE  /\ GoodHandler(req[r])
         /\ req[r].input \in Inputs
         /\ req[r].decision = "none"
         /\ ~Received(r)
  BY DEF IInv, TypeOK, HandlerInv, ReceivedInv, GoodHandler, StageInv,
         Undecided

LEMMA DecisionType ==
  ASSUME NEW a PROVE Decision(a) \in Decisions
  BY DEF Decision, Decisions

\* Matching the next policy in order.
LEMMA MatchStep ==
  ASSUME IInv, NEW r \in Requests,
         req[r].stage \in {"evaluating", "readTokens"},
         NEW p \in NextInOrder(req[r]), Match(r, p),
         UNCHANGED <<now, tables, toggling, received>>
  PROVE  IInv'
<1> DEFINE h == [req[r] EXCEPT !.policy = p, !.decision = Decision(p.action),
                               !.stage = "logDecision"]
<1>1. req' = [req EXCEPT ![r] = h]
  BY DEF Match
<1>2. GoodHandler(req[r]) /\ req[r].input \in Inputs /\ ~Received(r)
  BY UndecidedHandler
<1>3. p \in req[r].snapshot /\ p \in PolicyRow /\ p # NoPolicy
  BY <1>2, GatewayConstantsAssumption DEF GoodHandler, Handler, NextInOrder
<1>4. /\ h \in Handler
      /\ h.policy = p /\ h.decision = Decision(p.action)
      /\ h.stage = "logDecision" /\ h.input = req[r].input
      /\ h.passed = req[r].passed /\ h.snapshot = req[r].snapshot
  BY <1>2, <1>3, DecisionType DEF GoodHandler, Handler, Stages
<1>5. OrderInv(h)
  BY <1>2, <1>4 DEF GoodHandler, OrderInv
<1>6. DecisionInv(h)
  BY <1>4 DEF DecisionInv, NextInOrder
<1>7. StageInv(h)
  BY <1>2, <1>3, <1>4, DecisionType
  DEF StageInv, Undecided, Admitted, Decisions
<1>8. GoodHandler(h)
  BY <1>4, <1>5, <1>6, <1>7 DEF GoodHandler
<1> HIDE DEF h
<1> QED
  BY <1>1, <1>2, <1>8, HandlerStep

\* Passing the next policy in order, which does not match the content.
LEMMA PassStep ==
  ASSUME IInv, NEW r \in Requests,
         req[r].stage \in {"evaluating", "readTokens"},
         NEW p \in NextInOrder(req[r]), ~ContentMatch(p, req[r].input),
         Pass(r, p),
         UNCHANGED <<now, tables, toggling, received>>
  PROVE  IInv'
<1> DEFINE visited == [req[r] EXCEPT !.passed = @ \cup {p},
                                     !.stage = "evaluating"]
           h == IF visited.passed = visited.snapshot
                  THEN Decided(visited, "ALLOWED", NoPolicy) ELSE visited
<1>1. req' = [req EXCEPT ![r] = h]
  BY DEF Pass
<1>2. /\ GoodHandler(req[r]) /\ req[r].input \in Inputs /\ ~Received(r)
      /\ req[r].decision = "none"
  BY UndecidedHandler
<1>3. p \in req[r].snapshot /\ p \in PolicyRow
  BY <1>2 DEF GoodHandler, Handler, NextInOrder
<1>4. /\ visited \in Handler
      /\ visited.stage = "evaluating" /\ visited.input = req[r].input
      /\ visited.passed = req[r].passed \cup {p}
      /\ visited.snapshot = req[r].snapshot /\ visited.decision = "none"
  BY <1>2, <1>3 DEF GoodHandler, Handler, Stages
<1>5. OrderInv(visited)
  BY <1>2, <1>3, <1>4 DEF GoodHandler, OrderInv
<1>6. GoodHandler(visited)
  BY <1>2, <1>4, <1>5
  DEF GoodHandler, DecisionInv, StageInv, Undecided, Admitted
<1> HIDE DEF visited
<1>7. GoodHandler(h)
  <2>1. CASE visited.passed = visited.snapshot
    BY <2>1, <1>2, <1>4, <1>5, DecidedIsGood DEF Decisions
  <2>2. CASE visited.passed # visited.snapshot
    BY <2>2, <1>6
  <2> QED
    BY <2>1, <2>2
<1> HIDE DEF h
<1> QED
  BY <1>1, <1>2, <1>7, HandlerStep

LEMMA EvaluatePolicyStep ==
  ASSUME IInv, NEW r \in Requests, EvaluatePolicy(r)
  PROVE  IInv'
<1>1. /\ req[r].stage = "evaluating"
      /\ UNCHANGED <<now, tables, toggling, received>>
  BY DEF EvaluatePolicy
<1>2. PICK p \in NextInOrder(req[r]) :
       \/ FirstReadMatch(p, req[r].input) /\ Match(r, p)
       \/ /\ ~FirstReadMatch(p, req[r].input)
          /\ req' = [req EXCEPT ![r].stage = "readTokens", ![r].policy = p]
       \/ ~FirstReadMatch(p, req[r].input) /\ Pass(r, p)
  BY DEF EvaluatePolicy
<1>3. CASE Match(r, p)
  BY <1>1, <1>3, MatchStep
<1>4. ~FirstReadMatch(p, req[r].input) => ~ContentMatch(p, req[r].input)
  BY DEF FirstReadMatch
<1>5. CASE ~FirstReadMatch(p, req[r].input) /\ Pass(r, p)
  BY <1>1, <1>4, <1>5, PassStep
<1>6. CASE /\ ~FirstReadMatch(p, req[r].input)
           /\ req' = [req EXCEPT ![r].stage = "readTokens", ![r].policy = p]
  <2> DEFINE h == [req[r] EXCEPT !.stage = "readTokens", !.policy = p]
  <2>1. req' = [req EXCEPT ![r] = h]
    BY <1>6
  <2>2. /\ GoodHandler(req[r]) /\ req[r].input \in Inputs /\ ~Received(r)
        /\ req[r].decision = "none"
    BY <1>1, UndecidedHandler
  <2>3. p \in PolicyRow
    BY <2>2 DEF GoodHandler, Handler, NextInOrder
  <2>4. /\ h \in Handler
        /\ h.stage = "readTokens" /\ h.policy = p /\ h.decision = "none"
        /\ h.input = req[r].input
        /\ h.passed = req[r].passed /\ h.snapshot = req[r].snapshot
    BY <2>2, <2>3 DEF GoodHandler, Handler, Stages
  <2>5. GoodHandler(h)
    BY <1>4, <1>6, <2>2, <2>4
    DEF GoodHandler, OrderInv, DecisionInv, StageInv, NextInOrder, Undecided,
        Admitted
  <2> HIDE DEF h
  <2> QED
    BY <1>1, <2>1, <2>2, <2>5, HandlerStep
<1> QED
  BY <1>2, <1>3, <1>5, <1>6

LEMMA EvaluateTokenQuotaStep ==
  ASSUME IInv, NEW r \in Requests, EvaluateTokenQuota(r)
  PROVE  IInv'
<1>1. /\ req[r].stage = "readTokens"
      /\ UNCHANGED <<now, tables, toggling, received>>
      /\ Match(r, req[r].policy) \/ Pass(r, req[r].policy)
  BY DEF EvaluateTokenQuota
<1>2. /\ req[r].policy \in NextInOrder(req[r])
      /\ ~ContentMatch(req[r].policy, req[r].input)
  BY <1>1 DEF IInv, HandlerInv, OrderInv
<1> QED
  BY <1>1, <1>2, MatchStep, PassStep

LEMMA LoadPoliciesStep ==
  ASSUME IInv, NEW r \in Requests, LoadPolicies(r)
  PROVE  IInv'
<1>1. /\ req[r].stage = "idle"
      /\ UNCHANGED <<now, tables, toggling, received>>
  BY DEF LoadPolicies
<1>2. PICK in \in Inputs :
       LET active == {p \in policies : p.tenant = in.tenant /\ p.isActive}
           loaded == [Idle EXCEPT !.input = in, !.snapshot = active,
                                  !.stage = "evaluating"]
       IN req' = [req EXCEPT ![r] =
                    IF active = {} THEN Decided(loaded, "ALLOWED", NoPolicy)
                                   ELSE loaded]
  BY DEF LoadPolicies
<1> DEFINE active == {p \in policies : p.tenant = in.tenant /\ p.isActive}
           loaded == [Idle EXCEPT !.input = in, !.snapshot = active,
                                  !.stage = "evaluating"]
           h == IF active = {} THEN Decided(loaded, "ALLOWED", NoPolicy)
                               ELSE loaded
<1>3. req' = [req EXCEPT ![r] = h]
  BY <1>2
<1>4. active \subseteq PolicyRow
  BY DEF IInv, TypeOK
<1>5. ~Received(r)
  BY <1>1 DEF IInv, ReceivedInv
<1> HIDE DEF active
<1>6. /\ loaded \in Handler
      /\ loaded.stage = "evaluating" /\ loaded.input = in
      /\ loaded.passed = {} /\ loaded.snapshot = active
      /\ loaded.decision = "none"
  BY <1>4 DEF Idle, Handler, Stages, Replies
<1> HIDE DEF loaded
<1>7. GoodHandler(loaded)
  BY <1>6
  DEF GoodHandler, OrderInv, DecisionInv, StageInv, Undecided, Admitted
<1>8. GoodHandler(h)
  BY <1>6, <1>7, DecidedIsGood DEF GoodHandler, Decisions
<1> HIDE DEF h
<1> QED
  BY <1>1, <1>3, <1>5, <1>8, HandlerStep

\* The decision was made before it is logged: the handler only moves on.
LEMMA LogPolicyDecisionStep ==
  ASSUME IInv, NEW r \in Requests, LogPolicyDecision(r)
  PROVE  IInv'
<1> DEFINE h == req[r]
           g == Decided(h, h.decision, h.policy)
<1>1. /\ h.stage = "logDecision"
      /\ req' = [req EXCEPT ![r] = g]
      /\ UNCHANGED <<now, policies, aiLog, apiKeys, usedIds, toggling,
                     received>>
  BY DEF LogPolicyDecision
<1>2. /\ GoodHandler(h) /\ h.input \in Inputs /\ ~Received(r)
      /\ h.decision \in Decisions /\ h.policy \in PolicyRow
      /\ h.policy # NoPolicy
  BY <1>1 DEF IInv, TypeOK, HandlerInv, ReceivedInv, GoodHandler, StageInv,
              Handler
<1>3. GoodHandler(g)
  <2>1. h \in Handler /\ OrderInv(h)
    BY <1>2 DEF GoodHandler
  <2>2. h.policy \in NextInOrder(h) /\ h.decision = Decision(h.policy.action)
    BY <1>2 DEF GoodHandler, DecisionInv, Decisions
  <2> QED
    BY <1>2, <2>1, <2>2, DecidedIsGood
<1>4. policyLog' \subseteq PolicyLogRow
  <2>1. h.input \in Input /\ h.policy.id \in PolicyIds
    BY <1>2, GatewayConstantsAssumption DEF PolicyRow
  <2>2. [request |-> r, policy |-> h.policy.id, tenant |-> h.input.tenant,
         user |-> h.input.user, decision |-> h.decision] \in PolicyLogRow
    BY <1>2, <2>1 DEF PolicyLogRow, Input
  <2> QED
    BY <2>2 DEF LogPolicyDecision, IInv, TypeOK
<1> HIDE DEF g
<1>5. \A q \in Requests : Received(q)' => Received(q)
  BY <1>1 DEF Received
<1>6. req' \in [Requests -> Handler] /\ HandlerInv' /\ ReceivedInv'
  BY <1>1, <1>2, <1>3, <1>5, OneHandlerChanges
<1> QED
  BY <1>1, <1>4, <1>6 DEF IInv, TypeOK

-----------------------------------------------------------------------------
(* The steps of chat() after the evaluation *)

\* A handler past the evaluation moves on, whatever its step writes to tables.
LEMMA MovingStep ==
  ASSUME IInv, NEW r \in Requests, NEW g \in Handler,
         req[r].stage # "idle",
         g.input = req[r].input, g.decision = req[r].decision,
         g.policy = req[r].policy, g.passed = req[r].passed,
         g.snapshot = req[r].snapshot,
         g.stage \in Admitted => Allowing(req[r].decision),
         g.stage \notin Undecided \cup {"logDecision", "logDenied"},
         g.stage = "touchKey" => g.key # NoKey,
         req' = [req EXCEPT ![r] = g],
         \A q \in Requests \ {r} : Received(q)' => Received(q),
         Received(r)' => g.stage \in ReceivedStages /\ Allowing(g.decision)
  PROVE  req' \in [Requests -> Handler] /\ HandlerInv' /\ ReceivedInv'
<1>1. GoodHandler(req[r])
  BY DEF IInv, TypeOK, HandlerInv, GoodHandler
<1>2. GoodHandler(g)
  BY <1>1, MovingOnIsGood
<1> QED
  BY <1>2, OneHandlerChanges

\* Answering leaves every other handler alone, whatever tables are written.
LEMMA AnswerStep ==
  ASSUME IInv, NEW r \in Requests, req[r].stage # "idle",
         NEW reply \in Replies, Answer(r, reply), received' = received
  PROVE  req' \in [Requests -> Handler] /\ HandlerInv' /\ ReceivedInv'
<1> DEFINE g == [req[r] EXCEPT !.stage = "done", !.reply = reply]
<1>1. req' = [req EXCEPT ![r] = g]
  BY DEF Answer
<1>2. req[r] \in Handler
  BY DEF IInv, TypeOK
<1>3. /\ g \in Handler
      /\ g.stage = "done" /\ g.input = req[r].input
      /\ g.decision = req[r].decision /\ g.policy = req[r].policy
      /\ g.passed = req[r].passed /\ g.snapshot = req[r].snapshot
  BY <1>2 DEF Handler, Stages
<1>4. /\ \A q \in Requests : Received(q)' => Received(q)
      /\ Received(r) => Allowing(req[r].decision)
  BY DEF Received, IInv, ReceivedInv
<1> HIDE DEF g
<1> QED
  BY <1>1, <1>3, <1>4, MovingStep DEF Undecided, Admitted, ReceivedStages

LEMMA CreateAiLogStep ==
  ASSUME IInv, NEW r \in Requests,
         req[r].stage # "idle", req[r].decision \in Decisions,
         NEW status \in {"SUCCESS", "FAILED", "DENIED"},
         NEW policy \in PolicyIds \cup {NoPolicy},
         NEW reply \in Replies, CreateAiLog(r, status, policy, reply)
  PROVE  IInv'
<1>1. /\ Answer(r, reply) \/ Answer(r, "lost")
      /\ UNCHANGED <<now, policies, policyLog, apiKeys, usedIds, toggling,
                     received>>
  BY DEF CreateAiLog
<1>2. req' \in [Requests -> Handler] /\ HandlerInv' /\ ReceivedInv'
  BY <1>1, AnswerStep DEF Replies
<1>3. req[r].input \in Input /\ req[r].tokens \in Nat /\ now \in Nat
  BY GatewayConstantsAssumption
  DEF IInv, TypeOK, Handler, HandlerInv, StageInv
<1>4. [request |-> r, tenant |-> req[r].input.tenant,
       user |-> req[r].input.user, status |-> status,
       decision |-> req[r].decision, policy |-> policy,
       tokens |-> req[r].tokens, time |-> now] \in AiLogRow
  BY <1>3 DEF AiLogRow, Input
<1>5. aiLog' \subseteq AiLogRow
  BY <1>4 DEF CreateAiLog, IInv, TypeOK
<1> QED
  BY <1>1, <1>2, <1>5 DEF IInv, TypeOK

LEMMA LogDeniedStep ==
  ASSUME IInv, NEW r \in Requests, LogDenied(r)
  PROVE  IInv'
<1>1. /\ req[r].stage = "logDenied"
      /\ CreateAiLog(r, "DENIED", req[r].policy.id, "forbidden")
  BY DEF LogDenied
<1>2. /\ req[r] \in Handler
      /\ req[r].decision # "none" /\ ~Allowing(req[r].decision)
      /\ DecisionInv(req[r])
  BY <1>1 DEF IInv, TypeOK, HandlerInv, StageInv
<1>3. req[r].decision \in Decisions /\ req[r].policy \in PolicyRow
  BY <1>2 DEF Handler, DecisionInv, Allowing, NextInOrder
<1>4. req[r].policy.id \in PolicyIds
  BY <1>3 DEF PolicyRow
<1> QED
  BY <1>1, <1>3, <1>4, CreateAiLogStep DEF Replies

LEMMA LogProviderStep ==
  ASSUME IInv, NEW r \in Requests, LogSuccess(r) \/ LogFailed(r)
  PROVE  IInv'
<1>1. /\ req[r].stage \in {"logSuccess", "logFailed"}
      /\ \/ CreateAiLog(r, "SUCCESS", NoPolicy, "ok")
         \/ CreateAiLog(r, "FAILED", NoPolicy, "providerError")
  BY DEF LogSuccess, LogFailed
<1>2. req[r].decision \in Decisions
  BY <1>1
  DEF IInv, HandlerInv, StageInv, Admitted, Allowing, Decisions
<1> QED
  BY <1>1, <1>2, CreateAiLogStep DEF Replies

LEMMA FindKeyStep ==
  ASSUME IInv, NEW r \in Requests, FindKey(r)
  PROVE  IInv'
<1>1. req[r].stage = "findKey" /\ UNCHANGED <<now, tables, toggling, received>>
  BY DEF FindKey
<1>2. CASE Answer(r, "badRequest")
  <2>1. req' \in [Requests -> Handler] /\ HandlerInv' /\ ReceivedInv'
    BY <1>1, <1>2, AnswerStep DEF Replies
  <2> QED
    BY <1>1, <2>1 DEF IInv, TypeOK, tables
<1>3. CASE \E k \in ActiveKeys(req[r].input) :
             req' = [req EXCEPT ![r].key = k, ![r].stage = "touchKey"]
  <2>1. PICK k \in ActiveKeys(req[r].input) :
          req' = [req EXCEPT ![r].key = k, ![r].stage = "touchKey"]
    BY <1>3
  <2> DEFINE g == [req[r] EXCEPT !.key = k, !.stage = "touchKey"]
  <2>2. req' = [req EXCEPT ![r] = g]
    BY <2>1
  <2>3. req[r] \in Handler /\ k \in KeyRow /\ k # NoKey
    BY GatewayConstantsAssumption DEF IInv, TypeOK, ActiveKeys
  <2>4. /\ g \in Handler
        /\ g.stage = "touchKey" /\ g.key = k /\ g.input = req[r].input
        /\ g.decision = req[r].decision /\ g.policy = req[r].policy
        /\ g.passed = req[r].passed /\ g.snapshot = req[r].snapshot
    BY <2>3 DEF Handler, Stages
  <2>5. Allowing(req[r].decision) /\ ~Received(r)
    BY <1>1 DEF IInv, HandlerInv, StageInv, Admitted, ReceivedInv
  <2>6. \A q \in Requests : Received(q)' => Received(q)
    BY <1>1 DEF Received
  <2> HIDE DEF g
  <2>7. req' \in [Requests -> Handler] /\ HandlerInv' /\ ReceivedInv'
    BY <1>1, <2>2, <2>3, <2>4, <2>5, <2>6, MovingStep DEF Undecided
  <2> QED
    BY <1>1, <2>7 DEF IInv, TypeOK, tables
<1> QED
  BY <1>2, <1>3 DEF FindKey

\* Moving to a later stage, with the rest of the handler as it was.
LEMMA EnterStep ==
  ASSUME IInv, NEW r \in Requests,
         req[r].stage \in Admitted,
         NEW s \in {"forward", "calling", "logFailed"}, Enter(r, s),
         \A q \in Requests \ {r} : Received(q)' => Received(q),
         Received(r)' => s \in ReceivedStages
  PROVE  req' \in [Requests -> Handler] /\ HandlerInv' /\ ReceivedInv'
<1> DEFINE g == [req[r] EXCEPT !.stage = s]
<1>1. req' = [req EXCEPT ![r] = g]
  BY DEF Enter
<1>2. req[r] \in Handler /\ Allowing(req[r].decision)
  BY DEF IInv, TypeOK, HandlerInv, StageInv
<1>3. /\ g \in Handler
      /\ g.stage = s /\ g.input = req[r].input
      /\ g.decision = req[r].decision /\ g.policy = req[r].policy
      /\ g.passed = req[r].passed /\ g.snapshot = req[r].snapshot
  BY <1>2 DEF Handler, Stages
<1> HIDE DEF g
<1> QED
  BY <1>1, <1>2, <1>3, MovingStep DEF Undecided, Admitted

LEMMA TouchKeyStep ==
  ASSUME IInv, NEW r \in Requests, TouchKey(r)
  PROVE  IInv'
<1>1. /\ req[r].stage = "touchKey"
      /\ UNCHANGED <<now, policies, policyLog, aiLog, usedIds, toggling,
                     received>>
  BY DEF TouchKey
<1>2. (\A q \in Requests : Received(q)' => Received(q)) /\ ~Received(r)
  BY <1>1 DEF Received, IInv, ReceivedInv
<1>3. CASE Enter(r, "forward") /\ apiKeys' =
             {IF k.id = req[r].key.id
                THEN [k EXCEPT !.lastUsedAt = now] ELSE k : k \in apiKeys}
  <2>1. req' \in [Requests -> Handler] /\ HandlerInv' /\ ReceivedInv'
    BY <1>1, <1>2, <1>3, EnterStep DEF Admitted
  <2>2. \A k \in KeyRow : [k EXCEPT !.lastUsedAt = now] \in KeyRow
    BY DEF IInv, TypeOK, KeyRow
  <2>3. apiKeys' \subseteq KeyRow
    BY <1>3, <2>2 DEF IInv, TypeOK
  <2> QED
    BY <1>1, <2>1, <2>3 DEF IInv, TypeOK
<1>4. CASE Answer(r, "notFound") /\ UNCHANGED apiKeys
  <2>1. req' \in [Requests -> Handler] /\ HandlerInv' /\ ReceivedInv'
    BY <1>1, <1>4, AnswerStep DEF Replies
  <2> QED
    BY <1>1, <1>4, <2>1 DEF IInv, TypeOK
<1> QED
  BY <1>3, <1>4 DEF TouchKey

LEMMA ForwardStep ==
  ASSUME IInv, NEW r \in Requests, Forward(r)
  PROVE  IInv'
<1>1. /\ req[r].stage = "forward" /\ Enter(r, "calling")
      /\ UNCHANGED <<now, tables, toggling>>
      /\ received' = received \cup {[request |-> r, secret |-> SecretOf(req[r])]}
  BY DEF Forward
<1>2. \A q \in Requests \ {r} : Received(q)' => Received(q)
  BY <1>1 DEF Received
<1>3. req' \in [Requests -> Handler] /\ HandlerInv' /\ ReceivedInv'
  BY <1>1, <1>2, EnterStep DEF Admitted, ReceivedStages
<1>4. SecretOf(req[r]) \in Secrets \cup {NoKey}
  BY DEF IInv, TypeOK, Handler, KeyRow, SecretOf
<1>5. (received \subseteq [request : Requests, secret : Secrets \cup {NoKey}])'
  BY <1>1, <1>4 DEF IInv, TypeOK
<1> QED
  BY <1>1, <1>3, <1>5 DEF IInv, TypeOK, tables

LEMMA ProviderAnswersStep ==
  ASSUME IInv, NEW r \in Requests, ProviderAnswers(r)
  PROVE  IInv'
<1>1. req[r].stage = "calling" /\ UNCHANGED <<now, tables, toggling, received>>
  BY DEF ProviderAnswers
<1>2. PICK t \in 0..MaxTokens :
        req' = [req EXCEPT ![r].stage = "logSuccess", ![r].tokens = t]
  BY DEF ProviderAnswers
<1> DEFINE g == [req[r] EXCEPT !.stage = "logSuccess", !.tokens = t]
<1>3. req' = [req EXCEPT ![r] = g]
  BY <1>2
<1>4. req[r] \in Handler /\ Allowing(req[r].decision) /\ t \in Nat
  BY <1>1, GatewayConstantsAssumption
  DEF IInv, TypeOK, HandlerInv, StageInv, Admitted
<1>5. /\ g \in Handler
      /\ g.stage = "logSuccess" /\ g.input = req[r].input
      /\ g.decision = req[r].decision /\ g.policy = req[r].policy
      /\ g.passed = req[r].passed /\ g.snapshot = req[r].snapshot
  BY <1>4 DEF Handler, Stages
<1>6. \A q \in Requests : Received(q)' => Received(q)
  BY <1>1 DEF Received
<1> HIDE DEF g
<1>7. req' \in [Requests -> Handler] /\ HandlerInv' /\ ReceivedInv'
  BY <1>1, <1>3, <1>4, <1>5, <1>6, MovingStep DEF Undecided, ReceivedStages
<1> QED
  BY <1>1, <1>7 DEF IInv, TypeOK, tables

LEMMA ProviderFailsStep ==
  ASSUME IInv, NEW r \in Requests, ProviderFails(r)
  PROVE  IInv'
<1>1. /\ req[r].stage \in {"forward", "calling"} /\ Enter(r, "logFailed")
      /\ UNCHANGED <<now, tables, toggling, received>>
  BY DEF ProviderFails
<1>2. \A q \in Requests : Received(q)' => Received(q)
  BY <1>1 DEF Received
<1>3. req' \in [Requests -> Handler] /\ HandlerInv' /\ ReceivedInv'
  BY <1>1, <1>2, EnterStep DEF Admitted, ReceivedStages
<1> QED
  BY <1>1, <1>3 DEF IInv, TypeOK, tables

LEMMA DatabaseFailsStep ==
  ASSUME IInv, NEW r \in Requests, DatabaseFails(r)
  PROVE  IInv'
<1>1. UNCHANGED <<now, tables, toggling, received>>
  BY DEF DatabaseFails
<1>2. CASE req[r].stage # "idle" /\ Answer(r, "error")
  <2>1. req' \in [Requests -> Handler] /\ HandlerInv' /\ ReceivedInv'
    BY <1>1, <1>2, AnswerStep DEF Replies
  <2> QED
    BY <1>1, <2>1 DEF IInv, TypeOK, tables
<1>3. CASE req[r].stage = "idle" /\ \E in \in Inputs :
             req' = [req EXCEPT ![r] = [Idle EXCEPT !.input = in,
                       !.stage = "done", !.reply = "error"]]
  <2>1. PICK in \in Inputs :
          req' = [req EXCEPT ![r] = [Idle EXCEPT !.input = in,
                    !.stage = "done", !.reply = "error"]]
    BY <1>3
  <2> DEFINE g == [Idle EXCEPT !.input = in, !.stage = "done",
                               !.reply = "error"]
  <2>2. ~Received(r)
    BY <1>3 DEF IInv, ReceivedInv
  <2>3. /\ g \in Handler
        /\ g.stage = "done" /\ g.input = in /\ g.decision = "none"
        /\ g.passed = {} /\ g.snapshot = {}
    BY DEF Idle, Handler, Stages, Replies
  <2> HIDE DEF g
  <2>4. GoodHandler(g)
    BY <2>3
    DEF GoodHandler, OrderInv, DecisionInv, StageInv, Undecided, Admitted
  <2> QED
    BY <1>1, <2>1, <2>2, <2>4, HandlerStep DEF g
<1> QED
  BY <1>2, <1>3 DEF DatabaseFails

\* A crash ends every handler in flight where it stands.
LEMMA CrashStep ==
  ASSUME IInv, Crash
  PROVE  IInv'
<1> DEFINE lost(r) == [req[r] EXCEPT !.stage = "done", !.reply = "lost"]
<1>1. /\ UNCHANGED <<now, tables, received>>
      /\ toggling' = [a \in Admins |-> NoToggle]
      /\ req' = [r \in Requests |-> IF r \in InFlight THEN lost(r) ELSE req[r]]
  BY DEF Crash
<1>2. ASSUME NEW r \in Requests
      PROVE  /\ req'[r] \in Handler
             /\ OrderInv(req'[r]) /\ DecisionInv(req'[r]) /\ StageInv(req'[r])
             /\ Received(r)' => /\ req'[r].stage \in ReceivedStages
                                /\ Allowing(req'[r].decision)
  <2>1. GoodHandler(req[r])
    BY DEF IInv, TypeOK, HandlerInv, GoodHandler
  <2>2. Received(r)' => Received(r)
    BY <1>1 DEF Received
  <2>3. Received(r) => /\ req[r].stage \in ReceivedStages
                       /\ Allowing(req[r].decision)
    BY DEF IInv, ReceivedInv, ReceivedStages
  <2>4. CASE r \notin InFlight
    <3>1. req'[r] = req[r]
      BY <1>1, <2>4
    <3> QED
      BY <2>1, <2>2, <2>3, <3>1 DEF GoodHandler
  <2>5. CASE r \in InFlight
    <3>1. req'[r] = lost(r)
      BY <1>1, <2>5
    <3>2. req[r].stage # "idle"
      BY <2>5 DEF InFlight
    <3>3. /\ lost(r) \in Handler
          /\ lost(r).stage = "done" /\ lost(r).input = req[r].input
          /\ lost(r).decision = req[r].decision
          /\ lost(r).policy = req[r].policy
          /\ lost(r).passed = req[r].passed
          /\ lost(r).snapshot = req[r].snapshot
      BY <2>1 DEF GoodHandler, Handler, Stages, Replies
    <3> HIDE DEF lost
    <3>4. GoodHandler(lost(r))
      BY <2>1, <3>2, <3>3, MovingOnIsGood DEF Undecided, Admitted
    <3> QED
      BY <2>2, <2>3, <3>1, <3>3, <3>4 DEF GoodHandler, ReceivedStages
  <2> QED
    BY <2>4, <2>5
<1>3. req' \in [Requests -> Handler]
  BY <1>1, <1>2
<1>4. HandlerInv' /\ ReceivedInv'
  BY <1>2 DEF HandlerInv, ReceivedInv, ReceivedStages
<1>5. toggling' \in [Admins -> Toggle \cup {NoToggle}]
  BY <1>1
<1> QED
  BY <1>1, <1>3, <1>4, <1>5 DEF IInv, TypeOK, tables

-----------------------------------------------------------------------------
(* The steps of administrators and of the clock *)

\* What the handlers know is not disturbed by steps that are not theirs.
LEMMA HandlersUndisturbed ==
  ASSUME IInv, UNCHANGED <<req, received>>
  PROVE  /\ req' \in [Requests -> Handler]
         /\ HandlerInv' /\ ReceivedInv'
         /\ (received \subseteq [request : Requests,
                                 secret : Secrets \cup {NoKey}])'
  BY DEF IInv, TypeOK, HandlerInv, ReceivedInv, Received

LEMMA PolicyAdminStep ==
  ASSUME IInv, NEW a \in Admins,
         CreatePolicy(a) \/ UpdatePolicy(a) \/ RemovePolicy(a)
  PROVE  IInv'
<1>1. /\ UNCHANGED <<now, aiLog, apiKeys, toggling, req, received>>
      /\ policyLog' \subseteq policyLog
  BY DEF CreatePolicy, UpdatePolicy, RemovePolicy
<1>2. policies' \subseteq PolicyRow /\ usedIds' \subseteq PolicyIds \cup KeyIds
  <2>1. CASE CreatePolicy(a)
    <3>1. PICK id \in PolicyIds, t \in Tenants, f \in PolicyForms :
            /\ policies' = policies \cup
                 {[id |-> id, tenant |-> t, type |-> f.type,
                   action |-> f.action, priority |-> f.priority,
                   isActive |-> f.isActive, rules |-> f.rules]}
            /\ usedIds' = usedIds \cup {id}
      BY <2>1 DEF CreatePolicy
    <3>2. f \in PolicyForm
      BY GatewayConstantsAssumption
    <3> QED
      BY <3>1, <3>2 DEF IInv, TypeOK, PolicyForm, PolicyRow
  <2>2. CASE UpdatePolicy(a)
    <3>1. PICK p \in policies, f \in PolicyForms, fields \in PatchedFields :
            policies' = (policies \ {p}) \cup {Patched(p, f, fields)}
      BY <2>2 DEF UpdatePolicy
    <3>2. f \in PolicyForm /\ p \in PolicyRow
      BY GatewayConstantsAssumption DEF IInv, TypeOK
    <3>3. Patched(p, f, fields) \in PolicyRow
      BY <3>2 DEF Patched, PolicyForm, PolicyRow
    <3> QED
      BY <2>2, <3>1, <3>3 DEF IInv, TypeOK, UpdatePolicy
  <2>3. CASE RemovePolicy(a)
    BY <2>3 DEF RemovePolicy, IInv, TypeOK
  <2> QED
    BY <2>1, <2>2, <2>3
<1> QED
  BY <1>1, <1>2, HandlersUndisturbed DEF IInv, TypeOK

LEMMA KeyAdminStep ==
  ASSUME IInv, NEW a \in Admins, CreateKey(a) \/ RotateKey(a) \/ RemoveKey(a)
  PROVE  IInv'
<1>1. UNCHANGED <<now, policies, policyLog, aiLog, toggling, req, received>>
  BY DEF CreateKey, RotateKey, RemoveKey
<1>2. apiKeys' \subseteq KeyRow /\ usedIds' \subseteq PolicyIds \cup KeyIds
  <2>1. CASE CreateKey(a)
    <3>1. PICK id \in KeyIds, t \in Tenants, s \in Secrets,
               provider \in RegisteredProviders :
            /\ apiKeys' = apiKeys \cup
                 {[id |-> id, tenant |-> t, provider |-> provider,
                   secret |-> s, isActive |-> TRUE,
                   lastUsedAt |-> NeverUsed]}
            /\ usedIds' = usedIds \cup {id}
      BY <2>1 DEF CreateKey
    <3>2. [id |-> id, tenant |-> t, provider |-> provider, secret |-> s,
           isActive |-> TRUE, lastUsedAt |-> NeverUsed] \in KeyRow
      BY DEF KeyRow, NeverUsed
    <3> QED
      BY <3>1, <3>2 DEF IInv, TypeOK
  <2>2. CASE RotateKey(a)
    <3>1. PICK k \in apiKeys, s \in Secrets :
            apiKeys' = (apiKeys \ {k}) \cup {[k EXCEPT !.secret = s]}
      BY <2>2 DEF RotateKey
    <3>2. [k EXCEPT !.secret = s] \in KeyRow
      BY DEF IInv, TypeOK, KeyRow
    <3> QED
      BY <2>2, <3>1, <3>2 DEF IInv, TypeOK, RotateKey
  <2>3. CASE RemoveKey(a)
    BY <2>3 DEF RemoveKey, IInv, TypeOK
  <2> QED
    BY <2>1, <2>2, <2>3
<1> QED
  BY <1>1, <1>2, HandlersUndisturbed DEF IInv, TypeOK

LEMMA ToggleStep ==
  ASSUME IInv, NEW a \in Admins, BeginToggle(a) \/ EndToggle(a)
  PROVE  IInv'
<1>1. UNCHANGED <<now, policyLog, aiLog, usedIds, req, received>>
  BY DEF BeginToggle, EndToggle, tables
<1>2. /\ policies' \subseteq PolicyRow /\ apiKeys' \subseteq KeyRow
      /\ toggling' \in [Admins -> Toggle \cup {NoToggle}]
  <2>1. CASE BeginToggle(a)
    <3>1. UNCHANGED tables
      BY <2>1 DEF BeginToggle
    <3>2. PICK t \in Toggle : toggling' = [toggling EXCEPT ![a] = t]
      <4>1. \A p \in policies : [table |-> "policies", id |-> p.id,
                                 seen |-> p.isActive] \in Toggle
        BY DEF IInv, TypeOK, PolicyRow, Toggle
      <4>2. \A k \in apiKeys : [table |-> "api_keys", id |-> k.id,
                                seen |-> k.isActive] \in Toggle
        BY DEF IInv, TypeOK, KeyRow, Toggle
      <4> QED
        BY <2>1, <4>1, <4>2 DEF BeginToggle
    <3> QED
      BY <3>1, <3>2 DEF IInv, TypeOK, tables
  <2>2. CASE EndToggle(a)
    <3>1. \A t : /\ policies \subseteq PolicyRow =>
                      Toggled(policies, t) \subseteq PolicyRow
                 /\ apiKeys \subseteq KeyRow =>
                      Toggled(apiKeys, t) \subseteq KeyRow
      <4>1. \A t : \A p \in PolicyRow : [p EXCEPT !.isActive = ~t.seen] \in PolicyRow
        BY DEF PolicyRow
      <4>2. \A t : \A k \in KeyRow : [k EXCEPT !.isActive = ~t.seen] \in KeyRow
        BY DEF KeyRow
      <4> QED
        BY <4>1, <4>2 DEF Toggled
    <3> QED
      BY <2>2, <3>1 DEF EndToggle, IInv, TypeOK
  <2> QED
    BY <2>1, <2>2
<1> QED
  BY <1>1, <1>2, HandlersUndisturbed DEF IInv, TypeOK

LEMMA TickStep ==
  ASSUME IInv, Tick
  PROVE  IInv'
<1>1. now' \in 0..MaxTime
  BY GatewayConstantsAssumption DEF Tick, IInv, TypeOK
<1> QED
  BY <1>1, HandlersUndisturbed DEF Tick, IInv, TypeOK, tables

-----------------------------------------------------------------------------
(* The invariant *)

LEMMA InitIInv ==
  ASSUME Init
  PROVE  IInv
<1>1. Idle \in Handler
  BY DEF Idle, Handler, Stages, Replies
<1>2. TypeOK
  BY <1>1, GatewayConstantsAssumption, InitialTablesAssumption
  DEF Init, TypeOK, PolicyRow, KeyRow
<1>3. OrderInv(Idle) /\ DecisionInv(Idle) /\ StageInv(Idle)
  BY DEF Idle, OrderInv, DecisionInv, StageInv, Undecided, Admitted
<1>4. HandlerInv /\ ReceivedInv
  BY <1>3 DEF Init, HandlerInv, ReceivedInv, Received
<1> QED
  BY <1>2, <1>4 DEF IInv

LEMMA NextIInv ==
  ASSUME IInv, [Next]_vars
  PROVE  IInv'
<1>1. CASE UNCHANGED vars
  BY <1>1, HandlersUndisturbed DEF vars, tables, IInv, TypeOK
<1>2. ASSUME NEW r \in Requests,
             LoadPolicies(r) \/ Handle(r) \/ Respond(r) \/ DatabaseFails(r)
      PROVE  IInv'
  BY <1>2, LoadPoliciesStep, EvaluatePolicyStep, EvaluateTokenQuotaStep,
     LogPolicyDecisionStep, LogDeniedStep, FindKeyStep, TouchKeyStep,
     ForwardStep, LogProviderStep, ProviderAnswersStep, ProviderFailsStep,
     DatabaseFailsStep DEF Handle, Respond
<1>3. ASSUME NEW a \in Admins, Administer(a)
      PROVE  IInv'
  BY <1>3, PolicyAdminStep, KeyAdminStep, ToggleStep DEF Administer
<1> QED
  BY <1>1, <1>2, <1>3, CrashStep, TickStep DEF Next

LEMMA InvariantHolds == Spec => []IInv
<1>1. Init => IInv
  BY InitIInv
<1>2. IInv /\ [Next]_vars => IInv'
  BY NextIInv
<1> QED
  BY <1>1, <1>2, PTL DEF Spec

\* The tables and the handlers keep their types, whoever acts on them: a
\* refusal always finds a policy to name, a log row a decision to write.
THEOREM TypeCorrect == Spec => []TypeOK
<1>1. IInv => TypeOK
  BY DEF IInv
<1> QED
  BY <1>1, InvariantHolds, PTL

\* Policy-first, for every set of policies, prompts, administrators and
\* requests: what a provider received had been let through by the policies
\* loaded for it, in the order of their priorities.
THEOREM PolicyFirstHolds == Spec => []PolicyFirst
<1>1. ASSUME IInv, NEW r \in Requests, Received(r),
             NEW p \in req[r].snapshot,
             ContentMatch(p, req[r].input), ~Allowing(Decision(p.action))
      PROVE  /\ req[r].policy \in req[r].snapshot
             /\ req[r].policy.priority >= p.priority
             /\ Allowing(Decision(req[r].policy.action))
  <2>1. Allowing(req[r].decision)
    BY <1>1 DEF IInv, ReceivedInv
  <2>2. p \notin req[r].passed
    BY <1>1 DEF IInv, HandlerInv, OrderInv
  <2>3. /\ req[r].policy \in NextInOrder(req[r])
        /\ req[r].decision = Decision(req[r].policy.action)
    BY <1>1, <2>1, <2>2 DEF IInv, HandlerInv, DecisionInv, Allowing
  <2> QED
    BY <2>1, <2>2, <2>3 DEF NextInOrder
<1>2. IInv => PolicyFirst
  BY <1>1 DEF PolicyFirst, IInv, ReceivedInv
<1> QED
  BY <1>2, InvariantHolds, PTL

-----------------------------------------------------------------------------
(* The tables, whoever writes them: one API key per tenant and provider, an *)
(* audit trail that survives administration, rows that stay deleted.        *)

PolicyIdsUnique == \A p, q \in policies : p.id = q.id => p = q

\* Every row got its id when it was created.
IdsAreUsed ==
  /\ \A p \in policies : p.id \in usedIds
  /\ \A k \in apiKeys : k.id \in usedIds

TablesInv == PolicyIdsUnique /\ KeysUnique /\ IdsAreUsed

\* The properties of one step that the two action properties state.
KeepsAudit ==
  /\ aiLog \subseteq aiLog'
  /\ \A l \in policyLog \ policyLog' :
       HasRow(policies, l.policy) /\ ~HasRow(policies, l.policy)'

KeepsDeleted ==
  \A id \in usedIds :
    /\ ~HasRow(policies, id) => ~HasRow(policies, id)'
    /\ ~HasRow(apiKeys, id) => ~HasRow(apiKeys, id)'

Kept == TablesInv' /\ KeepsAudit /\ KeepsDeleted

-----------------------------------------------------------------------------
(* Steps that leave both administered tables alone *)

LEMMA QuietStep ==
  ASSUME TablesInv, UNCHANGED <<policies, apiKeys, usedIds>>,
         policyLog \subseteq policyLog', aiLog \subseteq aiLog'
  PROVE  Kept
  BY DEF Kept, TablesInv, PolicyIdsUnique, KeysUnique, IdsAreUsed,
         KeepsAudit, KeepsDeleted, HasRow

LEMMA RequestStep ==
  ASSUME TypeOK, TablesInv, NEW r \in Requests,
         LoadPolicies(r) \/ Handle(r) \/ Respond(r) \/ DatabaseFails(r),
         ~TouchKey(r)
  PROVE  Kept
<1>1. UNCHANGED <<policies, apiKeys, usedIds>>
  BY DEF LoadPolicies, Handle, Respond, DatabaseFails, EvaluatePolicy,
         EvaluateTokenQuota, LogPolicyDecision, LogDenied, FindKey, Forward,
         ProviderAnswers, ProviderFails, LogSuccess, LogFailed, CreateAiLog,
         tables
<1>2. policyLog \subseteq policyLog' /\ aiLog \subseteq aiLog'
  BY DEF LoadPolicies, Handle, Respond, DatabaseFails, EvaluatePolicy,
         EvaluateTokenQuota, LogPolicyDecision, LogDenied, FindKey, Forward,
         ProviderAnswers, ProviderFails, LogSuccess, LogFailed, CreateAiLog,
         tables
<1> QED
  BY <1>1, <1>2, QuietStep

-----------------------------------------------------------------------------
(* Steps that write api_keys *)

\* Rewriting rows without touching what identifies them.
LEMMA KeysRewritten ==
  ASSUME TypeOK, TablesInv,
         UNCHANGED <<policies, policyLog, aiLog, usedIds>>,
         \A x \in apiKeys' : \E k \in apiKeys :
           x.id = k.id /\ x.tenant = k.tenant /\ x.provider = k.provider,
         \A x, y \in apiKeys' : \A k \in apiKeys :
           /\ x.id = k.id /\ x.tenant = k.tenant /\ x.provider = k.provider
           /\ y.id = k.id /\ y.tenant = k.tenant /\ y.provider = k.provider
           => x = y
  PROVE  Kept
<1>1. KeysUnique'
  <2>1. SUFFICES ASSUME NEW x \in apiKeys', NEW y \in apiKeys',
                        \/ x.id = y.id
                        \/ x.tenant = y.tenant /\ x.provider = y.provider
                 PROVE  x = y
    BY DEF KeysUnique
  <2>2. PICK k \in apiKeys :
          x.id = k.id /\ x.tenant = k.tenant /\ x.provider = k.provider
    OBVIOUS
  <2>3. PICK l \in apiKeys :
          y.id = l.id /\ y.tenant = l.tenant /\ y.provider = l.provider
    OBVIOUS
  <2>4. k = l
    BY <2>1, <2>2, <2>3 DEF TablesInv, KeysUnique
  <2> QED
    BY <2>2, <2>3, <2>4
<1>2. IdsAreUsed' /\ PolicyIdsUnique'
  BY DEF TablesInv, IdsAreUsed, PolicyIdsUnique
<1>3. KeepsAudit /\ KeepsDeleted
  BY DEF KeepsAudit, KeepsDeleted, HasRow
<1> QED
  BY <1>1, <1>2, <1>3 DEF Kept, TablesInv

LEMMA TouchKeyKeeps ==
  ASSUME TypeOK, TablesInv, NEW r \in Requests, TouchKey(r)
  PROVE  Kept
<1>1. UNCHANGED <<policies, policyLog, aiLog, usedIds>>
  BY DEF TouchKey
<1>2. CASE UNCHANGED apiKeys
  BY <1>1, <1>2, QuietStep
<1>3. CASE apiKeys' = {IF k.id = req[r].key.id
                         THEN [k EXCEPT !.lastUsedAt = now] ELSE k :
                       k \in apiKeys}
  <2> DEFINE f(k) == IF k.id = req[r].key.id
                       THEN [k EXCEPT !.lastUsedAt = now] ELSE k
  <2>1. \A k \in apiKeys : /\ f(k).id = k.id /\ f(k).tenant = k.tenant
                           /\ f(k).provider = k.provider
    BY DEF TypeOK, KeyRow
  <2>2. apiKeys' = {f(k) : k \in apiKeys}
    BY <1>3
  <2> HIDE DEF f
  <2> QED
    BY <1>1, <2>1, <2>2, KeysRewritten DEF TablesInv, KeysUnique
<1> QED
  BY <1>2, <1>3 DEF TouchKey

LEMMA RotateKeyKeeps ==
  ASSUME TypeOK, TablesInv, NEW a \in Admins, RotateKey(a)
  PROVE  Kept
<1>1. PICK k \in apiKeys, s \in Secrets :
        apiKeys' = (apiKeys \ {k}) \cup {[k EXCEPT !.secret = s]}
  BY DEF RotateKey
<1> DEFINE x == [k EXCEPT !.secret = s]
<1>2. x.id = k.id /\ x.tenant = k.tenant /\ x.provider = k.provider
  BY DEF TypeOK, KeyRow
<1>3. apiKeys' = (apiKeys \ {k}) \cup {x}
  BY <1>1
<1>4. UNCHANGED <<policies, policyLog, aiLog, usedIds>>
  BY DEF RotateKey
<1> HIDE DEF x
<1>5. \A y \in apiKeys' : \E l \in apiKeys :
        y.id = l.id /\ y.tenant = l.tenant /\ y.provider = l.provider
  BY <1>2, <1>3
<1>6. \A y \in apiKeys' : \A l \in apiKeys :
        y.id = l.id => y = IF l = k THEN x ELSE l
  BY <1>2, <1>3 DEF TablesInv, KeysUnique
<1>7. \A y, z \in apiKeys' : \A l \in apiKeys :
        /\ y.id = l.id /\ y.tenant = l.tenant /\ y.provider = l.provider
        /\ z.id = l.id /\ z.tenant = l.tenant /\ z.provider = l.provider
        => y = z
  BY <1>6
<1> QED
  BY <1>4, <1>5, <1>7, KeysRewritten

LEMMA CreateKeyKeeps ==
  ASSUME TypeOK, TablesInv, NEW a \in Admins, CreateKey(a)
  PROVE  Kept
<1>1. PICK id \in KeyIds \ usedIds, t \in Tenants, s \in Secrets,
           provider \in RegisteredProviders :
        /\ \A k \in apiKeys : k.tenant # t \/ k.provider # provider
        /\ apiKeys' = apiKeys \cup
             {[id |-> id, tenant |-> t, provider |-> provider, secret |-> s,
               isActive |-> TRUE, lastUsedAt |-> NeverUsed]}
        /\ usedIds' = usedIds \cup {id}
        /\ UNCHANGED <<policies, policyLog, aiLog>>
  BY DEF CreateKey
<1>2. \A k \in apiKeys : k.id \in usedIds
  BY DEF TablesInv, IdsAreUsed
<1> DEFINE x == [id |-> id, tenant |-> t, provider |-> provider, secret |-> s,
                 isActive |-> TRUE, lastUsedAt |-> NeverUsed]
<1>3. /\ apiKeys' = apiKeys \cup {x}
      /\ x.id = id /\ x.tenant = t /\ x.provider = provider
  BY <1>1
<1> HIDE DEF x
<1>4. KeysUnique'
  BY <1>1, <1>2, <1>3 DEF TablesInv, KeysUnique
<1>5. IdsAreUsed' /\ PolicyIdsUnique'
  BY <1>1, <1>3 DEF TablesInv, IdsAreUsed, PolicyIdsUnique
<1>6. KeepsAudit /\ KeepsDeleted
  BY <1>1, <1>3 DEF KeepsAudit, KeepsDeleted, HasRow
<1> QED
  BY <1>4, <1>5, <1>6 DEF Kept, TablesInv

LEMMA RemoveKeyKeeps ==
  ASSUME TypeOK, TablesInv, NEW a \in Admins, RemoveKey(a)
  PROVE  Kept
  BY DEF RemoveKey, Kept, TablesInv, PolicyIdsUnique, KeysUnique, IdsAreUsed,
         KeepsAudit, KeepsDeleted, HasRow

-----------------------------------------------------------------------------
(* Steps that write policies *)

LEMMA CreatePolicyKeeps ==
  ASSUME TypeOK, TablesInv, NEW a \in Admins, CreatePolicy(a)
  PROVE  Kept
<1>1. PICK id \in PolicyIds \ usedIds, t \in Tenants, f \in PolicyForms :
        /\ policies' = policies \cup
             {[id |-> id, tenant |-> t, type |-> f.type, action |-> f.action,
               priority |-> f.priority, isActive |-> f.isActive,
               rules |-> f.rules]}
        /\ usedIds' = usedIds \cup {id}
        /\ UNCHANGED <<policyLog, aiLog, apiKeys>>
  BY DEF CreatePolicy
<1>2. \A p \in policies : p.id \in usedIds
  BY DEF TablesInv, IdsAreUsed
<1>3. PolicyIdsUnique'
  BY <1>1, <1>2 DEF TablesInv, PolicyIdsUnique
<1>4. IdsAreUsed' /\ KeysUnique'
  BY <1>1 DEF TablesInv, IdsAreUsed, KeysUnique
<1>5. KeepsAudit /\ KeepsDeleted
  BY <1>1 DEF KeepsAudit, KeepsDeleted, HasRow
<1> QED
  BY <1>3, <1>4, <1>5 DEF Kept, TablesInv

LEMMA UpdatePolicyKeeps ==
  ASSUME TypeOK, TablesInv, NEW a \in Admins, UpdatePolicy(a)
  PROVE  Kept
<1>1. PICK p \in policies, f \in PolicyForms, fields \in PatchedFields :
        /\ policies' = (policies \ {p}) \cup {Patched(p, f, fields)}
        /\ UNCHANGED <<policyLog, aiLog, apiKeys, usedIds>>
  BY DEF UpdatePolicy
<1> DEFINE x == Patched(p, f, fields)
<1>2. x.id = p.id /\ policies' = (policies \ {p}) \cup {x}
  BY <1>1 DEF Patched, TypeOK, PolicyRow
<1> HIDE DEF x
<1>3. PolicyIdsUnique'
  BY <1>2 DEF TablesInv, PolicyIdsUnique
<1>4. IdsAreUsed' /\ KeysUnique'
  BY <1>1, <1>2 DEF TablesInv, IdsAreUsed, KeysUnique
<1>5. KeepsAudit /\ KeepsDeleted
  BY <1>1, <1>2 DEF KeepsAudit, KeepsDeleted, HasRow
<1> QED
  BY <1>3, <1>4, <1>5 DEF Kept, TablesInv

\* The rows of policy_logs that go name the policy that goes, and no other
\* policy has its id.
LEMMA RemovePolicyKeeps ==
  ASSUME TypeOK, TablesInv, NEW a \in Admins, RemovePolicy(a)
  PROVE  Kept
<1>1. PICK p \in policies :
        /\ policies' = policies \ {p}
        /\ policyLog' = {l \in policyLog : l.policy # p.id}
  BY DEF RemovePolicy
<1>2. UNCHANGED <<aiLog, apiKeys, usedIds>>
  BY DEF RemovePolicy
<1>3. KeepsAudit
  BY <1>1, <1>2 DEF KeepsAudit, HasRow, TablesInv, PolicyIdsUnique
<1>4. TablesInv'
  BY <1>1, <1>2 DEF TablesInv, PolicyIdsUnique, IdsAreUsed, KeysUnique
<1>5. KeepsDeleted
  BY <1>1, <1>2 DEF KeepsDeleted, HasRow
<1> QED
  BY <1>3, <1>4, <1>5 DEF Kept

\* A toggle whose row has gone changes nothing.
LEMMA EndToggleKeeps ==
  ASSUME TypeOK, TablesInv, NEW a \in Admins, EndToggle(a)
  PROVE  Kept
<1>1. UNCHANGED <<policyLog, aiLog, usedIds>>
  BY DEF EndToggle
<1> DEFINE f(x) == IF x.id = toggling[a].id
                     THEN [x EXCEPT !.isActive = ~toggling[a].seen] ELSE x
<1>2. CASE policies' = Toggled(policies, toggling[a]) /\ UNCHANGED apiKeys
  <2>1. policies' = {f(p) : p \in policies}
    BY <1>2 DEF Toggled
  <2>2. \A p \in policies : f(p).id = p.id
    BY DEF TypeOK, PolicyRow
  <2> HIDE DEF f
  <2>3. TablesInv'
    BY <1>1, <1>2, <2>1, <2>2
    DEF TablesInv, PolicyIdsUnique, IdsAreUsed, KeysUnique
  <2>4. KeepsAudit /\ KeepsDeleted
    BY <1>1, <1>2, <2>1, <2>2 DEF KeepsAudit, KeepsDeleted, HasRow
  <2> QED
    BY <2>3, <2>4 DEF Kept
<1>3. CASE apiKeys' = Toggled(apiKeys, toggling[a]) /\ UNCHANGED policies
  <2>1. apiKeys' = {f(k) : k \in apiKeys}
    BY <1>3 DEF Toggled
  <2>2. \A k \in apiKeys : /\ f(k).id = k.id /\ f(k).tenant = k.tenant
                           /\ f(k).provider = k.provider
    BY DEF TypeOK, KeyRow
  <2> HIDE DEF f
  <2> QED
    BY <1>1, <1>3, <2>1, <2>2, KeysRewritten DEF TablesInv, KeysUnique
<1> QED
  BY <1>2, <1>3 DEF EndToggle

-----------------------------------------------------------------------------
(* The theorems *)

LEMMA InitTablesInv ==
  ASSUME Init PROVE TablesInv
  BY InitialTablesAssumption
  DEF Init, TablesInv, PolicyIdsUnique, KeysUnique, IdsAreUsed

LEMMA NextKeeps ==
  ASSUME TypeOK, TablesInv, [Next]_vars
  PROVE  Kept
<1>1. CASE UNCHANGED vars
  BY <1>1, QuietStep DEF vars, tables
<1>2. ASSUME NEW r \in Requests,
             LoadPolicies(r) \/ Handle(r) \/ Respond(r) \/ DatabaseFails(r)
      PROVE  Kept
  BY <1>2, RequestStep, TouchKeyKeeps
<1>3. ASSUME NEW a \in Admins, Administer(a)
      PROVE  Kept
  <2>1. CASE BeginToggle(a)
    BY <2>1, QuietStep DEF BeginToggle, tables
  <2> QED
    BY <1>3, <2>1, CreatePolicyKeeps, UpdatePolicyKeeps, RemovePolicyKeeps,
       CreateKeyKeeps, RotateKeyKeeps, RemoveKeyKeeps, EndToggleKeeps
    DEF Administer
<1>4. CASE Crash \/ Tick
  BY <1>4, QuietStep DEF Crash, Tick, tables
<1> QED
  BY <1>1, <1>2, <1>3, <1>4 DEF Next

LEMMA TablesInvariant == Spec => []TablesInv
<1>1. Init => TablesInv
  BY InitTablesInv
<1>2. TypeOK /\ TablesInv /\ [Next]_vars => TablesInv'
  BY NextKeeps DEF Kept
<1> QED
  BY <1>1, <1>2, TypeCorrect, PTL DEF Spec

\* At every moment a tenant has at most one key per provider, and an id names
\* one key, whatever creations, rotations, toggles and lookups overlap.
THEOREM KeysStayUnique == Spec => []KeysUnique
<1>1. TablesInv => KeysUnique
  BY DEF TablesInv
<1> QED
  BY <1>1, TablesInvariant, PTL

\* No step of anyone changes or removes a row of ai_logs, and a row of
\* policy_logs goes only when its policy does.
THEOREM AuditSurvives == Spec => AuditIsKept
<1>1. TypeOK /\ TablesInv /\ [Next]_vars =>
        [/\ aiLog \subseteq aiLog'
         /\ \A l \in policyLog \ policyLog' :
              HasRow(policies, l.policy) /\ ~HasRow(policies, l.policy)']_vars
  BY NextKeeps DEF Kept, KeepsAudit
<1> QED
  BY <1>1, TypeCorrect, TablesInvariant, PTL DEF Spec, AuditIsKept

\* No half-done toggle, timestamp or update brings a deleted row back.
THEOREM DeletionIsFinal == Spec => DeletedStaysDeleted
<1>1. TypeOK /\ TablesInv /\ [Next]_vars =>
        [\A id \in usedIds :
           /\ ~HasRow(policies, id) => ~HasRow(policies, id)'
           /\ ~HasRow(apiKeys, id) => ~HasRow(apiKeys, id)']_vars
  BY NextKeeps DEF Kept, KeepsDeleted
<1> QED
  BY <1>1, TypeCorrect, TablesInvariant, PTL DEF Spec, DeletedStaysDeleted

-----------------------------------------------------------------------------
(* The credentials: whose they are, and that their rows show their use      *)

\* The stages in which a handler may hold a key, and those after its row was
\* stamped.
Using == {"forward", "calling", "logSuccess", "logFailed"}
Holding == Using \cup {"touchKey", "done"}

Stamped(r) == req[r].stage \in Using \/ Received(r)

\* The key a handler holds was stored for its tenant and its provider, under
\* an id that stays taken.
HeldKeyFits(h, ids) ==
  h.key # NoKey =>
    /\ h.stage \in Holding
    /\ h.key.tenant = h.input.tenant
    /\ h.key.provider = ProviderOf(h.input)
    /\ h.key.id \in ids

ShowsUse(table, id) == \A k \in table : k.id = id => k.lastUsedAt # NeverUsed

KeyUseInv ==
  /\ \A r \in Requests :
       /\ HeldKeyFits(req[r], usedIds)
       /\ req[r].key # NoKey /\ Stamped(r) => ShowsUse(apiKeys, req[r].key.id)
  /\ \A c \in received : c.secret # NoKey =>
       req[c.request].key # NoKey /\ req[c.request].key.secret = c.secret

\* A handler without a key gets none; one with a key keeps it, and its row was
\* stamped if it is going to be used.
KeepsKey(g, h, r) ==
  \/ h.key = NoKey /\ (g.key = NoKey \/ ~Received(r))
  \/ /\ h.key = g.key /\ h.input = g.input
     /\ h.stage \in Holding
     /\ h.stage \in Using => Stamped(r)

LEMMA HandlersKeepKeys ==
  ASSUME TypeOK, KeyUseInv, UNCHANGED <<apiKeys, usedIds, received>>,
         \A r \in Requests : KeepsKey(req[r], req'[r], r)
  PROVE  KeyUseInv'
<1>1. \A r : Received(r)' <=> Received(r)
  BY DEF Received
<1>2. ASSUME NEW r \in Requests
      PROVE  /\ HeldKeyFits(req'[r], usedIds')
             /\ req'[r].key # NoKey /\ Stamped(r)' => ShowsUse(apiKeys', req'[r].key.id)
  BY <1>1 DEF KeyUseInv, HeldKeyFits, KeepsKey, Stamped
<1>3. ASSUME NEW c \in received, c.secret # NoKey
      PROVE  req'[c.request].key # NoKey /\ req'[c.request].key.secret = c.secret
  <2>1. c.request \in Requests /\ Received(c.request)
    BY DEF TypeOK, Received
  <2> QED
    BY <1>3, <2>1 DEF KeepsKey, KeyUseInv
<1> QED
  BY <1>2, <1>3 DEF KeyUseInv

LEMMA OneKeepsKey ==
  ASSUME TypeOK, KeyUseInv, UNCHANGED <<apiKeys, usedIds, received>>,
         NEW r \in Requests, NEW h, req' = [req EXCEPT ![r] = h],
         KeepsKey(req[r], h, r)
  PROVE  KeyUseInv'
<1>1. \A q \in Requests : req'[q] = IF q = r THEN h ELSE req[q]
  BY DEF TypeOK
<1>2. ASSUME NEW q \in Requests PROVE KeepsKey(req[q], req'[q], q)
  BY <1>1 DEF KeepsKey, Stamped, KeyUseInv, HeldKeyFits
<1> QED
  BY <1>2, HandlersKeepKeys

\* Rows of ids in use are neither added nor made to forget their use.
LEMMA RowsKeepUse ==
  ASSUME TypeOK, KeyUseInv, UNCHANGED <<req, received>>,
         usedIds \subseteq usedIds',
         \A x \in apiKeys' : x.id \in usedIds =>
           \E k \in apiKeys : k.id = x.id /\ k.lastUsedAt = x.lastUsedAt
  PROVE  KeyUseInv'
<1>1. ASSUME NEW id \in usedIds, ShowsUse(apiKeys, id) PROVE ShowsUse(apiKeys', id)
  BY <1>1 DEF ShowsUse
<1>2. \A r : Stamped(r)' <=> Stamped(r)
  BY DEF Stamped, Received
<1>3. \A r \in Requests : HeldKeyFits(req'[r], usedIds')
  BY DEF KeyUseInv, HeldKeyFits
<1>4. ASSUME NEW r \in Requests, req[r].key # NoKey, Stamped(r)
      PROVE  ShowsUse(apiKeys', req[r].key.id)
  BY <1>1, <1>4 DEF KeyUseInv, HeldKeyFits
<1> QED
  BY <1>2, <1>3, <1>4 DEF KeyUseInv

-----------------------------------------------------------------------------
(* The steps *)

LEMMA LoadKeepsKey ==
  ASSUME IInv, KeyUseInv, NEW r \in Requests, LoadPolicies(r)
  PROVE  KeyUseInv'
<1>1. req[r].stage = "idle" /\ UNCHANGED <<apiKeys, usedIds, received>>
  BY DEF LoadPolicies, tables
<1>2. PICK in \in Inputs :
       LET active == {p \in policies : p.tenant = in.tenant /\ p.isActive}
           loaded == [Idle EXCEPT !.input = in, !.snapshot = active,
                                  !.stage = "evaluating"]
       IN req' = [req EXCEPT ![r] =
                    IF active = {} THEN Decided(loaded, "ALLOWED", NoPolicy)
                                   ELSE loaded]
  BY DEF LoadPolicies
<1> DEFINE active == {p \in policies : p.tenant = in.tenant /\ p.isActive}
           loaded == [Idle EXCEPT !.input = in, !.snapshot = active,
                                  !.stage = "evaluating"]
           h == IF active = {} THEN Decided(loaded, "ALLOWED", NoPolicy)
                               ELSE loaded
<1>3. req' = [req EXCEPT ![r] = h]
  BY <1>2
<1>4. h.key = NoKey
  BY DEF Idle, Decided
<1>5. ~Received(r)
  BY <1>1 DEF IInv, ReceivedInv
<1> HIDE DEF h
<1> QED
  BY <1>1, <1>3, <1>4, <1>5, OneKeepsKey DEF KeepsKey, IInv

\* A handler that has not come to the key has none.
LEMMA NoKeyYet ==
  ASSUME KeyUseInv, NEW r \in Requests, req[r].stage \notin Holding
  PROVE  req[r].key = NoKey
  BY DEF KeyUseInv, HeldKeyFits

LEMMA EvaluationKeepsKey ==
  ASSUME IInv, KeyUseInv, NEW r \in Requests,
         EvaluatePolicy(r) \/ EvaluateTokenQuota(r) \/ LogPolicyDecision(r)
  PROVE  KeyUseInv'
<1>1. /\ req[r].stage \in {"evaluating", "readTokens", "logDecision"}
      /\ UNCHANGED <<apiKeys, usedIds, received>>
  BY DEF EvaluatePolicy, EvaluateTokenQuota, LogPolicyDecision, tables
<1>2. req[r].key = NoKey /\ req[r] \in Handler
  BY <1>1, NoKeyYet DEF Holding, Using, IInv, TypeOK
<1>3. ASSUME NEW p, Match(r, p) PROVE KeyUseInv'
  <2> DEFINE h == [req[r] EXCEPT !.policy = p, !.decision = Decision(p.action),
                                 !.stage = "logDecision"]
  <2>1. req' = [req EXCEPT ![r] = h] /\ h.key = NoKey
    BY <1>2, <1>3 DEF Match, Handler
  <2> HIDE DEF h
  <2> QED
    BY <1>1, <1>2, <2>1, OneKeepsKey DEF KeepsKey, IInv
<1>4. ASSUME NEW p, Pass(r, p) PROVE KeyUseInv'
  <2> DEFINE visited == [req[r] EXCEPT !.passed = @ \cup {p},
                                       !.stage = "evaluating"]
             h == IF visited.passed = visited.snapshot
                    THEN Decided(visited, "ALLOWED", NoPolicy) ELSE visited
  <2>1. req' = [req EXCEPT ![r] = h] /\ h.key = NoKey
    BY <1>2, <1>4 DEF Pass, Handler, Decided
  <2> HIDE DEF h
  <2> QED
    BY <1>1, <1>2, <2>1, OneKeepsKey DEF KeepsKey, IInv
<1>5. ASSUME NEW p, req' = [req EXCEPT ![r].stage = "readTokens", ![r].policy = p]
      PROVE  KeyUseInv'
  <2> DEFINE h == [req[r] EXCEPT !.stage = "readTokens", !.policy = p]
  <2>1. req' = [req EXCEPT ![r] = h] /\ h.key = NoKey
    BY <1>2, <1>5 DEF Handler
  <2> HIDE DEF h
  <2> QED
    BY <1>1, <1>2, <2>1, OneKeepsKey DEF KeepsKey, IInv
<1>6. CASE LogPolicyDecision(r)
  <2> DEFINE h == Decided(req[r], req[r].decision, req[r].policy)
  <2>1. req' = [req EXCEPT ![r] = h] /\ h.key = NoKey
    BY <1>2, <1>6 DEF LogPolicyDecision, Handler, Decided
  <2> HIDE DEF h
  <2> QED
    BY <1>1, <1>2, <2>1, OneKeepsKey DEF KeepsKey, IInv
<1> QED
  BY <1>3, <1>4, <1>5, <1>6 DEF EvaluatePolicy, EvaluateTokenQuota

\* A handler ends, or goes on with a key that was stamped, or with none.
LEMMA ProceedKeepsKey ==
  ASSUME IInv, KeyUseInv, NEW r \in Requests, NEW h,
         req' = [req EXCEPT ![r] = h], UNCHANGED <<apiKeys, usedIds, received>>,
         h.key = req[r].key, h.input = req[r].input,
         h.stage = "done" \/ (h.stage \in Using /\ req[r].stage \in Using)
  PROVE  KeyUseInv'
<1>1. KeepsKey(req[r], h, r)
  BY DEF KeepsKey, Holding, Using, Stamped
<1> QED
  BY <1>1, OneKeepsKey DEF IInv

LEMMA AnswerKeepsKey ==
  ASSUME IInv, KeyUseInv, NEW r \in Requests, NEW reply, Answer(r, reply),
         UNCHANGED <<apiKeys, usedIds, received>>
  PROVE  KeyUseInv'
<1> DEFINE h == [req[r] EXCEPT !.stage = "done", !.reply = reply]
<1>1. req' = [req EXCEPT ![r] = h]
  BY DEF Answer
<1>2. h.stage = "done" /\ h.key = req[r].key /\ h.input = req[r].input
  BY DEF IInv, TypeOK, Handler
<1> HIDE DEF h
<1> QED
  BY <1>1, <1>2, ProceedKeepsKey

LEMMA LogKeepsKey ==
  ASSUME IInv, KeyUseInv, NEW r \in Requests,
         LogDenied(r) \/ LogSuccess(r) \/ LogFailed(r)
  PROVE  KeyUseInv'
  BY AnswerKeepsKey DEF LogDenied, LogSuccess, LogFailed, CreateAiLog

LEMMA RespondKeepsKey ==
  ASSUME IInv, KeyUseInv, NEW r \in Requests, Respond(r)
  PROVE  KeyUseInv'
<1>1. req[r].stage \in Using /\ UNCHANGED <<apiKeys, usedIds, received>>
  BY DEF Respond, ProviderAnswers, ProviderFails, Using, tables
<1>2. CASE ProviderFails(r)
  <2> DEFINE h == [req[r] EXCEPT !.stage = "logFailed"]
  <2>1. req' = [req EXCEPT ![r] = h]
    BY <1>2 DEF ProviderFails, Enter
  <2>2. h.stage = "logFailed" /\ h.key = req[r].key /\ h.input = req[r].input
    BY DEF IInv, TypeOK, Handler
  <2> HIDE DEF h
  <2> QED
    BY <1>1, <2>1, <2>2, ProceedKeepsKey DEF Using
<1>3. CASE ProviderAnswers(r)
  <2>1. PICK t : req' = [req EXCEPT ![r].stage = "logSuccess", ![r].tokens = t]
    BY <1>3 DEF ProviderAnswers
  <2> DEFINE h == [req[r] EXCEPT !.stage = "logSuccess", !.tokens = t]
  <2>2. req' = [req EXCEPT ![r] = h]
    BY <2>1
  <2>3. h.stage = "logSuccess" /\ h.key = req[r].key /\ h.input = req[r].input
    BY DEF IInv, TypeOK, Handler
  <2> HIDE DEF h
  <2> QED
    BY <1>1, <2>2, <2>3, ProceedKeepsKey DEF Using
<1> QED
  BY <1>2, <1>3 DEF Respond

\* The key comes from a row of the caller's tenant and of the provider asked.
LEMMA FindKeyKeepsKey ==
  ASSUME IInv, TablesInv, KeyUseInv, NEW r \in Requests, FindKey(r)
  PROVE  KeyUseInv'
<1>1. req[r].stage = "findKey" /\ UNCHANGED <<apiKeys, usedIds, received>>
  BY DEF FindKey, tables
<1>2. CASE Answer(r, "badRequest")
  BY <1>1, <1>2, AnswerKeepsKey
<1>3. CASE \E k \in ActiveKeys(req[r].input) :
             req' = [req EXCEPT ![r].key = k, ![r].stage = "touchKey"]
  <2>1. PICK k \in ActiveKeys(req[r].input) :
          req' = [req EXCEPT ![r].key = k, ![r].stage = "touchKey"]
    BY <1>3
  <2> DEFINE h == [req[r] EXCEPT !.key = k, !.stage = "touchKey"]
  <2>2. \A q \in Requests : req'[q] = IF q = r THEN h ELSE req[q]
    BY <2>1 DEF IInv, TypeOK
  <2>3. h.key = k /\ h.stage = "touchKey" /\ h.input = req[r].input
    BY DEF IInv, TypeOK, Handler
  <2> HIDE DEF h
  <2>4. HeldKeyFits(h, usedIds')
    BY <1>1, <2>3 DEF ActiveKeys, HeldKeyFits, TablesInv, IdsAreUsed, Holding
  <2>5. ~Received(r)
    BY <1>1 DEF IInv, ReceivedInv
  <2>6. ASSUME NEW q \in Requests
        PROVE  /\ HeldKeyFits(req'[q], usedIds')
               /\ req'[q].key # NoKey /\ Stamped(q)' => ShowsUse(apiKeys', req'[q].key.id)
    <3>1. Received(q)' <=> Received(q)
      BY <1>1 DEF Received
    <3>2. CASE q = r
      BY <2>2, <2>3, <2>4, <2>5, <3>1, <3>2 DEF Stamped, Using, HeldKeyFits
    <3>3. CASE q # r
      BY <1>1, <2>2, <3>1, <3>3 DEF KeyUseInv, HeldKeyFits, Stamped
    <3> QED
      BY <3>2, <3>3
  <2>7. ASSUME NEW c \in received, c.secret # NoKey
        PROVE  req'[c.request].key # NoKey /\ req'[c.request].key.secret = c.secret
    <3>1. c.request \in Requests \ {r}
      BY <2>5 DEF Received, IInv, TypeOK
    <3> QED
      BY <2>2, <2>7, <3>1 DEF KeyUseInv
  <2> QED
    BY <1>1, <2>6, <2>7 DEF KeyUseInv
<1> QED
  BY <1>2, <1>3 DEF FindKey

\* The stamp is on the row before the key is used, for as long as it lives.
LEMMA TouchKeyKeepsKey ==
  ASSUME IInv, KeyUseInv, NEW r \in Requests, TouchKey(r)
  PROVE  KeyUseInv'
<1>1. req[r].stage = "touchKey" /\ UNCHANGED <<usedIds, received>>
  BY DEF TouchKey
<1>2. CASE Answer(r, "notFound") /\ UNCHANGED apiKeys
  BY <1>1, <1>2, AnswerKeepsKey
<1>3. CASE Enter(r, "forward") /\ apiKeys' =
             {IF k.id = req[r].key.id
                THEN [k EXCEPT !.lastUsedAt = now] ELSE k : k \in apiKeys}
  <2> DEFINE h == [req[r] EXCEPT !.stage = "forward"]
  <2>1. \A q \in Requests : req'[q] = IF q = r THEN h ELSE req[q]
    BY <1>3 DEF Enter, IInv, TypeOK
  <2>2. h.stage = "forward" /\ h.key = req[r].key /\ h.input = req[r].input
    BY DEF IInv, TypeOK, Handler
  <2> HIDE DEF h
  <2>3. \A x \in apiKeys' : \E k \in apiKeys :
          /\ x.id = k.id
          /\ x.lastUsedAt = IF k.id = req[r].key.id THEN now ELSE k.lastUsedAt
    BY <1>3 DEF IInv, TypeOK, KeyRow
  <2>4. now # NeverUsed
    BY DEF IInv, TypeOK, NeverUsed
  <2>5. ShowsUse(apiKeys', req[r].key.id) /\ \A id : ShowsUse(apiKeys, id) => ShowsUse(apiKeys', id)
    BY <2>3, <2>4 DEF ShowsUse
  <2>6. ASSUME NEW q \in Requests
        PROVE  /\ HeldKeyFits(req'[q], usedIds')
               /\ req'[q].key # NoKey /\ Stamped(q)' => ShowsUse(apiKeys', req'[q].key.id)
    <3>1. Received(q)' <=> Received(q)
      BY <1>1 DEF Received
    <3>2. CASE q = r
      BY <1>1, <2>1, <2>2, <2>5, <3>2 DEF KeyUseInv, HeldKeyFits, Holding, Using
    <3>3. CASE q # r
      BY <1>1, <2>1, <2>5, <3>1, <3>3 DEF KeyUseInv, HeldKeyFits, Stamped
    <3> QED
      BY <3>2, <3>3
  <2>7. ASSUME NEW c \in received, c.secret # NoKey
        PROVE  req'[c.request].key # NoKey /\ req'[c.request].key.secret = c.secret
    BY <2>1, <2>2, <2>7 DEF KeyUseInv, IInv, TypeOK
  <2> QED
    BY <1>1, <2>6, <2>7 DEF KeyUseInv
<1> QED
  BY <1>2, <1>3 DEF TouchKey

LEMMA ForwardKeepsKey ==
  ASSUME IInv, KeyUseInv, NEW r \in Requests, Forward(r)
  PROVE  KeyUseInv'
<1> DEFINE h == [req[r] EXCEPT !.stage = "calling"]
           sent == [request |-> r, secret |-> SecretOf(req[r])]
<1>1. /\ req[r].stage = "forward" /\ UNCHANGED <<apiKeys, usedIds>>
      /\ received' = received \cup {sent}
      /\ \A q \in Requests : req'[q] = IF q = r THEN h ELSE req[q]
  BY DEF Forward, Enter, tables, IInv, TypeOK
<1>2. h.stage = "calling" /\ h.key = req[r].key /\ h.input = req[r].input
  BY DEF IInv, TypeOK, Handler
<1>3. sent.request = r /\ sent.secret = SecretOf(req[r])
  OBVIOUS
<1> HIDE DEF h, sent
<1>4. ASSUME NEW q \in Requests
      PROVE  /\ HeldKeyFits(req'[q], usedIds')
             /\ req'[q].key # NoKey /\ Stamped(q)' => ShowsUse(apiKeys', req'[q].key.id)
  <2>1. CASE q = r
    BY <1>1, <1>2, <2>1 DEF KeyUseInv, HeldKeyFits, Holding, Using, Stamped
  <2>2. CASE q # r
    <3>1. Received(q)' <=> Received(q)
      BY <1>1, <1>3, <2>2 DEF Received
    <3> QED
      BY <1>1, <2>2, <3>1 DEF KeyUseInv, HeldKeyFits, Stamped
  <2> QED
    BY <2>1, <2>2
<1>5. ASSUME NEW c \in received', c.secret # NoKey
      PROVE  req'[c.request].key # NoKey /\ req'[c.request].key.secret = c.secret
  <2>1. CASE c = sent
    BY <1>1, <1>2, <1>3, <1>5, <2>1 DEF SecretOf
  <2>2. CASE c \in received
    BY <1>1, <1>2, <1>5, <2>2 DEF KeyUseInv, IInv, TypeOK
  <2> QED
    BY <1>1, <2>1, <2>2
<1> QED
  BY <1>4, <1>5 DEF KeyUseInv

LEMMA DatabaseFailsKeepsKey ==
  ASSUME IInv, KeyUseInv, NEW r \in Requests, DatabaseFails(r)
  PROVE  KeyUseInv'
<1>1. UNCHANGED <<apiKeys, usedIds, received>>
  BY DEF DatabaseFails, tables
<1>2. CASE req[r].stage = "idle"
  <2>1. PICK in \in Inputs :
          req' = [req EXCEPT ![r] = [Idle EXCEPT !.input = in,
                    !.stage = "done", !.reply = "error"]]
    BY <1>2 DEF DatabaseFails
  <2> DEFINE h == [Idle EXCEPT !.input = in, !.stage = "done", !.reply = "error"]
  <2>2. h.key = NoKey
    BY DEF Idle
  <2>3. ~Received(r)
    BY <1>2 DEF IInv, ReceivedInv
  <2> HIDE DEF h
  <2>4. KeepsKey(req[r], h, r)
    BY <2>2, <2>3 DEF KeepsKey
  <2> QED
    BY <1>1, <2>1, <2>4, OneKeepsKey DEF IInv, h
<1>3. CASE req[r].stage # "idle"
  BY <1>1, <1>3, AnswerKeepsKey DEF DatabaseFails
<1> QED
  BY <1>2, <1>3

LEMMA CrashKeepsKey ==
  ASSUME IInv, KeyUseInv, Crash
  PROVE  KeyUseInv'
<1>1. /\ UNCHANGED <<apiKeys, usedIds, received>>
      /\ req' = [r \in Requests |->
                   IF r \in InFlight
                     THEN [req[r] EXCEPT !.stage = "done", !.reply = "lost"]
                     ELSE req[r]]
  BY DEF Crash, tables
<1>2. ASSUME NEW r \in Requests PROVE KeepsKey(req[r], req'[r], r)
  <2>1. /\ req'[r].stage = IF r \in InFlight THEN "done" ELSE req[r].stage
        /\ req'[r].key = req[r].key /\ req'[r].input = req[r].input
    BY <1>1 DEF IInv, TypeOK, Handler
  <2> QED
    BY <2>1 DEF KeepsKey, KeyUseInv, HeldKeyFits, Holding, Using, Stamped
<1> QED
  BY <1>1, <1>2, HandlersKeepKeys DEF IInv

\* Administrators never make a row forget its use, and a new row has a new id.
LEMMA AdministerKeepsKey ==
  ASSUME IInv, KeyUseInv, NEW a \in Admins, Administer(a)
  PROVE  KeyUseInv'
<1>1. UNCHANGED <<req, received>> /\ usedIds \subseteq usedIds'
  BY DEF Administer, CreatePolicy, UpdatePolicy, RemovePolicy, CreateKey,
         RotateKey, RemoveKey, BeginToggle, EndToggle, tables
<1>2. \A x \in apiKeys' : x.id \in usedIds =>
        \E k \in apiKeys : k.id = x.id /\ k.lastUsedAt = x.lastUsedAt
  <2>1. CASE UNCHANGED apiKeys \/ RemoveKey(a)
    BY <2>1 DEF RemoveKey
  <2>2. CASE CreateKey(a)
    BY <2>2 DEF CreateKey
  <2>3. CASE RotateKey(a)
    <3>1. PICK k \in apiKeys, s \in Secrets :
            apiKeys' = (apiKeys \ {k}) \cup {[k EXCEPT !.secret = s]}
      BY <2>3 DEF RotateKey
    <3>2. /\ [k EXCEPT !.secret = s].id = k.id
          /\ [k EXCEPT !.secret = s].lastUsedAt = k.lastUsedAt
      BY DEF IInv, TypeOK, KeyRow
    <3> QED
      BY <3>1, <3>2
  <2>4. CASE EndToggle(a)
    <3>1. CASE apiKeys' = Toggled(apiKeys, toggling[a])
      BY <3>1 DEF Toggled, IInv, TypeOK, KeyRow
    <3> QED
      BY <2>1, <2>4, <3>1 DEF EndToggle
  <2> QED
    BY <2>1, <2>2, <2>3, <2>4
    DEF Administer, CreatePolicy, UpdatePolicy, RemovePolicy, BeginToggle, tables
<1> QED
  BY <1>1, <1>2, RowsKeepUse DEF IInv

LEMMA NextKeepsKey ==
  ASSUME IInv, TablesInv, KeyUseInv, [Next]_vars
  PROVE  KeyUseInv'
<1>1. CASE UNCHANGED <<apiKeys, usedIds, req, received>>
  BY <1>1, RowsKeepUse DEF IInv
<1>2. ASSUME NEW r \in Requests,
             LoadPolicies(r) \/ Handle(r) \/ Respond(r) \/ DatabaseFails(r)
      PROVE  KeyUseInv'
  BY <1>2, LoadKeepsKey, EvaluationKeepsKey, LogKeepsKey, FindKeyKeepsKey,
     TouchKeyKeepsKey, ForwardKeepsKey, RespondKeepsKey, DatabaseFailsKeepsKey
  DEF Handle
<1>3. Tick \/ UNCHANGED vars => UNCHANGED <<apiKeys, usedIds, req, received>>
  BY DEF Tick, tables, vars
<1> QED
  BY <1>1, <1>2, <1>3, AdministerKeepsKey, CrashKeepsKey DEF Next

\* A credential leaves only for a caller of the tenant it was stored for, and
\* to the provider it was stored for, whatever rotations, removals and toggles
\* overlap with the lookup; and its row, while it lives, shows that it was used.
THEOREM KeyUseRecorded == Spec => []KeyUseIsRecorded
<1>1. Init => KeyUseInv
  BY DEF Init, KeyUseInv, HeldKeyFits, Idle
<1>2. IInv /\ TablesInv /\ KeyUseInv /\ [Next]_vars => KeyUseInv'
  BY NextKeepsKey
<1>3. ASSUME IInv, KeyUseInv PROVE KeyUseIsRecorded
  <2>1. ASSUME NEW c \in received, c.secret # NoKey
        PROVE  LET h == req[c.request] IN
               /\ h.key.secret = c.secret
               /\ h.key.tenant = h.input.tenant
               /\ h.key.provider = ProviderOf(h.input)
               /\ \A k \in apiKeys : k.id = h.key.id => k.lastUsedAt # NeverUsed
    <3>1. c.request \in Requests /\ Stamped(c.request)
      BY <1>3 DEF IInv, TypeOK, Stamped, Received
    <3> QED
      BY <1>3, <2>1, <3>1 DEF KeyUseInv, HeldKeyFits, ShowsUse
  <2> QED
    BY <2>1 DEF KeyUseIsRecorded
<1> QED
  BY <1>1, <1>2, <1>3, InvariantHolds, TablesInvariant, PTL DEF Spec
-----------------------------------------------------------------------------
(* The limits: what the requests in flight may still add to a window        *)

Flying(h) == h.stage \notin {"idle", "done"}
Reading(p, h) == h.stage = "readTokens" /\ h.policy = p

\* The rows that a policy which has let them pass counts for an input, and the
\* requests it has let pass that may still add one.
RateCounted(p, in, rows, time, known) ==
  {row \in RateRows(p.rules, in, rows, time) : p \in known[row.request].passed}
QuotaCounted(p, in, rows, time, known) ==
  {row \in QuotaRows(p.rules, in, rows, time) : p \in known[row.request].passed}
RatePending(p, in, known) ==
  {r \in Requests : /\ Flying(known[r]) /\ p \in known[r].passed
                    /\ known[r].input.tenant = in.tenant
                    /\ p.rules.scope = "user" => known[r].input.user = in.user}
TokenPending(p, in, known) ==
  {r \in Requests : /\ Flying(known[r]) /\ p \in known[r].passed
                    /\ known[r].input.tenant = in.tenant}
QuotaPending(p, in, known) ==
  {r \in Requests : /\ Flying(known[r])
                    /\ p \in known[r].passed \/ Reading(p, known[r])
                    /\ known[r].input.tenant = in.tenant}

\* Rows and requests together stay within the limit and those in flight.
Fits(counted, pending, max) ==
  Cardinality(counted) + Cardinality(pending) <= max - 1 + MaxInFlight
FitsTokens(counted, pending, max) ==
  TokenSum(counted) + MaxTokens * Cardinality(pending)
    <= max - 1 + MaxTokens * MaxInFlight

RateRoom(p, in, rows, time, known) ==
  HasWindow(p) =>
    Fits(RateCounted(p, in, rows, time, known), RatePending(p, in, known),
         p.rules.maxRequests)
QuotaRoom(p, in, rows, time, known) ==
  HasPeriod(p) /\ p.rules.maxRequests # 0 =>
    Fits(QuotaCounted(p, in, rows, time, known), QuotaPending(p, in, known),
         p.rules.maxRequests)
TokenRoom(p, in, rows, time, known) ==
  HasPeriod(p) /\ p.rules.maxTokens # 0 =>
    FitsTokens(QuotaCounted(p, in, rows, time, known),
               TokenPending(p, in, known), p.rules.maxTokens)

RoomInv(rows, time, known) ==
  \A p \in PolicyRow, in \in Inputs \cup {NoInput} :
    /\ RateRoom(p, in, rows, time, known)
    /\ QuotaRoom(p, in, rows, time, known)
    /\ TokenRoom(p, in, rows, time, known)

WorkInv(known) ==
  \A r \in Requests :
    /\ known[r].tokens <= MaxTokens
    /\ known[r].stage = "readTokens" => HasPeriod(known[r].policy)
FlightInv(known) ==
  LET flying == {r \in Requests : Flying(known[r])} IN
  IsFiniteSet(flying) /\ Cardinality(flying) <= MaxInFlight
RowsInv(rows, known) ==
  /\ IsFiniteSet(rows) /\ IsFiniteSet(TokensOf(rows))
  /\ \A row \in rows : known[row.request].stage = "done"

LimitsInv ==
  FlightInv(req) /\ RowsInv(aiLog, req) /\ WorkInv(req) /\ RoomInv(aiLog, now, req)

-----------------------------------------------------------------------------
(* Counting *)

LEMMA SubsetCounts ==
  ASSUME NEW S, IsFiniteSet(S), NEW T \in SUBSET S
  PROVE  /\ Cardinality(S) \in Nat /\ Cardinality(T) \in Nat
         /\ Cardinality(T) <= Cardinality(S)
BY FS_Subset, FS_CardinalityType

LEMMA TimesMonotone ==
  \A a, b, c \in Nat : a <= b => c * a <= c * b /\ c * a \in Nat /\ c * b \in Nat
OBVIOUS

\* Nothing is added.
LEMMA FitsLess ==
  ASSUME NEW W, IsFiniteSet(W), NEW F, IsFiniteSet(F), NEW max \in Nat,
         NEW V \in SUBSET W, NEW G \in SUBSET F
  PROVE  /\ Fits(W, F, max) => Fits(V, G, max)
         /\ IsFiniteSet(TokensOf(W)) /\ FitsTokens(W, F, max)
            => FitsTokens(V, G, max)
<1>0. MaxInFlight \in Nat /\ MaxTokens \in Nat /\ MaxTokens * MaxInFlight \in Nat
  BY GatewayConstantsAssumption
<1>1. /\ Cardinality(W) \in Nat /\ Cardinality(V) \in Nat
      /\ Cardinality(V) <= Cardinality(W)
  BY SubsetCounts
<1>2. /\ Cardinality(F) \in Nat /\ Cardinality(G) \in Nat
      /\ Cardinality(G) <= Cardinality(F)
  BY SubsetCounts
<1>3. Fits(W, F, max) => Fits(V, G, max)
  BY <1>0, <1>1, <1>2 DEF Fits
<1>4. ASSUME IsFiniteSet(TokensOf(W)), FitsTokens(W, F, max)
      PROVE  FitsTokens(V, G, max)
  <2>1. TokensOf(V) \in SUBSET TokensOf(W)
    BY DEF TokensOf
  <2>2. /\ TokenSum(W) \in Nat /\ TokenSum(V) \in Nat
        /\ TokenSum(V) <= TokenSum(W)
    BY <1>4, <2>1, SubsetCounts DEF TokenSum
  <2>3. /\ MaxTokens * Cardinality(G) <= MaxTokens * Cardinality(F)
        /\ MaxTokens * Cardinality(G) \in Nat /\ MaxTokens * Cardinality(F) \in Nat
    BY <1>0, <1>2, TimesMonotone
  <2> DEFINE x == MaxTokens * Cardinality(G)
             y == MaxTokens * Cardinality(F)
             z == MaxTokens * MaxInFlight
  <2>4. x \in Nat /\ y \in Nat /\ x <= y /\ z \in Nat
    BY <1>0, <2>3
  <2>5. TokenSum(W) + y <= max - 1 + z
    BY <1>4 DEF FitsTokens
  <2> HIDE DEF x, y, z
  <2>6. TokenSum(V) + x <= max - 1 + z
    BY <2>2, <2>4, <2>5
  <2> QED
    BY <2>6 DEF FitsTokens, x, z
<1> QED
  BY <1>3, <1>4

\* A request passes while the limit is not reached, and is in flight then.
LEMMA FitsJoined ==
  ASSUME NEW R, NEW W \in SUBSET R, IsFiniteSet(R), NEW max \in Nat,
         NEW L, IsFiniteSet(L), NEW F \in SUBSET L, Cardinality(L) <= MaxInFlight
  PROVE  /\ ~(Cardinality(R) >= max) => Fits(W, F, max)
         /\ IsFiniteSet(TokensOf(R)) /\ ~(TokenSum(R) >= max)
            => FitsTokens(W, F, max)
<1>0. MaxInFlight \in Nat /\ MaxTokens \in Nat
  BY GatewayConstantsAssumption
<1>1. /\ Cardinality(R) \in Nat /\ Cardinality(W) \in Nat
      /\ Cardinality(W) <= Cardinality(R)
  BY SubsetCounts
<1>2. Cardinality(F) \in Nat /\ Cardinality(F) <= MaxInFlight
  BY <1>0, SubsetCounts
<1>3. ~(Cardinality(R) >= max) => Fits(W, F, max)
  BY <1>0, <1>1, <1>2 DEF Fits
<1>4. ASSUME IsFiniteSet(TokensOf(R)), ~(TokenSum(R) >= max)
      PROVE  FitsTokens(W, F, max)
  <2>1. TokensOf(W) \in SUBSET TokensOf(R)
    BY DEF TokensOf
  <2>2. /\ TokenSum(R) \in Nat /\ TokenSum(W) \in Nat
        /\ TokenSum(W) <= TokenSum(R)
    BY <1>4, <2>1, SubsetCounts DEF TokenSum
  <2> DEFINE x == MaxTokens * Cardinality(F)
             z == MaxTokens * MaxInFlight
  <2>3. x \in Nat /\ z \in Nat /\ x <= z
    BY <1>0, <1>2, TimesMonotone
  <2> HIDE DEF x, z
  <2>4. TokenSum(W) + x <= max - 1 + z
    BY <1>4, <2>2, <2>3
  <2> QED
    BY <2>4 DEF FitsTokens, x, z
<1> QED
  BY <1>3, <1>4

\* The tokens of one more row.
LEMMA TokensAdded ==
  ASSUME NEW W, IsFiniteSet(TokensOf(W)), NEW row, row.tokens \in Nat
  PROVE  /\ IsFiniteSet(TokensOf(W \cup {row}))
         /\ TokenSum(W) \in Nat
         /\ TokenSum(W \cup {row}) \in Nat
         /\ TokenSum(W \cup {row}) <= TokenSum(W) + row.tokens
<1> DEFINE own == {row} \X (1..row.tokens)
<1>1. IsFiniteSet(1..row.tokens) /\ Cardinality(1..row.tokens) = row.tokens
  <2> DEFINE n == row.tokens
  <2>1. n \in Nat /\ n \in Int /\ 1 \in Int
    OBVIOUS
  <2> HIDE DEF n
  <2>2. IsFiniteSet(1..n) /\ Cardinality(1..n) = IF 1 > n THEN 0 ELSE n - 1 + 1
    BY <2>1, FS_Interval
  <2>3. (IF 1 > n THEN 0 ELSE n - 1 + 1) = n
    BY <2>1
  <2>4. IsFiniteSet(1..n) /\ Cardinality(1..n) = n
    BY <2>2, <2>3
  <2> QED
    BY <2>4 DEF n
<1>2. IsFiniteSet({row}) /\ Cardinality({row}) = 1
  BY FS_Singleton
<1>3. IsFiniteSet(own) /\ Cardinality(own) = Cardinality({row}) * Cardinality(1..row.tokens)
  BY <1>1, <1>2, FS_Product
<1>4. Cardinality(own) = row.tokens
  BY <1>1, <1>2, <1>3
<1>5. TokensOf(W \cup {row}) = TokensOf(W) \cup own
  BY DEF TokensOf
<1> HIDE DEF own
<1>6. /\ IsFiniteSet(TokensOf(W) \cup own)
      /\ Cardinality(TokensOf(W) \cup own) =
           Cardinality(TokensOf(W)) + Cardinality(own) - Cardinality(TokensOf(W) \cap own)
  BY <1>3, FS_Union
<1>7. IsFiniteSet(TokensOf(W) \cap own)
  BY <1>3, FS_Intersection
<1>8. /\ Cardinality(TokensOf(W)) \in Nat /\ Cardinality(TokensOf(W) \cap own) \in Nat
      /\ Cardinality(TokensOf(W) \cup own) \in Nat
  BY <1>6, <1>7, FS_CardinalityType
<1>9. /\ TokenSum(W) = Cardinality(TokensOf(W))
      /\ TokenSum(W \cup {row}) = Cardinality(TokensOf(W) \cup own)
  BY <1>5 DEF TokenSum
<1>10. TokenSum(W \cup {row}) <= TokenSum(W) + row.tokens
  BY <1>4, <1>6, <1>8, <1>9
<1> QED
  BY <1>5, <1>6, <1>8, <1>9, <1>10

\* A request that was pending writes its row and is pending no longer.
LEMMA FitsWritten ==
  ASSUME NEW W, IsFiniteSet(W), NEW F, IsFiniteSet(F), NEW max \in Nat,
         NEW row, NEW r, r \in F, row.tokens \in 0..MaxTokens,
         NEW G \in SUBSET (F \ {r})
  PROVE  /\ Fits(W, F, max) => Fits(W \cup {row}, G, max)
         /\ IsFiniteSet(TokensOf(W)) /\ FitsTokens(W, F, max)
            => FitsTokens(W \cup {row}, G, max)
<1>0. MaxInFlight \in Nat /\ MaxTokens \in Nat /\ MaxTokens * MaxInFlight \in Nat
  BY GatewayConstantsAssumption
<1>1. /\ Cardinality(W) \in Nat /\ Cardinality(W \cup {row}) \in Nat
      /\ Cardinality(W \cup {row}) <= Cardinality(W) + 1
  <2>1. /\ IsFiniteSet(W \cup {row})
        /\ Cardinality(W \cup {row}) =
             IF row \in W THEN Cardinality(W) ELSE Cardinality(W) + 1
    BY FS_AddElement
  <2>2. Cardinality(W) \in Nat /\ Cardinality(W \cup {row}) \in Nat
    BY <2>1, FS_CardinalityType
  <2> QED
    BY <2>1, <2>2
<1>2. /\ Cardinality(F) \in Nat /\ Cardinality(G) \in Nat
      /\ Cardinality(G) + 1 <= Cardinality(F)
  <2>1. IsFiniteSet(F \ {r}) /\ Cardinality(F \ {r}) = Cardinality(F) - 1
    BY FS_RemoveElement
  <2> QED
    BY <2>1, SubsetCounts, FS_CardinalityType
<1>3. Fits(W, F, max) => Fits(W \cup {row}, G, max)
  BY <1>0, <1>1, <1>2 DEF Fits
<1>4. ASSUME IsFiniteSet(TokensOf(W)), FitsTokens(W, F, max)
      PROVE  FitsTokens(W \cup {row}, G, max)
  <2>1. /\ TokenSum(W) \in Nat /\ TokenSum(W \cup {row}) \in Nat
        /\ TokenSum(W \cup {row}) <= TokenSum(W) + MaxTokens
    BY <1>0, <1>4, TokensAdded
  <2> DEFINE x == MaxTokens * Cardinality(G)
             y == MaxTokens * Cardinality(F)
             z == MaxTokens * MaxInFlight
  <2>2. x \in Nat /\ y \in Nat /\ z \in Nat
    BY <1>0, <1>2, TimesMonotone
  <2>3. x + MaxTokens <= y
    <3>1. MaxTokens * (Cardinality(G) + 1) <= MaxTokens * Cardinality(F)
      BY <1>0, <1>2, TimesMonotone
    <3>2. MaxTokens * (Cardinality(G) + 1) = x + MaxTokens
      BY <1>0, <1>2
    <3> QED
      BY <3>1, <3>2
  <2>4. TokenSum(W) + y <= max - 1 + z
    BY <1>4 DEF FitsTokens
  <2> HIDE DEF x, y, z
  <2>5. TokenSum(W \cup {row}) + x <= max - 1 + z
    BY <1>0, <2>1, <2>2, <2>3, <2>4
  <2> QED
    BY <2>5 DEF FitsTokens, x, z
<1> QED
  BY <1>3, <1>4
-----------------------------------------------------------------------------
(* Time passes, handlers go on, rows are written *)

LEMMA Division ==
  \A n \in Nat \ {0}, t \in Nat :
    /\ t = (n * (t \div n)) + (t % n)
    /\ t \div n \in Nat /\ t % n \in 0..(n - 1)
BY SMTT(30)

LEMMA TimesGap == \A n, a, b \in Nat : a < b => (n * a) + n <= n * b
BY SMTT(30)

\* A period never begins before the one that was current a moment ago.
LEMMA PeriodsAdvance ==
  ASSUME NEW n \in Nat \ {0}, NEW t \in Nat
  PROVE  t - (t % n) <= (t + 1) - ((t + 1) % n)
<1> DEFINE a == t \div n
           b == (t + 1) \div n
           r == t % n
           s == (t + 1) % n
           x == n * a
           y == n * b
<1>1. t = x + r /\ a \in Nat /\ r \in 0..(n - 1)
  BY Division
<1>2. t + 1 = y + s /\ b \in Nat /\ s \in 0..(n - 1)
  <2>1. t + 1 \in Nat
    OBVIOUS
  <2> HIDE DEF b, s, y
  <2> QED
    BY <2>1, Division DEF b, s, y
<1> HIDE DEF a, b, r, s
<1>3. b < a => y + n <= x
  BY <1>1, <1>2, TimesGap
<1>4. a <= b => x <= y
  BY <1>1, <1>2, TimesMonotone
<1>5. x \in Nat /\ y \in Nat
  BY <1>1, <1>2
<1> HIDE DEF x, y
<1>6. ~(b < a)
  BY <1>1, <1>2, <1>3, <1>5
<1>7. t - r <= (t + 1) - s
  BY <1>1, <1>2, <1>4, <1>5, <1>6
<1> QED
  BY <1>7 DEF r, s

LEMMA WindowsShrink ==
  ASSUME NEW p \in PolicyRow, NEW in, NEW rows \in SUBSET AiLogRow,
         NEW t \in Nat, NEW u \in {t, t + 1}
  PROVE  /\ RateRows(p.rules, in, rows, u) \in SUBSET RateRows(p.rules, in, rows, t)
         /\ HasPeriod(p) => QuotaRows(p.rules, in, rows, u)
                              \in SUBSET QuotaRows(p.rules, in, rows, t)
<1>1. \A row \in rows : row.time \in Nat
  BY DEF AiLogRow
<1>2. p.rules.windowSeconds \in Nat
  BY DEF PolicyRow, Rules
<1>3. RateRows(p.rules, in, rows, u) \in SUBSET RateRows(p.rules, in, rows, t)
  <2> DEFINE w == p.rules.windowSeconds
  <2>1. w \in Nat
    BY <1>2
  <2> HIDE DEF w
  <2>2. \A row \in rows : row.time >= u - w => row.time >= t - w
    BY <1>1, <2>1
  <2> QED
    BY <2>2 DEF RateRows, w
<1>4. ASSUME HasPeriod(p)
      PROVE  QuotaRows(p.rules, in, rows, u) \in SUBSET QuotaRows(p.rules, in, rows, t)
  <2> DEFINE n == PeriodLength[p.rules.period]
  <2>1. n \in Nat \ {0}
    BY <1>4, PolicyConstantsAssumption DEF HasPeriod
  <2> DEFINE x == PeriodStart(p.rules.period, t)
             y == PeriodStart(p.rules.period, u)
  <2>2. x = t - (t % n) /\ y = u - (u % n)
    BY DEF PeriodStart
  <2> HIDE DEF n
  <2>3. x <= y
    <3>1. CASE u = t
      BY <2>1, <2>2, <3>1
    <3>2. CASE u = t + 1
      BY <2>1, <2>2, <3>2, PeriodsAdvance
    <3> QED
      BY <3>1, <3>2
  <2>4. x \in Int /\ y \in Int
    BY <2>1, <2>2
  <2> HIDE DEF x, y
  <2>5. \A row \in rows : row.time >= y => row.time >= x
    BY <1>1, <2>3, <2>4
  <2> QED
    BY <2>5 DEF QuotaRows, x, y
<1> QED
  BY <1>3, <1>4

\* A handler goes on: it is let pass by a policy, or stops to read a second
\* time, only while the limit was not reached.
Advances(p, g, h, rows, time) ==
  /\ g.stage = "done" => h = g
  /\ Flying(h) /\ (p \in h.passed \/ Reading(p, h)) => Flying(g) /\ h.input = g.input
  /\ Flying(h) /\ p \in h.passed /\ p \notin g.passed =>
       /\ ~RateLimitMatch(p, h.input, rows, time)
       /\ ~TokenQuotaMatch(p, h.input, rows, time)
       /\ Reading(p, g) \/ ~RequestQuotaMatch(p, h.input, rows, time)
  /\ Reading(p, h) /\ ~Reading(p, g) => ~RequestQuotaMatch(p, h.input, rows, time)

LEMMA PendingFlies ==
  ASSUME NEW p, NEW in, NEW h, FlightInv(h)
  PROVE  LET L == {r \in Requests : Flying(h[r])} IN
         /\ IsFiniteSet(L) /\ Cardinality(L) <= MaxInFlight
         /\ RatePending(p, in, h) \in SUBSET L
         /\ QuotaPending(p, in, h) \in SUBSET L
         /\ TokenPending(p, in, h) \in SUBSET L
         /\ IsFiniteSet(RatePending(p, in, h))
         /\ IsFiniteSet(QuotaPending(p, in, h))
         /\ IsFiniteSet(TokenPending(p, in, h))
BY FS_Subset DEF FlightInv, RatePending, QuotaPending, TokenPending

LEMMA CountedRows ==
  ASSUME NEW p, NEW in, NEW rows, NEW t, NEW h, RowsInv(rows, h)
  PROVE  /\ IsFiniteSet(RateRows(p.rules, in, rows, t))
         /\ IsFiniteSet(QuotaRows(p.rules, in, rows, t))
         /\ IsFiniteSet(TokensOf(QuotaRows(p.rules, in, rows, t)))
         /\ IsFiniteSet(RateCounted(p, in, rows, t, h))
         /\ IsFiniteSet(QuotaCounted(p, in, rows, t, h))
         /\ IsFiniteSet(TokensOf(QuotaCounted(p, in, rows, t, h)))
<1>1. /\ RateRows(p.rules, in, rows, t) \in SUBSET rows
      /\ QuotaRows(p.rules, in, rows, t) \in SUBSET rows
      /\ RateCounted(p, in, rows, t, h) \in SUBSET rows
      /\ QuotaCounted(p, in, rows, t, h) \in SUBSET rows
  BY DEF RateRows, QuotaRows, RateCounted, QuotaCounted
<1>2. \A S \in SUBSET rows : IsFiniteSet(S)
  BY FS_Subset DEF RowsInv
<1>3. \A S \in SUBSET rows : TokensOf(S) \in SUBSET TokensOf(rows)
  BY DEF TokensOf
<1>4. \A S \in SUBSET rows : IsFiniteSet(TokensOf(S))
  BY <1>3, FS_Subset DEF RowsInv
<1> QED
  BY <1>1, <1>2, <1>4

LEMMA RoomAdvances ==
  ASSUME NEW rows \in SUBSET AiLogRow, NEW t \in Nat, NEW u \in {t, t + 1},
         NEW g \in [Requests -> Handler], NEW h \in [Requests -> Handler],
         RowsInv(rows, g), FlightInv(g), FlightInv(h), RoomInv(rows, t, g),
         t = u \/ g = h,
         \A p \in PolicyRow, r \in Requests : Advances(p, g[r], h[r], rows, t)
  PROVE  RoomInv(rows, u, h)
<1> SUFFICES ASSUME NEW p \in PolicyRow, NEW in \in Inputs \cup {NoInput}
             PROVE  /\ RateRoom(p, in, rows, u, h)
                    /\ QuotaRoom(p, in, rows, u, h)
                    /\ TokenRoom(p, in, rows, u, h)
  BY DEF RoomInv
<1> DEFINE L == {r \in Requests : Flying(h[r])}
<1>1. /\ RateRoom(p, in, rows, t, g) /\ QuotaRoom(p, in, rows, t, g)
      /\ TokenRoom(p, in, rows, t, g)
  BY DEF RoomInv
<1>2. \A row \in rows : h[row.request] = g[row.request]
  BY DEF RowsInv, Advances, AiLogRow
<1>3. p.rules.maxRequests \in Nat /\ p.rules.maxTokens \in Nat
  BY DEF PolicyRow, Rules
<1>4. /\ IsFiniteSet(L) /\ Cardinality(L) <= MaxInFlight
      /\ RatePending(p, in, h) \in SUBSET L
      /\ QuotaPending(p, in, h) \in SUBSET L
      /\ TokenPending(p, in, h) \in SUBSET L
      /\ IsFiniteSet(RatePending(p, in, g))
      /\ IsFiniteSet(QuotaPending(p, in, g))
      /\ IsFiniteSet(TokenPending(p, in, g))
  BY PendingFlies
<1>5. /\ IsFiniteSet(RateRows(p.rules, in, rows, t))
      /\ IsFiniteSet(QuotaRows(p.rules, in, rows, t))
      /\ IsFiniteSet(TokensOf(QuotaRows(p.rules, in, rows, t)))
      /\ IsFiniteSet(RateCounted(p, in, rows, t, g))
      /\ IsFiniteSet(QuotaCounted(p, in, rows, t, g))
      /\ IsFiniteSet(TokensOf(QuotaCounted(p, in, rows, t, g)))
  BY CountedRows
<1>6. /\ RateCounted(p, in, rows, u, h) \in SUBSET RateCounted(p, in, rows, t, g)
      /\ RateCounted(p, in, rows, u, h) \in SUBSET RateRows(p.rules, in, rows, t)
  <2>1. RateRows(p.rules, in, rows, u) \in SUBSET RateRows(p.rules, in, rows, t)
    BY WindowsShrink
  <2>2. RateRows(p.rules, in, rows, u) \in SUBSET rows
    BY DEF RateRows
  <2> QED
    BY <1>2, <2>1, <2>2 DEF RateCounted
<1>7. ASSUME HasPeriod(p)
      PROVE  /\ QuotaCounted(p, in, rows, u, h) \in SUBSET QuotaCounted(p, in, rows, t, g)
             /\ QuotaCounted(p, in, rows, u, h) \in SUBSET QuotaRows(p.rules, in, rows, t)
  <2>1. QuotaRows(p.rules, in, rows, u) \in SUBSET QuotaRows(p.rules, in, rows, t)
    BY <1>7, WindowsShrink
  <2>2. QuotaRows(p.rules, in, rows, u) \in SUBSET rows
    BY DEF QuotaRows
  <2> QED
    BY <1>2, <2>1, <2>2 DEF QuotaCounted
<1>8. RateRoom(p, in, rows, u, h)
  <2> SUFFICES ASSUME HasWindow(p)
               PROVE  Fits(RateCounted(p, in, rows, u, h), RatePending(p, in, h),
                           p.rules.maxRequests)
    BY DEF RateRoom
  <2>1. Fits(RateCounted(p, in, rows, t, g), RatePending(p, in, g), p.rules.maxRequests)
    BY <1>1 DEF RateRoom
  <2>2. CASE RatePending(p, in, h) \in SUBSET RatePending(p, in, g)
    <3> HIDE DEF L
    <3> QED
      BY <1>3, <1>4, <1>5, <1>6, <2>1, <2>2, FitsLess
  <2>3. CASE RatePending(p, in, h) \notin SUBSET RatePending(p, in, g)
    <3>1. PICK r \in RatePending(p, in, h) : r \notin RatePending(p, in, g)
      BY <2>3
    <3>2. /\ Flying(h[r]) /\ p \in h[r].passed /\ h[r].input.tenant = in.tenant
          /\ p.rules.scope = "user" => h[r].input.user = in.user
          /\ r \in Requests
      BY DEF RatePending
    <3>3. ~RateLimitMatch(p, h[r].input, rows, t)
      BY <3>1, <3>2 DEF Advances, RatePending
    <3>4. RateRows(p.rules, h[r].input, rows, t) = RateRows(p.rules, in, rows, t)
      BY <3>2 DEF RateRows
    <3>5. ~(Cardinality(RateRows(p.rules, in, rows, t)) >= p.rules.maxRequests)
      BY <3>3, <3>4 DEF RateLimitMatch
    <3> HIDE DEF L
    <3> QED
      BY <1>3, <1>4, <1>5, <1>6, <3>5, FitsJoined
  <2> QED
    BY <2>2, <2>3
<1>9. QuotaRoom(p, in, rows, u, h)
  <2> SUFFICES ASSUME HasPeriod(p), p.rules.maxRequests # 0
               PROVE  Fits(QuotaCounted(p, in, rows, u, h), QuotaPending(p, in, h),
                           p.rules.maxRequests)
    BY DEF QuotaRoom
  <2>1. Fits(QuotaCounted(p, in, rows, t, g), QuotaPending(p, in, g), p.rules.maxRequests)
    BY <1>1 DEF QuotaRoom
  <2>2. CASE QuotaPending(p, in, h) \in SUBSET QuotaPending(p, in, g)
    <3> HIDE DEF L
    <3> QED
      BY <1>3, <1>4, <1>5, <1>7, <2>1, <2>2, FitsLess
  <2>3. CASE QuotaPending(p, in, h) \notin SUBSET QuotaPending(p, in, g)
    <3>1. PICK r \in QuotaPending(p, in, h) : r \notin QuotaPending(p, in, g)
      BY <2>3
    <3>2. /\ Flying(h[r]) /\ (p \in h[r].passed \/ Reading(p, h[r]))
          /\ h[r].input.tenant = in.tenant /\ r \in Requests
      BY DEF QuotaPending
    <3>3. ~RequestQuotaMatch(p, h[r].input, rows, t)
      BY <3>1, <3>2 DEF Advances, QuotaPending
    <3>4. QuotaRows(p.rules, h[r].input, rows, t) = QuotaRows(p.rules, in, rows, t)
      BY <3>2 DEF QuotaRows
    <3>5. ~(Cardinality(QuotaRows(p.rules, in, rows, t)) >= p.rules.maxRequests)
      BY <3>3, <3>4 DEF RequestQuotaMatch
    <3> HIDE DEF L
    <3> QED
      BY <1>3, <1>4, <1>5, <1>7, <3>5, FitsJoined
  <2> QED
    BY <2>2, <2>3
<1>10. TokenRoom(p, in, rows, u, h)
  <2> SUFFICES ASSUME HasPeriod(p), p.rules.maxTokens # 0
               PROVE  FitsTokens(QuotaCounted(p, in, rows, u, h),
                                 TokenPending(p, in, h), p.rules.maxTokens)
    BY DEF TokenRoom
  <2>1. FitsTokens(QuotaCounted(p, in, rows, t, g), TokenPending(p, in, g),
                   p.rules.maxTokens)
    BY <1>1 DEF TokenRoom
  <2>2. CASE TokenPending(p, in, h) \in SUBSET TokenPending(p, in, g)
    <3> HIDE DEF L
    <3> QED
      BY <1>3, <1>4, <1>5, <1>7, <2>1, <2>2, FitsLess
  <2>3. CASE TokenPending(p, in, h) \notin SUBSET TokenPending(p, in, g)
    <3>1. PICK r \in TokenPending(p, in, h) : r \notin TokenPending(p, in, g)
      BY <2>3
    <3>2. /\ Flying(h[r]) /\ p \in h[r].passed
          /\ h[r].input.tenant = in.tenant /\ r \in Requests
      BY DEF TokenPending
    <3>3. ~TokenQuotaMatch(p, h[r].input, rows, t)
      BY <3>1, <3>2 DEF Advances, TokenPending
    <3>4. QuotaRows(p.rules, h[r].input, rows, t) = QuotaRows(p.rules, in, rows, t)
      BY <3>2 DEF QuotaRows
    <3>5. ~(TokenSum(QuotaRows(p.rules, in, rows, t)) >= p.rules.maxTokens)
      BY <3>3, <3>4 DEF TokenQuotaMatch
    <3> HIDE DEF L
    <3> QED
      BY <1>3, <1>4, <1>5, <1>7, <3>5, FitsJoined
  <2> QED
    BY <2>2, <2>3
<1> QED
  BY <1>8, <1>9, <1>10
\* A request writes its row and ends.
LEMMA RoomWritten ==
  ASSUME NEW rows \in SUBSET AiLogRow, NEW t \in Nat,
         NEW g \in [Requests -> Handler], NEW h \in [Requests -> Handler],
         RowsInv(rows, g), FlightInv(g), RoomInv(rows, t, g),
         NEW r \in Requests, Flying(g[r]), g[r].tokens \in 0..MaxTokens,
         \A q \in Requests \ {r} : h[q] = g[q],
         h[r].stage = "done", h[r].passed = g[r].passed,
         NEW row \in AiLogRow, row.request = r, row.tokens = g[r].tokens,
         row.tenant = g[r].input.tenant, row.user = g[r].input.user
  PROVE  RowsInv(rows \cup {row}, h) /\ FlightInv(h) /\ RoomInv(rows \cup {row}, t, h)
<1> DEFINE table == rows \cup {row}
<1>1. \A x \in rows : x.request \in Requests \ {r} /\ h[x.request] = g[x.request]
  BY DEF RowsInv, AiLogRow, Flying
<1>2. RowsInv(table, h)
  <2>1. IsFiniteSet(table)
    BY FS_AddElement DEF RowsInv
  <2>2. IsFiniteSet(TokensOf(table))
    BY TokensAdded DEF RowsInv, AiLogRow
  <2>3. \A x \in table : h[x.request].stage = "done"
    BY <1>1 DEF RowsInv
  <2> QED
    BY <2>1, <2>2, <2>3 DEF RowsInv
<1>3. FlightInv(h)
  <2> DEFINE L == {q \in Requests : Flying(g[q])}
             M == {q \in Requests : Flying(h[q])}
  <2>1. M \in SUBSET L
    BY DEF Flying
  <2>2. IsFiniteSet(L) /\ Cardinality(L) <= MaxInFlight
    BY DEF FlightInv
  <2> HIDE DEF L, M
  <2>3. IsFiniteSet(M) /\ Cardinality(M) <= MaxInFlight
    BY <2>1, <2>2, SubsetCounts, FS_Subset, GatewayConstantsAssumption
  <2> QED
    BY <2>3 DEF FlightInv, M
<1>4. ASSUME NEW p \in PolicyRow, NEW in \in Inputs \cup {NoInput}
      PROVE  /\ RateRoom(p, in, table, t, h)
             /\ QuotaRoom(p, in, table, t, h)
             /\ TokenRoom(p, in, table, t, h)
  <2>1. /\ RateRoom(p, in, rows, t, g) /\ QuotaRoom(p, in, rows, t, g)
        /\ TokenRoom(p, in, rows, t, g)
    BY DEF RoomInv
  <2>2. p.rules.maxRequests \in Nat /\ p.rules.maxTokens \in Nat
    BY DEF PolicyRow, Rules
  <2>3. /\ IsFiniteSet(RatePending(p, in, g))
        /\ IsFiniteSet(QuotaPending(p, in, g))
        /\ IsFiniteSet(TokenPending(p, in, g))
    BY PendingFlies
  <2>4. /\ IsFiniteSet(RateCounted(p, in, rows, t, g))
        /\ IsFiniteSet(QuotaCounted(p, in, rows, t, g))
        /\ IsFiniteSet(TokensOf(QuotaCounted(p, in, rows, t, g)))
    BY CountedRows
  <2>5. /\ RatePending(p, in, h) \in SUBSET (RatePending(p, in, g) \ {r})
        /\ QuotaPending(p, in, h) \in SUBSET (QuotaPending(p, in, g) \ {r})
        /\ TokenPending(p, in, h) \in SUBSET (TokenPending(p, in, g) \ {r})
    BY DEF RatePending, QuotaPending, TokenPending, Flying
  <2>6. /\ RatePending(p, in, h) \in SUBSET RatePending(p, in, g)
        /\ QuotaPending(p, in, h) \in SUBSET QuotaPending(p, in, g)
        /\ TokenPending(p, in, h) \in SUBSET TokenPending(p, in, g)
    BY <2>5
  <2>7. /\ RateCounted(p, in, table, t, h) \in SUBSET RateCounted(p, in, rows, t, g)
        \/ /\ r \in RatePending(p, in, g)
           /\ RateCounted(p, in, table, t, h) = RateCounted(p, in, rows, t, g) \cup {row}
    BY <1>1 DEF RateCounted, RateRows, RatePending
  <2>8. /\ QuotaCounted(p, in, table, t, h) \in SUBSET QuotaCounted(p, in, rows, t, g)
        \/ /\ r \in QuotaPending(p, in, g) /\ r \in TokenPending(p, in, g)
           /\ QuotaCounted(p, in, table, t, h) = QuotaCounted(p, in, rows, t, g) \cup {row}
    BY <1>1 DEF QuotaCounted, QuotaRows, QuotaPending, TokenPending
  <2>9. row.tokens \in 0..MaxTokens
    OBVIOUS
  <2> HIDE DEF table
  <2>10. RateRoom(p, in, table, t, h)
    <3> SUFFICES ASSUME HasWindow(p)
                 PROVE  Fits(RateCounted(p, in, table, t, h),
                             RatePending(p, in, h), p.rules.maxRequests)
      BY DEF RateRoom
    <3>1. Fits(RateCounted(p, in, rows, t, g), RatePending(p, in, g), p.rules.maxRequests)
      BY <2>1 DEF RateRoom
    <3>2. CASE RateCounted(p, in, table, t, h) \in SUBSET RateCounted(p, in, rows, t, g)
      BY <2>2, <2>3, <2>4, <2>6, <3>1, <3>2, FitsLess
    <3>3. CASE /\ r \in RatePending(p, in, g)
               /\ RateCounted(p, in, table, t, h) = RateCounted(p, in, rows, t, g) \cup {row}
      <4>1. Fits(RateCounted(p, in, rows, t, g) \cup {row},
                 RatePending(p, in, h), p.rules.maxRequests)
        BY <2>2, <2>3, <2>4, <2>5, <2>9, <3>1, <3>3, FitsWritten
      <4> QED
        BY <3>3, <4>1
    <3> QED
      BY <2>7, <3>2, <3>3
  <2>11. QuotaRoom(p, in, table, t, h)
    <3> SUFFICES ASSUME HasPeriod(p), p.rules.maxRequests # 0
                 PROVE  Fits(QuotaCounted(p, in, table, t, h),
                             QuotaPending(p, in, h), p.rules.maxRequests)
      BY DEF QuotaRoom
    <3>1. Fits(QuotaCounted(p, in, rows, t, g), QuotaPending(p, in, g), p.rules.maxRequests)
      BY <2>1 DEF QuotaRoom
    <3>2. CASE QuotaCounted(p, in, table, t, h) \in SUBSET QuotaCounted(p, in, rows, t, g)
      BY <2>2, <2>3, <2>4, <2>6, <3>1, <3>2, FitsLess
    <3>3. CASE /\ r \in QuotaPending(p, in, g)
               /\ QuotaCounted(p, in, table, t, h) = QuotaCounted(p, in, rows, t, g) \cup {row}
      <4>1. Fits(QuotaCounted(p, in, rows, t, g) \cup {row},
                 QuotaPending(p, in, h), p.rules.maxRequests)
        BY <2>2, <2>3, <2>4, <2>5, <2>9, <3>1, <3>3, FitsWritten
      <4> QED
        BY <3>3, <4>1
    <3> QED
      BY <2>8, <3>2, <3>3
  <2>12. TokenRoom(p, in, table, t, h)
    <3> SUFFICES ASSUME HasPeriod(p), p.rules.maxTokens # 0
                 PROVE  FitsTokens(QuotaCounted(p, in, table, t, h),
                             TokenPending(p, in, h), p.rules.maxTokens)
      BY DEF TokenRoom
    <3>1. FitsTokens(QuotaCounted(p, in, rows, t, g), TokenPending(p, in, g), p.rules.maxTokens)
      BY <2>1 DEF TokenRoom
    <3>2. CASE QuotaCounted(p, in, table, t, h) \in SUBSET QuotaCounted(p, in, rows, t, g)
      BY <2>2, <2>3, <2>4, <2>6, <3>1, <3>2, FitsLess
    <3>3. CASE /\ r \in TokenPending(p, in, g)
               /\ QuotaCounted(p, in, table, t, h) = QuotaCounted(p, in, rows, t, g) \cup {row}
      <4>1. FitsTokens(QuotaCounted(p, in, rows, t, g) \cup {row},
                 TokenPending(p, in, h), p.rules.maxTokens)
        BY <2>2, <2>3, <2>4, <2>5, <2>9, <3>1, <3>3, FitsWritten
      <4> QED
        BY <3>3, <4>1
    <3> QED
      BY <2>8, <3>2, <3>3
  <2> QED
    BY <2>10, <2>11, <2>12
<1> QED
  BY <1>2, <1>3, <1>4 DEF RoomInv

-----------------------------------------------------------------------------
(* The steps *)

\* Nothing is written: every handler advances or stands still.
LEMMA AdvanceKeepsLimits ==
  ASSUME IInv, IInv', LimitsInv, aiLog' = aiLog,
         now' = now \/ (now' = now + 1 /\ req' = req),
         FlightInv(req'), WorkInv(req'),
         \A r \in Requests : req[r].stage = "done" => req'[r] = req[r],
         \A p \in PolicyRow, r \in Requests :
           Advances(p, req[r], req'[r], aiLog, now)
  PROVE  LimitsInv'
<1>1. /\ aiLog \in SUBSET AiLogRow /\ now \in Nat /\ now' \in {now, now + 1}
      /\ req \in [Requests -> Handler] /\ req' \in [Requests -> Handler]
      /\ now = now' \/ req = req'
  BY DEF IInv, TypeOK
<1>2. RoomInv(aiLog, now', req')
  BY <1>1, RoomAdvances DEF LimitsInv
<1>3. RowsInv(aiLog, req')
  <2>1. \A row \in aiLog : row.request \in Requests /\ req[row.request].stage = "done"
    BY <1>1 DEF LimitsInv, RowsInv, AiLogRow
  <2> QED
    BY <2>1 DEF LimitsInv, RowsInv
<1> QED
  BY <1>2, <1>3 DEF LimitsInv
LEMMA FlightShrinks ==
  ASSUME NEW g, NEW h, FlightInv(g),
         \A q \in Requests : Flying(h[q]) => Flying(g[q])
  PROVE  FlightInv(h)
<1> DEFINE L == {q \in Requests : Flying(g[q])}
           M == {q \in Requests : Flying(h[q])}
<1>1. M \in SUBSET L
  OBVIOUS
<1>2. IsFiniteSet(L) /\ Cardinality(L) <= MaxInFlight
  BY DEF FlightInv
<1> HIDE DEF L, M
<1>3. IsFiniteSet(M) /\ Cardinality(M) <= MaxInFlight
  BY <1>1, <1>2, SubsetCounts, FS_Subset, GatewayConstantsAssumption
<1> QED
  BY <1>3 DEF FlightInv, M

LEMMA OneAdvances ==
  ASSUME IInv, IInv', LimitsInv, UNCHANGED <<aiLog, now>>,
         NEW r \in Requests, NEW h, req' = [req EXCEPT ![r] = h],
         req[r].stage # "done", h.tokens <= MaxTokens,
         h.stage = "readTokens" => HasPeriod(h.policy),
         \A p \in PolicyRow : Advances(p, req[r], h, aiLog, now),
         FlightInv(req')
  PROVE  LimitsInv'
<1>1. \A q \in Requests : req'[q] = IF q = r THEN h ELSE req[q]
  BY DEF IInv, TypeOK
<1>2. WorkInv(req')
  BY <1>1 DEF LimitsInv, WorkInv
<1>3. \A q \in Requests : req[q].stage = "done" => req'[q] = req[q]
  BY <1>1
<1>4. ASSUME NEW p \in PolicyRow, NEW q \in Requests
      PROVE  Advances(p, req[q], req'[q], aiLog, now)
  <2>1. CASE q = r
    BY <1>1, <2>1
  <2>2. CASE q # r
    <3>1. req'[q] = req[q]
      BY <1>1, <2>2
    <3> QED
      BY <3>1 DEF Advances, Reading, Flying
  <2> QED
    BY <2>1, <2>2
<1> QED
  BY <1>2, <1>3, <1>4, AdvanceKeepsLimits

\* A handler that has been evaluated, or ends.
LEMMA MovingKeepsLimits ==
  ASSUME IInv, IInv', LimitsInv, UNCHANGED <<aiLog, now>>,
         NEW r \in Requests, NEW h, req' = [req EXCEPT ![r] = h],
         req[r].stage # "done", h.stage # "readTokens", h.tokens <= MaxTokens,
         Flying(h) => /\ Flying(req[r]) /\ h.input = req[r].input
                      /\ h.passed = req[r].passed
  PROVE  LimitsInv'
<1>1. \A p \in PolicyRow : Advances(p, req[r], h, aiLog, now)
  BY DEF Advances, Reading
<1>2. FlightInv(req')
  <2>1. \A q \in Requests : req'[q] = IF q = r THEN h ELSE req[q]
    BY DEF IInv, TypeOK
  <2>2. \A q \in Requests : Flying(req'[q]) => Flying(req[q])
    BY <2>1
  <2> QED
    BY <2>2, FlightShrinks DEF LimitsInv
<1> QED
  BY <1>1, <1>2, OneAdvances

LEMMA LoadKeepsLimits ==
  ASSUME IInv, IInv', LimitsInv, NEW r \in Requests, LoadPolicies(r)
  PROVE  LimitsInv'
<1>1. req[r].stage = "idle" /\ UNCHANGED <<aiLog, now>>
  BY DEF LoadPolicies, tables
<1>2. PICK in \in Inputs :
       LET active == {p \in policies : p.tenant = in.tenant /\ p.isActive}
           loaded == [Idle EXCEPT !.input = in, !.snapshot = active,
                                  !.stage = "evaluating"]
       IN req' = [req EXCEPT ![r] =
                    IF active = {} THEN Decided(loaded, "ALLOWED", NoPolicy)
                                   ELSE loaded]
  BY DEF LoadPolicies
<1> DEFINE active == {p \in policies : p.tenant = in.tenant /\ p.isActive}
           loaded == [Idle EXCEPT !.input = in, !.snapshot = active,
                                  !.stage = "evaluating"]
           h == IF active = {} THEN Decided(loaded, "ALLOWED", NoPolicy)
                               ELSE loaded
<1>3. req' = [req EXCEPT ![r] = h]
  BY <1>2
<1>4. h.passed = {} /\ h.tokens = 0 /\ h.stage # "readTokens"
  BY StageAfterType DEF Idle, Decided
<1>5. FlightInv(req')
  <2> DEFINE L == InFlight
             M == {q \in Requests : Flying(req'[q])}
  <2>1. IsFiniteSet(L) /\ Cardinality(L) < MaxInFlight
    BY DEF LimitsInv, FlightInv, LoadPolicies, InFlight, Flying
  <2>2. M \in SUBSET (L \cup {r})
    <3>1. \A q \in Requests \ {r} : req'[q] = req[q]
      BY <1>3 DEF IInv, TypeOK
    <3> QED
      BY <3>1 DEF InFlight, Flying
  <2> HIDE DEF L, M
  <2>3. /\ IsFiniteSet(L \cup {r})
        /\ Cardinality(L \cup {r}) = IF r \in L THEN Cardinality(L) ELSE Cardinality(L) + 1
        /\ Cardinality(L) \in Nat
    BY <2>1, FS_AddElement, FS_CardinalityType
  <2>4. Cardinality(L \cup {r}) <= MaxInFlight
    BY <2>1, <2>3, GatewayConstantsAssumption
  <2>5. IsFiniteSet(M) /\ Cardinality(M) <= MaxInFlight
    BY <2>2, <2>3, <2>4, SubsetCounts, FS_Subset, GatewayConstantsAssumption
  <2> QED
    BY <2>5 DEF FlightInv, M
<1> HIDE DEF h
<1>6. \A p \in PolicyRow : Advances(p, req[r], h, aiLog, now)
  BY <1>1, <1>4 DEF Advances, Reading
<1>7. h.tokens <= MaxTokens
  BY <1>4, GatewayConstantsAssumption
<1> QED
  BY <1>1, <1>3, <1>4, <1>5, <1>6, <1>7, OneAdvances

LEMMA MatchKeepsLimits ==
  ASSUME IInv, IInv', LimitsInv, UNCHANGED <<aiLog, now>>, NEW r \in Requests,
         Flying(req[r]), NEW p, Match(r, p)
  PROVE  LimitsInv'
<1> DEFINE h == [req[r] EXCEPT !.policy = p, !.decision = Decision(p.action),
                               !.stage = "logDecision"]
<1>1. req' = [req EXCEPT ![r] = h]
  BY DEF Match
<1>2. /\ h.stage = "logDecision" /\ h.tokens = req[r].tokens
      /\ h.input = req[r].input /\ h.passed = req[r].passed
  BY DEF IInv, TypeOK, Handler
<1> HIDE DEF h
<1> QED
  BY <1>1, <1>2, MovingKeepsLimits DEF LimitsInv, WorkInv, Flying

\* A policy lets a request pass that has not reached its limits.
LEMMA PassKeepsLimits ==
  ASSUME IInv, IInv', LimitsInv, UNCHANGED <<aiLog, now>>, NEW r \in Requests,
         Flying(req[r]), NEW p \in PolicyRow, Pass(r, p),
         ~RateLimitMatch(p, req[r].input, aiLog, now),
         ~TokenQuotaMatch(p, req[r].input, aiLog, now),
         \/ Reading(p, req[r])
         \/ ~RequestQuotaMatch(p, req[r].input, aiLog, now)
  PROVE  LimitsInv'
<1> DEFINE visited == [req[r] EXCEPT !.passed = @ \cup {p}, !.stage = "evaluating"]
           h == IF visited.passed = visited.snapshot
                  THEN Decided(visited, "ALLOWED", NoPolicy) ELSE visited
<1>1. req' = [req EXCEPT ![r] = h]
  BY DEF Pass
<1>0. req[r] \in Handler
  BY DEF IInv, TypeOK
<1>2. /\ visited \in Handler
      /\ visited.passed = req[r].passed \cup {p} /\ visited.input = req[r].input
      /\ visited.tokens = req[r].tokens /\ visited.stage = "evaluating"
  <2>1. /\ req[r].passed \cup {p} \in SUBSET PolicyRow
        /\ "evaluating" \in Stages
    BY <1>0 DEF Handler, Stages
  <2> HIDE DEF Stages, PolicyRow, Replies, Decisions, KeyRow
  <2> QED
    BY <1>0, <2>1 DEF Handler
<1> HIDE DEF visited
<1>3. /\ h.passed = req[r].passed \cup {p} /\ h.input = req[r].input
      /\ h.tokens = req[r].tokens /\ h.stage # "readTokens"
  BY <1>2, StageAfterType DEF Handler, Decided
<1> HIDE DEF h
<1>4. \A x \in PolicyRow : Advances(x, req[r], h, aiLog, now)
  BY <1>3 DEF Advances, Reading, Flying
<1>5. FlightInv(req')
  <2>1. \A q \in Requests : req'[q] = IF q = r THEN h ELSE req[q]
    BY <1>1 DEF IInv, TypeOK
  <2> QED
    BY <2>1, FlightShrinks DEF LimitsInv
<1> QED
  BY <1>1, <1>3, <1>4, <1>5, OneAdvances DEF LimitsInv, WorkInv, Flying

LEMMA EvaluationKeepsLimits ==
  ASSUME IInv, IInv', LimitsInv, NEW r \in Requests, EvaluatePolicy(r)
  PROVE  LimitsInv'
<1>1. UNCHANGED <<aiLog, now>> /\ req[r].stage = "evaluating" /\ Flying(req[r])
  BY DEF EvaluatePolicy, tables, Flying
<1>2. PICK p \in NextInOrder(req[r]) :
       \/ FirstReadMatch(p, req[r].input) /\ Match(r, p)
       \/ /\ ~FirstReadMatch(p, req[r].input)
          /\ ReadsTwice(p)
          /\ req' = [req EXCEPT ![r].stage = "readTokens", ![r].policy = p]
       \/ /\ ~FirstReadMatch(p, req[r].input)
          /\ ~ReadsTwice(p)
          /\ Pass(r, p)
  BY DEF EvaluatePolicy
<1>3. p \in PolicyRow
  BY DEF IInv, TypeOK, Handler, NextInOrder
<1>4. ~FirstReadMatch(p, req[r].input) =>
        /\ ~RateLimitMatch(p, req[r].input, aiLog, now)
        /\ ~RequestQuotaMatch(p, req[r].input, aiLog, now)
        /\ ReadsTwice(p) \/ ~TokenQuotaMatch(p, req[r].input, aiLog, now)
  BY DEF FirstReadMatch, ReadsTwice, TokenQuotaMatch
<1>5. CASE FirstReadMatch(p, req[r].input) /\ Match(r, p)
  BY <1>1, <1>5, MatchKeepsLimits
<1>6. CASE ~FirstReadMatch(p, req[r].input) /\ ~ReadsTwice(p) /\ Pass(r, p)
  BY <1>1, <1>3, <1>4, <1>6, PassKeepsLimits
<1>7. CASE /\ ~FirstReadMatch(p, req[r].input)
           /\ ReadsTwice(p)
           /\ req' = [req EXCEPT ![r].stage = "readTokens", ![r].policy = p]
  <2> DEFINE h == [req[r] EXCEPT !.stage = "readTokens", !.policy = p]
  <2>1. req' = [req EXCEPT ![r] = h]
    BY <1>7
  <2>2. /\ h.passed = req[r].passed /\ h.input = req[r].input
        /\ h.tokens = req[r].tokens /\ h.stage = "readTokens" /\ h.policy = p
    BY <1>3 DEF IInv, TypeOK, Handler
  <2> HIDE DEF h
  <2>3. \A x \in PolicyRow : Advances(x, req[r], h, aiLog, now)
    BY <1>1, <1>4, <1>7, <2>2 DEF Advances, Reading, Flying
  <2>4. FlightInv(req')
    <3>1. \A q \in Requests : req'[q] = IF q = r THEN h ELSE req[q]
      BY <2>1 DEF IInv, TypeOK
    <3> QED
      BY <1>1, <3>1, FlightShrinks DEF LimitsInv
  <2>5. HasPeriod(h.policy)
    BY <1>7, <2>2 DEF ReadsTwice
  <2> QED
    BY <1>1, <2>1, <2>2, <2>3, <2>4, <2>5, OneAdvances DEF LimitsInv, WorkInv
<1> QED
  BY <1>2, <1>5, <1>6, <1>7

LEMMA SecondReadKeepsLimits ==
  ASSUME IInv, IInv', LimitsInv, NEW r \in Requests, EvaluateTokenQuota(r)
  PROVE  LimitsInv'
<1> DEFINE p == req[r].policy
<1>1. /\ UNCHANGED <<aiLog, now>> /\ Flying(req[r]) /\ Reading(p, req[r])
      /\ HasPeriod(p)
  BY DEF EvaluateTokenQuota, tables, Flying, Reading, LimitsInv, WorkInv
<1>2. p \in PolicyRow
  BY <1>1 DEF IInv, HandlerInv, OrderInv, NextInOrder, TypeOK, Handler, Reading
<1>3. ~RateLimitMatch(p, req[r].input, aiLog, now)
  BY <1>1 DEF RateLimitMatch, HasWindow, HasPeriod
<1>4. CASE TokenQuotaMatch(p, req[r].input, aiLog, now)
  <2>1. Match(r, p)
    BY <1>4 DEF EvaluateTokenQuota
  <2> QED
    BY <1>1, <2>1, MatchKeepsLimits
<1>5. CASE ~TokenQuotaMatch(p, req[r].input, aiLog, now)
  <2>1. Pass(r, p)
    BY <1>5 DEF EvaluateTokenQuota
  <2> QED
    BY <1>1, <1>2, <1>3, <1>5, <2>1, PassKeepsLimits
<1> QED
  BY <1>4, <1>5
LEMMA ProceedKeepsLimits ==
  ASSUME IInv, IInv', LimitsInv, NEW r \in Requests,
         LogPolicyDecision(r) \/ FindKey(r) \/ TouchKey(r) \/ Forward(r)
  PROVE  LimitsInv'
<1>0. /\ UNCHANGED <<aiLog, now>> /\ Flying(req[r]) /\ req[r].tokens <= MaxTokens
      /\ req[r] \in Handler
  BY DEF LogPolicyDecision, FindKey, TouchKey, Forward, tables, Flying,
     LimitsInv, WorkInv, IInv, TypeOK
<1>1. CASE LogPolicyDecision(r)
  <2> DEFINE h == Decided(req[r], req[r].decision, req[r].policy)
  <2>1. req' = [req EXCEPT ![r] = h]
    BY <1>1 DEF LogPolicyDecision, IInv, TypeOK
  <2>2. /\ h.stage # "readTokens" /\ h.tokens = req[r].tokens
        /\ h.input = req[r].input /\ h.passed = req[r].passed
    BY <1>0, StageAfterType DEF Decided, Handler
  <2> HIDE DEF h
  <2> QED
    BY <1>0, <2>1, <2>2, MovingKeepsLimits DEF Flying
<1>2. CASE Forward(r) \/ (TouchKey(r) /\ Enter(r, "forward"))
  <2>1. PICK s \in {"calling", "forward"} : req' = [req EXCEPT ![r].stage = s]
    BY <1>2 DEF Forward, Enter
  <2> DEFINE h == [req[r] EXCEPT !.stage = s]
  <2>2. req' = [req EXCEPT ![r] = h]
    BY <2>1
  <2>3. /\ h.stage # "readTokens" /\ h.tokens = req[r].tokens
        /\ h.input = req[r].input /\ h.passed = req[r].passed
    BY <1>0, <2>1 DEF Handler
  <2> HIDE DEF h
  <2> QED
    BY <1>0, <2>2, <2>3, MovingKeepsLimits DEF Flying
<1>3. ASSUME NEW reply, Answer(r, reply)
      PROVE  LimitsInv'
  <2> DEFINE h == [req[r] EXCEPT !.stage = "done", !.reply = reply]
  <2>1. req' = [req EXCEPT ![r] = h]
    BY <1>3 DEF Answer
  <2>2. h.stage = "done" /\ h.tokens = req[r].tokens
    BY <1>0 DEF Handler
  <2> HIDE DEF h
  <2> QED
    BY <1>0, <2>1, <2>2, MovingKeepsLimits DEF Flying
<1>4. CASE \E k \in ActiveKeys(req[r].input) :
             req' = [req EXCEPT ![r].key = k, ![r].stage = "touchKey"]
  <2>1. PICK k : req' = [req EXCEPT ![r].key = k, ![r].stage = "touchKey"]
    BY <1>4
  <2> DEFINE h == [req[r] EXCEPT !.key = k, !.stage = "touchKey"]
  <2>2. req' = [req EXCEPT ![r] = h]
    BY <2>1
  <2>3. /\ h.stage = "touchKey" /\ h.tokens = req[r].tokens
        /\ h.input = req[r].input /\ h.passed = req[r].passed
    BY <1>0 DEF Handler
  <2> HIDE DEF h
  <2> QED
    BY <1>0, <2>2, <2>3, MovingKeepsLimits DEF Flying
<1> QED
  BY <1>1, <1>2, <1>3, <1>4 DEF FindKey, TouchKey

LEMMA RespondKeepsLimits ==
  ASSUME IInv, IInv', LimitsInv, NEW r \in Requests, Respond(r)
  PROVE  LimitsInv'
<1>0. /\ UNCHANGED <<aiLog, now>> /\ Flying(req[r]) /\ req[r].tokens <= MaxTokens
      /\ req[r] \in Handler
  BY DEF Respond, ProviderAnswers, ProviderFails, tables, Flying,
     LimitsInv, WorkInv, IInv, TypeOK
<1>1. CASE ProviderAnswers(r)
  <2>1. PICK t \in 0..MaxTokens :
          req' = [req EXCEPT ![r].stage = "logSuccess", ![r].tokens = t]
    BY <1>1 DEF ProviderAnswers
  <2> DEFINE h == [req[r] EXCEPT !.stage = "logSuccess", !.tokens = t]
  <2>2. req' = [req EXCEPT ![r] = h]
    BY <2>1
  <2>3. /\ h.stage = "logSuccess" /\ h.tokens = t
        /\ h.input = req[r].input /\ h.passed = req[r].passed
    BY <1>0 DEF Handler
  <2>4. h.tokens <= MaxTokens
    BY <2>3, GatewayConstantsAssumption
  <2> HIDE DEF h
  <2> QED
    BY <1>0, <2>2, <2>3, <2>4, MovingKeepsLimits DEF Flying
<1>2. CASE ProviderFails(r)
  <2> DEFINE h == [req[r] EXCEPT !.stage = "logFailed"]
  <2>1. req' = [req EXCEPT ![r] = h]
    BY <1>2 DEF ProviderFails, Enter
  <2>2. /\ h.stage = "logFailed" /\ h.tokens = req[r].tokens
        /\ h.input = req[r].input /\ h.passed = req[r].passed
    BY <1>0 DEF Handler
  <2> HIDE DEF h
  <2> QED
    BY <1>0, <2>1, <2>2, MovingKeepsLimits DEF Flying
<1> QED
  BY <1>1, <1>2 DEF Respond

LEMMA DatabaseFailsKeepsLimits ==
  ASSUME IInv, IInv', LimitsInv, NEW r \in Requests, DatabaseFails(r)
  PROVE  LimitsInv'
<1>0. /\ UNCHANGED <<aiLog, now>>
      /\ req[r].tokens <= MaxTokens /\ req[r] \in Handler
  <2>1. UNCHANGED <<now, tables, toggling, received>>
    BY DEF DatabaseFails
  <2> QED
    BY <2>1 DEF tables, LimitsInv, WorkInv, IInv, TypeOK
<1>1. CASE req[r].stage \notin {"idle", "done"} /\ Answer(r, "error")
  <2> DEFINE h == [req[r] EXCEPT !.stage = "done", !.reply = "error"]
  <2>1. req' = [req EXCEPT ![r] = h]
    BY <1>1 DEF Answer
  <2>2. h.stage = "done" /\ h.tokens = req[r].tokens
    BY <1>0 DEF Handler
  <2> HIDE DEF h
  <2> QED
    BY <1>0, <1>1, <2>1, <2>2, MovingKeepsLimits DEF Flying
<1>2. CASE req[r].stage = "idle" /\ \E in \in Inputs :
             req' = [req EXCEPT ![r] = [Idle EXCEPT !.input = in,
                       !.stage = "done", !.reply = "error"]]
  <2>0. PICK in \in Inputs :
          req' = [req EXCEPT ![r] = [Idle EXCEPT !.input = in,
                    !.stage = "done", !.reply = "error"]]
    BY <1>2
  <2> DEFINE h == [Idle EXCEPT !.input = in, !.stage = "done", !.reply = "error"]
  <2>1. req' = [req EXCEPT ![r] = h]
    BY <2>0
  <2>2. h.stage = "done" /\ h.tokens = 0
    BY DEF Idle
  <2> HIDE DEF h
  <2>3. h.tokens <= MaxTokens
    BY <2>2, GatewayConstantsAssumption
  <2> QED
    BY <1>0, <1>2, <2>1, <2>2, <2>3, MovingKeepsLimits DEF Flying
<1> QED
  BY <1>1, <1>2 DEF DatabaseFails

LEMMA CrashKeepsLimits ==
  ASSUME IInv, IInv', LimitsInv, Crash
  PROVE  LimitsInv'
<1> DEFINE lost(r) == [req[r] EXCEPT !.stage = "done", !.reply = "lost"]
<1>0. /\ UNCHANGED <<now, tables, received>>
      /\ req' = [r \in Requests |-> IF r \in InFlight THEN lost(r) ELSE req[r]]
  BY DEF Crash
<1>1. UNCHANGED <<aiLog, now>>
  BY <1>0 DEF tables
<1>2. ASSUME NEW q \in Requests
      PROVE  \/ req'[q] = req[q] /\ ~Flying(req[q])
             \/ /\ req'[q].stage = "done" /\ req'[q].tokens = req[q].tokens
                /\ Flying(req[q])
  <2>1. req[q] \in Handler
    BY DEF IInv, TypeOK
  <2>2. lost(q).stage = "done" /\ lost(q).tokens = req[q].tokens
    BY <2>1 DEF Handler
  <2> HIDE DEF lost
  <2> QED
    BY <1>0, <2>2 DEF InFlight, Flying
<1>3. WorkInv(req') /\ FlightInv(req')
  <2>1. \A q \in Requests : Flying(req'[q]) => Flying(req[q])
    BY <1>2 DEF Flying
  <2>2. FlightInv(req')
    BY <2>1, FlightShrinks DEF LimitsInv
  <2> QED
    BY <1>2, <2>2 DEF LimitsInv, WorkInv
<1>4. \A q \in Requests : req[q].stage = "done" => req'[q] = req[q]
  BY <1>2 DEF Flying
<1>5. \A p \in PolicyRow, q \in Requests : Advances(p, req[q], req'[q], aiLog, now)
  BY <1>2 DEF Advances, Flying, Reading
<1> QED
  BY <1>1, <1>3, <1>4, <1>5, AdvanceKeepsLimits

\* The row that is written is that of a request in flight, with its tokens.
LEMMA WriteKeepsLimits ==
  ASSUME IInv, IInv', LimitsInv, NEW r \in Requests, Flying(req[r]),
         NEW status, NEW policy, NEW reply, CreateAiLog(r, status, policy, reply)
  PROVE  LimitsInv'
<1> DEFINE row == [request |-> r, tenant |-> req[r].input.tenant,
                   user |-> req[r].input.user, status |-> status,
                   decision |-> req[r].decision, policy |-> policy,
                   tokens |-> req[r].tokens, time |-> now]
<1>1. aiLog' = aiLog \cup {row} /\ now' = now
  BY DEF CreateAiLog
<1>2. /\ row \in AiLogRow /\ row.request = r /\ row.tokens = req[r].tokens
      /\ row.tenant = req[r].input.tenant /\ row.user = req[r].input.user
  <2>1. row \in AiLogRow
    BY <1>1 DEF IInv, TypeOK
  <2> QED
    BY <2>1
<1>3. /\ \A q \in Requests \ {r} : req'[q] = req[q]
      /\ req'[r].stage = "done" /\ req'[r].passed = req[r].passed
      /\ req'[r].tokens = req[r].tokens
  BY DEF CreateAiLog, Answer, IInv, TypeOK, Handler
<1>4. /\ aiLog \in SUBSET AiLogRow /\ now \in Nat
      /\ req \in [Requests -> Handler] /\ req' \in [Requests -> Handler]
      /\ req[r].tokens \in 0..MaxTokens
  <2>1. /\ req \in [Requests -> Handler] /\ req' \in [Requests -> Handler]
        /\ aiLog \in SUBSET AiLogRow /\ now \in Nat
    BY DEF IInv, TypeOK
  <2>2. req[r].tokens \in Nat /\ req[r].tokens <= MaxTokens
    BY <2>1 DEF Handler, LimitsInv, WorkInv
  <2> QED
    BY <2>1, <2>2, GatewayConstantsAssumption
<1>5. WorkInv(req')
  BY <1>3 DEF LimitsInv, WorkInv
<1> HIDE DEF row
<1>6. RowsInv(aiLog \cup {row}, req') /\ FlightInv(req')
      /\ RoomInv(aiLog \cup {row}, now, req')
  BY <1>2, <1>3, <1>4, RoomWritten DEF LimitsInv
<1> QED
  BY <1>1, <1>5, <1>6 DEF LimitsInv

LEMMA StillKeepsLimits ==
  ASSUME IInv, IInv', LimitsInv, UNCHANGED <<aiLog, req>>,
         now' = now \/ now' = now + 1
  PROVE  LimitsInv'
<1>1. WorkInv(req') /\ FlightInv(req')
  BY DEF LimitsInv
<1>2. \A p \in PolicyRow, q \in Requests : Advances(p, req[q], req'[q], aiLog, now)
  BY DEF Advances, Flying, Reading
<1> QED
  BY <1>1, <1>2, AdvanceKeepsLimits

LEMMA NextKeepsLimits ==
  ASSUME IInv, IInv', LimitsInv, [Next]_vars
  PROVE  LimitsInv'
<1>1. ASSUME NEW r \in Requests,
             LoadPolicies(r) \/ Handle(r) \/ Respond(r) \/ DatabaseFails(r)
      PROVE  LimitsInv'
  <2>1. CASE LogDenied(r) \/ LogSuccess(r) \/ LogFailed(r)
    BY <2>1, WriteKeepsLimits DEF LogDenied, LogSuccess, LogFailed, Flying
  <2> QED
    BY <1>1, <2>1, LoadKeepsLimits, EvaluationKeepsLimits, SecondReadKeepsLimits,
       ProceedKeepsLimits, RespondKeepsLimits, DatabaseFailsKeepsLimits DEF Handle
<1>2. ASSUME NEW a \in Admins, Administer(a)
      PROVE  LimitsInv'
  <2>1. UNCHANGED <<aiLog, req, now>>
    BY <1>2 DEF Administer, CreatePolicy, UpdatePolicy, RemovePolicy, CreateKey,
       RotateKey, RemoveKey, BeginToggle, EndToggle, tables
  <2> QED
    BY <2>1, StillKeepsLimits
<1>3. CASE Tick \/ UNCHANGED vars
  BY <1>3, StillKeepsLimits DEF Tick, vars, tables
<1> QED
  BY <1>1, <1>2, <1>3, CrashKeepsLimits DEF Next

LEMMA InitLimits == Init => LimitsInv
<1> SUFFICES ASSUME Init PROVE LimitsInv
  OBVIOUS
<1>0. \A r \in Requests : req[r] = Idle
  BY DEF Init
<1>1. {r \in Requests : Flying(req[r])} = {}
  BY <1>0 DEF Idle, Flying
<1>2. FlightInv(req)
  <2>1. IsFiniteSet({}) /\ Cardinality({}) <= MaxInFlight
    BY FS_EmptySet, GatewayConstantsAssumption
  <2> QED
    BY <1>1, <2>1 DEF FlightInv
<1>3. aiLog = {} /\ TokensOf({}) = {}
  BY DEF Init, TokensOf
<1>4. RowsInv(aiLog, req)
  BY <1>3, FS_EmptySet DEF RowsInv
<1>5. WorkInv(req)
  BY GatewayConstantsAssumption DEF Init, Idle, WorkInv
<1>6. ASSUME NEW p \in PolicyRow, NEW in \in Inputs \cup {NoInput}
      PROVE  /\ RateRoom(p, in, aiLog, now, req)
             /\ QuotaRoom(p, in, aiLog, now, req)
             /\ TokenRoom(p, in, aiLog, now, req)
  <2>1. /\ RateCounted(p, in, aiLog, now, req) = {}
        /\ QuotaCounted(p, in, aiLog, now, req) = {}
    BY <1>3 DEF RateCounted, QuotaCounted, RateRows, QuotaRows
  <2>2. /\ RatePending(p, in, req) = {} /\ QuotaPending(p, in, req) = {}
        /\ TokenPending(p, in, req) = {}
    BY <1>1 DEF RatePending, QuotaPending, TokenPending
  <2>3. p.rules.maxRequests \in Nat /\ p.rules.maxTokens \in Nat
    BY DEF PolicyRow, Rules
  <2>4. \A max \in Nat : Fits({}, {}, max)
    BY FS_EmptySet, GatewayConstantsAssumption DEF Fits
  <2>5. \A max \in Nat \ {0} : FitsTokens({}, {}, max)
    <3>0. \A n \in Nat : n * 0 = 0
      OBVIOUS
    <3>1. TokenSum({}) = 0 /\ Cardinality({}) = 0 /\ MaxTokens * 0 = 0
      BY <1>3, <3>0, FS_EmptySet, GatewayConstantsAssumption DEF TokenSum
    <3>2. MaxTokens * MaxInFlight \in Nat
      BY GatewayConstantsAssumption
    <3> QED
      BY <3>1, <3>2 DEF FitsTokens
  <2> QED
    BY <2>1, <2>2, <2>3, <2>4, <2>5 DEF RateRoom, QuotaRoom, TokenRoom
<1> QED
  BY <1>2, <1>4, <1>5, <1>6 DEF LimitsInv, RoomInv

\* However many chats race for a rate limit or a quota, and whatever is read
\* before it is counted: the rows in a window, the completions in a period and
\* their tokens exceed the limit by no more than the requests in flight cost.
THEOREM OvershootsAreBounded == Spec => []OvershootBounded
<1>1. IInv /\ LimitsInv /\ [Next]_vars /\ IInv' => LimitsInv'
  BY NextKeepsLimits
<1>2. ASSUME IInv, LimitsInv PROVE OvershootBounded
  <2> SUFFICES ASSUME NEW r \in Requests, NEW p \in req[r].passed
               PROVE  /\ HasWindow(p) =>
                           Cardinality(RateCounted(p, req[r].input, aiLog, now, req))
                             <= p.rules.maxRequests - 1 + MaxInFlight
                      /\ HasPeriod(p) /\ p.rules.maxRequests # 0 =>
                           Cardinality(QuotaCounted(p, req[r].input, aiLog, now, req))
                             <= p.rules.maxRequests - 1 + MaxInFlight
                      /\ HasPeriod(p) /\ p.rules.maxTokens # 0 =>
                           TokenSum(QuotaCounted(p, req[r].input, aiLog, now, req))
                             <= p.rules.maxTokens - 1 + MaxInFlight * MaxTokens
    BY DEF OvershootBounded, RateOvershootBounded, QuotaOvershootBounded,
       RateCounted, QuotaCounted
  <2> DEFINE in == req[r].input
             W == RateCounted(p, in, aiLog, now, req)
             V == QuotaCounted(p, in, aiLog, now, req)
  <2>1. p \in PolicyRow /\ in \in Inputs \cup {NoInput}
    BY <1>2 DEF IInv, TypeOK, Handler
  <2>2. /\ RateRoom(p, in, aiLog, now, req) /\ QuotaRoom(p, in, aiLog, now, req)
        /\ TokenRoom(p, in, aiLog, now, req)
    BY <1>2, <2>1 DEF LimitsInv, RoomInv
  <2>3. /\ Cardinality(RatePending(p, in, req)) \in Nat
        /\ Cardinality(QuotaPending(p, in, req)) \in Nat
        /\ Cardinality(TokenPending(p, in, req)) \in Nat
    BY <1>2, PendingFlies, FS_CardinalityType DEF LimitsInv
  <2>4. /\ Cardinality(W) \in Nat /\ Cardinality(V) \in Nat /\ TokenSum(V) \in Nat
    BY <1>2, CountedRows, FS_CardinalityType DEF LimitsInv, TokenSum
  <2>5. p.rules.maxRequests \in Nat /\ p.rules.maxTokens \in Nat
    BY <2>1 DEF PolicyRow, Rules
  <2>6. MaxInFlight \in Nat /\ MaxTokens \in Nat
    BY GatewayConstantsAssumption
  <2> HIDE DEF in, W, V
  <2>7. HasWindow(p) => Cardinality(W) <= p.rules.maxRequests - 1 + MaxInFlight
    BY <2>2, <2>3, <2>4, <2>5, <2>6 DEF RateRoom, Fits, W
  <2>8. HasPeriod(p) /\ p.rules.maxRequests # 0 =>
          Cardinality(V) <= p.rules.maxRequests - 1 + MaxInFlight
    BY <2>2, <2>3, <2>4, <2>5, <2>6 DEF QuotaRoom, Fits, V
  <2>9. ASSUME HasPeriod(p), p.rules.maxTokens # 0
        PROVE  TokenSum(V) <= p.rules.maxTokens - 1 + MaxInFlight * MaxTokens
    <3> DEFINE x == MaxTokens * Cardinality(TokenPending(p, in, req))
               z == MaxTokens * MaxInFlight
    <3>1. TokenSum(V) + x <= p.rules.maxTokens - 1 + z
      BY <2>2, <2>9 DEF TokenRoom, FitsTokens, V
    <3>2. x \in Nat /\ z \in Nat /\ z = MaxInFlight * MaxTokens
      BY <2>3, <2>6
    <3> HIDE DEF x, z
    <3> QED
      BY <2>4, <2>5, <3>1, <3>2
  <2> QED
    BY <2>7, <2>8, <2>9 DEF in, W, V
<1> QED
  BY <1>1, <1>2, InitLimits, InvariantHolds, PTL DEF Spec
=============================================================================
