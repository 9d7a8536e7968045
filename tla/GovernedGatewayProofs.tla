----------------------- MODULE GovernedGatewayProofs -----------------------
(***************************************************************************)
(* AiGateway implements GovernedAccess, for every value of the constants:  *)
(* each of its steps judges, delivers or closes one request, gives some up,*)
(* or does none of these.  Then its audit tables: what their rows say, and *)
(* that the answer a client got agrees with them.                          *)
(***************************************************************************)
EXTENDS GovernedGateway, AiGatewayProofs, FiniteSetTheorems

CommittedHandler(h, known) ==
  /\ h.stage \in Admitted \cup {"logDenied"} =>
       StageAfter(h.input, h.decision) # "done"
  /\ h.stage \in {"calling", "logSuccess"} => known

Simulated == Committed' /\ [Governed!Next]_(Governed!vars)

\* The abstract state, one variable at a time.
Verdicts == [r \in Requests |-> VerdictOf(req[r])]
Delivered == {c.request : c \in received}
Ledger == {<<row.request, row.status>> : row \in aiLog}
Closed == {r \in Requests : req[r].stage = "done"}

LEMMA VerdictType ==
  ASSUME NEW h PROVE VerdictOf(h) \in {"open", "admitted", "refused"}
  BY DEF VerdictOf

LEMMA AbstractState ==
  /\ Governed!vars = <<Verdicts, Delivered, Ledger, Closed>>
  /\ (Governed!vars)' = <<Verdicts', Delivered', Ledger', Closed'>>
  BY DEF Governed!vars, Verdicts, Delivered, Ledger, Closed

-----------------------------------------------------------------------------
(* Steps of one handler *)

LEMMA CommittedKept ==
  ASSUME TypeOK, Committed, NEW r \in Requests, NEW h,
         req' = [req EXCEPT ![r] = h], received \subseteq received',
         CommittedHandler(h, Received(r)')
  PROVE  Committed'
<1>1. ASSUME NEW q \in Requests
      PROVE  /\ req'[q] = IF q = r THEN h ELSE req[q]
             /\ Received(q) => Received(q)'
  BY DEF TypeOK, Received
<1> QED
  BY <1>1 DEF Committed, CommittedHandler

\* A step that changes only one handler and keeps its verdict closes the
\* request without an entry, or shows nothing.
LEMMA SameVerdictStep ==
  ASSUME TypeOK, Committed, NEW r \in Requests, NEW h,
         req' = [req EXCEPT ![r] = h], UNCHANGED <<received, aiLog>>,
         req[r].stage # "done", CommittedHandler(h, Received(r)),
         VerdictOf(h) = VerdictOf(req[r])
  PROVE  Simulated
<1>1. ASSUME NEW q \in Requests
      PROVE  req'[q] = IF q = r THEN h ELSE req[q]
  BY DEF TypeOK
<1>2. Committed'
  BY CommittedKept DEF Received
<1>3. UNCHANGED <<Verdicts, Delivered, Ledger>>
  BY <1>1 DEF Verdicts, Delivered, Ledger
<1>4. CASE h.stage = "done"
  <2>1. Closed' = Closed \cup {r} /\ {r} \subseteq Requests \ Closed
    BY <1>1, <1>4 DEF Closed
  <2>2. Governed!Abandon
    BY <1>3, <2>1 DEF Governed!Abandon, Verdicts, Delivered, Ledger, Closed
  <2> QED
    BY <1>2, <2>2 DEF Simulated, Governed!Next
<1>5. CASE h.stage # "done"
  <2>1. Closed' = Closed
    BY <1>1, <1>5 DEF Closed
  <2> QED
    BY <1>2, <1>3, <2>1, AbstractState DEF Simulated
<1> QED
  BY <1>4, <1>5

\* A step that changes only one open handler judges it, unless it ends it.
LEMMA OpenStep ==
  ASSUME TypeOK, Committed, NEW r \in Requests, NEW h,
         req' = [req EXCEPT ![r] = h], UNCHANGED <<received, aiLog>>,
         req[r].stage # "done", CommittedHandler(h, Received(r)),
         VerdictOf(req[r]) = "open",
         h.stage = "done" => VerdictOf(h) = "open"
  PROVE  Simulated
<1>1. CASE VerdictOf(h) = "open"
  BY <1>1, SameVerdictStep
<1>2. CASE VerdictOf(h) # "open"
  <2>1. ASSUME NEW q \in Requests
        PROVE  req'[q] = IF q = r THEN h ELSE req[q]
    BY DEF TypeOK
  <2>2. Committed'
    BY CommittedKept DEF Received
  <2>3. UNCHANGED <<Delivered, Ledger, Closed>> /\ r \notin Closed
    BY <1>2, <2>1 DEF Delivered, Ledger, Closed
  <2>4. Verdicts[r] = "open" /\ Verdicts' = [Verdicts EXCEPT ![r] = VerdictOf(h)]
    <3>1. \A q \in Requests : Verdicts'[q] = IF q = r THEN VerdictOf(h)
                                                     ELSE Verdicts[q]
      BY <2>1 DEF Verdicts
    <3>2. Verdicts[r] = "open"
      BY DEF Verdicts
    <3>3. /\ Verdicts' = [q \in Requests |-> Verdicts'[q]]
          /\ DOMAIN Verdicts = Requests
      BY DEF Verdicts
    <3> QED
      BY <3>1, <3>2, <3>3
  <2>5. Governed!Judge(r)
    BY <1>2, <2>3, <2>4, VerdictType
    DEF Governed!Judge, Verdicts, Delivered, Ledger, Closed
  <2> QED
    BY <2>2, <2>5 DEF Simulated, Governed!Next
<1> QED
  BY <1>1, <1>2

\* After Decided() a handler is done exactly if it stays open.
LEMMA DecidedVerdict ==
  ASSUME NEW h \in Handler, NEW d \in Decisions, NEW p \in PolicyRow \cup {NoPolicy}
  PROVE  LET g == Decided(h, d, p) IN
         /\ g.stage = "done" <=> VerdictOf(g) = "open"
         /\ \A known : CommittedHandler(g, known)
         /\ h.decision = d => VerdictOf(g) = VerdictOf(h)
<1> DEFINE g == Decided(h, d, p)
<1>1. /\ g.stage = StageAfter(h.input, d)
      /\ g.decision = d /\ g.input = h.input
  BY DEF Decided, Handler
<1>2. d # "none"
  BY DEF Decisions
<1> HIDE DEF g
<1>3. g.stage = "done" <=> VerdictOf(g) = "open"
  BY <1>1, <1>2 DEF VerdictOf
<1>4. \A known : CommittedHandler(g, known)
  BY <1>1, StageAfterType DEF CommittedHandler, Admitted
<1>5. h.decision = d => VerdictOf(g) = VerdictOf(h)
  BY <1>1 DEF VerdictOf
<1> QED
  BY <1>3, <1>4, <1>5 DEF g

\* Moving on keeps the verdict, for neither input nor decision changes.
LEMMA MoveStep ==
  ASSUME TypeOK, Committed, NEW r \in Requests, NEW h,
         req' = [req EXCEPT ![r] = h], UNCHANGED <<received, aiLog>>,
         req[r].stage # "done",
         h.input = req[r].input, h.decision = req[r].decision,
         h.stage \in Admitted \cup {"done"},
         h.stage \in Admitted => req[r].stage \in Admitted,
         h.stage \in {"calling", "logSuccess"} => Received(r)
  PROVE  Simulated
<1>1. VerdictOf(h) = VerdictOf(req[r])
  BY DEF VerdictOf
<1>2. CommittedHandler(h, Received(r))
  BY DEF Committed, CommittedHandler, Admitted
<1> QED
  BY <1>1, <1>2, SameVerdictStep

-----------------------------------------------------------------------------
(* The steps of evaluate() *)

LEMMA UndecidedIsOpen ==
  ASSUME IInv, NEW r \in Requests, req[r].stage \in Undecided
  PROVE  /\ req[r] \in Handler /\ req[r].decision = "none"
         /\ VerdictOf(req[r]) = "open" /\ req[r].stage # "done"
  BY DEF IInv, TypeOK, HandlerInv, StageInv, Undecided, VerdictOf

LEMMA LoadPoliciesSimulates ==
  ASSUME IInv, Committed, NEW r \in Requests, LoadPolicies(r)
  PROVE  Simulated
<1>1. req[r].stage = "idle" /\ UNCHANGED <<received, aiLog>>
  BY DEF LoadPolicies, tables
<1>2. PICK in \in Inputs :
       LET active == {p \in policies : p.tenant = in.tenant /\ p.isActive}
           loaded == [Idle EXCEPT !.input = in, !.snapshot = active,
                                  !.stage = "evaluating"]
       IN req' = [req EXCEPT ![r] =
                    IF active = {} THEN Decided(loaded, "ALLOWED", NoPolicy)
                                   ELSE loaded]
  BY DEF LoadPolicies
<1> DEFINE active == {p \in policies : p.tenant = in.tenant /\ p.isActive}
           loaded == [Idle EXCEPT !.input = in, !.snapshot = active,
                                  !.stage = "evaluating"]
           h == IF active = {} THEN Decided(loaded, "ALLOWED", NoPolicy)
                               ELSE loaded
<1>3. req' = [req EXCEPT ![r] = h]
  BY <1>2
<1>4. active \subseteq PolicyRow
  BY DEF IInv, TypeOK
<1> HIDE DEF active
<1>5. loaded \in Handler /\ loaded.stage = "evaluating"
  BY <1>4 DEF Idle, Handler, Stages, Replies
<1> HIDE DEF loaded
<1>6. /\ h.stage = "done" => VerdictOf(h) = "open"
      /\ CommittedHandler(h, Received(r))
  BY <1>5, DecidedVerdict DEF CommittedHandler, Admitted, Decisions
<1> HIDE DEF h
<1>7. VerdictOf(req[r]) = "open" /\ req[r].stage # "done"
  BY <1>1, UndecidedIsOpen DEF Undecided
<1> QED
  BY <1>1, <1>3, <1>6, <1>7, OpenStep DEF IInv

LEMMA MatchSimulates ==
  ASSUME IInv, Committed, NEW r \in Requests, NEW p, Match(r, p),
         req[r].stage \in {"evaluating", "readTokens"},
         UNCHANGED <<received, aiLog>>
  PROVE  Simulated
<1> DEFINE h == [req[r] EXCEPT !.policy = p, !.decision = Decision(p.action),
                               !.stage = "logDecision"]
<1>1. req' = [req EXCEPT ![r] = h]
  BY DEF Match
<1>2. VerdictOf(req[r]) = "open" /\ req[r].stage # "done" /\ req[r] \in Handler
  BY UndecidedIsOpen DEF Undecided
<1>3. h.stage = "logDecision"
  BY <1>2 DEF Handler
<1>4. CommittedHandler(h, Received(r))
  BY <1>3 DEF CommittedHandler, Admitted
<1> HIDE DEF h
<1> QED
  BY <1>1, <1>2, <1>3, <1>4, OpenStep DEF IInv

LEMMA PassSimulates ==
  ASSUME IInv, Committed, NEW r \in Requests, NEW p \in PolicyRow, Pass(r, p),
         req[r].stage \in {"evaluating", "readTokens"},
         UNCHANGED <<received, aiLog>>
  PROVE  Simulated
<1> DEFINE visited == [req[r] EXCEPT !.passed = @ \cup {p},
                                     !.stage = "evaluating"]
           h == IF visited.passed = visited.snapshot
                  THEN Decided(visited, "ALLOWED", NoPolicy) ELSE visited
<1>1. req' = [req EXCEPT ![r] = h]
  BY DEF Pass
<1>2. VerdictOf(req[r]) = "open" /\ req[r].stage # "done" /\ req[r] \in Handler
  BY UndecidedIsOpen DEF Undecided
<1>3. visited \in Handler /\ visited.stage = "evaluating"
  BY <1>2 DEF Handler, Stages
<1> HIDE DEF visited
<1>4. /\ h.stage = "done" => VerdictOf(h) = "open"
      /\ CommittedHandler(h, Received(r))
  BY <1>3, DecidedVerdict DEF CommittedHandler, Admitted, Decisions
<1> HIDE DEF h
<1> QED
  BY <1>1, <1>2, <1>4, OpenStep DEF IInv

LEMMA EvaluationSimulates ==
  ASSUME IInv, Committed, NEW r \in Requests,
         EvaluatePolicy(r) \/ EvaluateTokenQuota(r)
  PROVE  Simulated
<1>1. /\ req[r].stage \in {"evaluating", "readTokens"}
      /\ UNCHANGED <<received, aiLog>>
  BY DEF EvaluatePolicy, EvaluateTokenQuota, tables
<1>2. /\ req[r] \in Handler /\ VerdictOf(req[r]) = "open"
      /\ req[r].stage # "done"
  BY <1>1, UndecidedIsOpen DEF Undecided
<1>3. CASE EvaluatePolicy(r)
  <2>1. PICK p \in NextInOrder(req[r]) :
          \/ Match(r, p)
          \/ Pass(r, p)
          \/ req' = [req EXCEPT ![r].stage = "readTokens", ![r].policy = p]
    BY <1>3 DEF EvaluatePolicy
  <2>2. p \in PolicyRow
    BY <1>2 DEF Handler, NextInOrder
  <2>3. CASE req' = [req EXCEPT ![r].stage = "readTokens", ![r].policy = p]
    <3> DEFINE h == [req[r] EXCEPT !.stage = "readTokens", !.policy = p]
    <3>1. req' = [req EXCEPT ![r] = h]
      BY <2>3
    <3>2. h.stage = "readTokens"
      BY <1>2 DEF Handler
    <3>3. CommittedHandler(h, Received(r))
      BY <3>2 DEF CommittedHandler, Admitted
    <3> HIDE DEF h
    <3> QED
      BY <1>1, <1>2, <3>1, <3>2, <3>3, OpenStep DEF IInv
  <2> QED
    BY <1>1, <2>1, <2>2, <2>3, MatchSimulates, PassSimulates
<1>4. CASE EvaluateTokenQuota(r)
  <2>1. /\ Match(r, req[r].policy) \/ Pass(r, req[r].policy)
        /\ req[r].stage = "readTokens"
    BY <1>4 DEF EvaluateTokenQuota
  <2>2. req[r].policy \in PolicyRow
    BY <1>2, <2>1 DEF IInv, HandlerInv, OrderInv, Handler, NextInOrder
  <2> QED
    BY <1>1, <2>1, <2>2, MatchSimulates, PassSimulates
<1> QED
  BY <1>3, <1>4

LEMMA LogPolicyDecisionSimulates ==
  ASSUME IInv, Committed, NEW r \in Requests, LogPolicyDecision(r)
  PROVE  Simulated
<1> DEFINE g == Decided(req[r], req[r].decision, req[r].policy)
<1>1. /\ req[r].stage = "logDecision" /\ UNCHANGED <<received, aiLog>>
      /\ req' = [req EXCEPT ![r] = g]
  BY DEF LogPolicyDecision
<1>2. /\ req[r] \in Handler /\ req[r].decision \in Decisions
      /\ req[r].policy \in PolicyRow \cup {NoPolicy}
  BY <1>1 DEF IInv, TypeOK, HandlerInv, StageInv, Handler
<1>3. VerdictOf(g) = VerdictOf(req[r]) /\ CommittedHandler(g, Received(r))
  BY <1>2, DecidedVerdict
<1> HIDE DEF g
<1> QED
  BY <1>1, <1>3, SameVerdictStep DEF IInv

-----------------------------------------------------------------------------
(* The steps of chat() after the evaluation *)

LEMMA AnswerSimulates ==
  ASSUME IInv, Committed, NEW r \in Requests, NEW reply, Answer(r, reply),
         req[r].stage # "done", UNCHANGED <<received, aiLog>>
  PROVE  Simulated
<1> DEFINE h == [req[r] EXCEPT !.stage = "done", !.reply = reply]
<1>1. req' = [req EXCEPT ![r] = h]
  BY DEF Answer
<1>2. h.stage = "done" /\ h.input = req[r].input /\ h.decision = req[r].decision
  BY DEF IInv, TypeOK, Handler
<1> HIDE DEF h
<1> QED
  BY <1>1, <1>2, MoveStep DEF IInv, Admitted

LEMMA EnterSimulates ==
  ASSUME IInv, Committed, NEW r \in Requests, NEW s \in Admitted, Enter(r, s),
         req[r].stage \in Admitted, UNCHANGED <<received, aiLog>>,
         s \notin {"calling", "logSuccess"}
  PROVE  Simulated
<1> DEFINE h == [req[r] EXCEPT !.stage = s]
<1>1. req' = [req EXCEPT ![r] = h]
  BY DEF Enter
<1>2. h.stage = s /\ h.input = req[r].input /\ h.decision = req[r].decision
  BY DEF IInv, TypeOK, Handler
<1> HIDE DEF h
<1> QED
  BY <1>1, <1>2, MoveStep DEF IInv, Admitted

LEMMA KeySimulates ==
  ASSUME IInv, Committed, NEW r \in Requests, FindKey(r) \/ TouchKey(r)
  PROVE  Simulated
<1>1. /\ req[r].stage \in {"findKey", "touchKey"}
      /\ UNCHANGED <<received, aiLog>>
  BY DEF FindKey, TouchKey, tables
<1>2. CASE TouchKey(r)
  BY <1>1, <1>2, AnswerSimulates, EnterSimulates DEF TouchKey, Admitted
<1>3. CASE FindKey(r) /\ Answer(r, "badRequest")
  BY <1>1, <1>3, AnswerSimulates
<1>4. CASE FindKey(r) /\ ~Answer(r, "badRequest")
  <2>1. PICK k \in ActiveKeys(req[r].input) :
          req' = [req EXCEPT ![r].key = k, ![r].stage = "touchKey"]
    BY <1>4 DEF FindKey
  <2> DEFINE h == [req[r] EXCEPT !.key = k, !.stage = "touchKey"]
  <2>2. req' = [req EXCEPT ![r] = h]
    BY <2>1
  <2>3. /\ h.stage = "touchKey" /\ h.input = req[r].input
        /\ h.decision = req[r].decision
    BY DEF IInv, TypeOK, Handler
  <2> HIDE DEF h
  <2> QED
    BY <1>1, <2>2, <2>3, MoveStep DEF IInv, Admitted
<1> QED
  BY <1>2, <1>3, <1>4

\* The call goes out: the one step that delivers.
LEMMA ForwardSimulates ==
  ASSUME IInv, Committed, NEW r \in Requests, Forward(r)
  PROVE  Simulated
<1> DEFINE h == [req[r] EXCEPT !.stage = "calling"]
<1>1. /\ req[r].stage = "forward" /\ UNCHANGED aiLog
      /\ req' = [req EXCEPT ![r] = h]
      /\ received' = received \cup {[request |-> r, secret |-> SecretOf(req[r])]}
  BY DEF Forward, Enter, tables
<1>2. /\ h.stage = "calling" /\ h.input = req[r].input
      /\ h.decision = req[r].decision
  BY DEF IInv, TypeOK, Handler
<1> HIDE DEF h
<1>3. Delivered' = Delivered \cup {r} /\ Received(r)'
  <2> DEFINE c == [request |-> r, secret |-> SecretOf(req[r])]
  <2>1. received' = received \cup {c} /\ c.request = r
    BY <1>1
  <2> HIDE DEF c
  <2> QED
    BY <2>1 DEF Delivered, Received
<1>4. Committed'
  BY <1>1, <1>2, <1>3, CommittedKept
  DEF IInv, Committed, CommittedHandler, Admitted
<1>5. ASSUME NEW q \in Requests
      PROVE  /\ req'[q] = IF q = r THEN h ELSE req[q]
             /\ VerdictOf(req'[q]) = VerdictOf(req[q])
  BY <1>1, <1>2 DEF IInv, TypeOK, VerdictOf
<1>6. UNCHANGED <<Verdicts, Ledger, Closed>>
  BY <1>1, <1>2, <1>5 DEF Verdicts, Ledger, Closed
<1>7. r \notin Closed \cup Delivered
  BY <1>1 DEF Closed, Delivered, IInv, ReceivedInv, Received
<1>8. Verdicts[r] = "admitted"
  BY <1>1 DEF Verdicts, VerdictOf, IInv, HandlerInv, StageInv, Committed,
              Admitted, Allowing
<1>9. Governed!Deliver(r)
  BY <1>3, <1>6, <1>7, <1>8
  DEF Governed!Deliver, Verdicts, Delivered, Ledger, Closed
<1> QED
  BY <1>4, <1>9 DEF Simulated, Governed!Next

LEMMA ProviderSimulates ==
  ASSUME IInv, Committed, NEW r \in Requests, Respond(r)
  PROVE  Simulated
<1>1. CASE ProviderFails(r)
  BY <1>1, EnterSimulates DEF ProviderFails, Admitted, tables
<1>2. CASE ProviderAnswers(r)
  <2>1. req[r].stage = "calling" /\ UNCHANGED <<received, aiLog>>
    BY <1>2 DEF ProviderAnswers, tables
  <2>2. PICK t \in 0..MaxTokens :
          req' = [req EXCEPT ![r].stage = "logSuccess", ![r].tokens = t]
    BY <1>2 DEF ProviderAnswers
  <2> DEFINE h == [req[r] EXCEPT !.stage = "logSuccess", !.tokens = t]
  <2>3. req' = [req EXCEPT ![r] = h]
    BY <2>2
  <2>4. /\ h.stage = "logSuccess" /\ h.input = req[r].input
        /\ h.decision = req[r].decision
    BY DEF IInv, TypeOK, Handler
  <2>5. Received(r)
    BY <2>1 DEF Committed
  <2> HIDE DEF h
  <2> QED
    BY <2>1, <2>3, <2>4, <2>5, MoveStep DEF IInv, Admitted
<1> QED
  BY <1>1, <1>2 DEF Respond

\* The row is written and the request ends: the one step that records.
LEMMA CreateAiLogSimulates ==
  ASSUME IInv, Committed, NEW r \in Requests,
         req[r].stage # "done",
         NEW status \in {"SUCCESS", "FAILED", "DENIED"}, NEW policy, NEW reply,
         Governed!MayRecord(r, status), CreateAiLog(r, status, policy, reply)
  PROVE  Simulated
<1>1. PICK y : req' = [req EXCEPT ![r].stage = "done", ![r].reply = y]
  BY DEF CreateAiLog, Answer
<1> DEFINE h == [req[r] EXCEPT !.stage = "done", !.reply = y]
<1>2. /\ req' = [req EXCEPT ![r] = h] /\ UNCHANGED received
  BY <1>1 DEF CreateAiLog
<1>3. /\ h.stage = "done" /\ h.input = req[r].input
      /\ h.decision = req[r].decision
  BY DEF IInv, TypeOK, Handler
<1> HIDE DEF h
<1>4. Committed'
  BY <1>2, <1>3, CommittedKept DEF IInv, CommittedHandler, Admitted, Received
<1>5. ASSUME NEW q \in Requests
      PROVE  /\ req'[q] = IF q = r THEN h ELSE req[q]
             /\ VerdictOf(req'[q]) = VerdictOf(req[q])
  BY <1>2, <1>3 DEF IInv, TypeOK, VerdictOf
<1>6. UNCHANGED <<Verdicts, Delivered>>
  BY <1>2, <1>5 DEF Verdicts, Delivered
<1>7. Closed' = Closed \cup {r} /\ r \notin Closed
  BY <1>3, <1>5 DEF Closed
<1>8. Ledger' = Ledger \cup {<<r, status>>}
  <2> DEFINE row == [request |-> r, tenant |-> req[r].input.tenant,
                     user |-> req[r].input.user, status |-> status,
                     decision |-> req[r].decision, policy |-> policy,
                     tokens |-> req[r].tokens, time |-> now]
  <2>1. /\ aiLog' = aiLog \cup {row}
        /\ row.request = r /\ row.status = status
    BY DEF CreateAiLog
  <2> HIDE DEF row
  <2> QED
    BY <2>1 DEF Ledger
<1>9. Governed!Close(r)
  BY <1>6, <1>7, <1>8
  DEF Governed!Close, Verdicts, Delivered, Ledger, Closed
<1> QED
  BY <1>4, <1>9 DEF Simulated, Governed!Next

LEMMA LogSimulates ==
  ASSUME IInv, Committed, NEW r \in Requests,
         LogDenied(r) \/ LogSuccess(r) \/ LogFailed(r)
  PROVE  Simulated
<1>1. CASE LogDenied(r)
  <2>1. req[r].stage = "logDenied"
    BY <1>1 DEF LogDenied
  <2>2. VerdictOf(req[r]) = "refused"
    BY <2>1 DEF VerdictOf, IInv, HandlerInv, StageInv, Committed
  <2>3. Governed!MayRecord(r, "DENIED")
    BY <2>2 DEF Governed!MayRecord
  <2> QED
    BY <1>1, <2>1, <2>3, CreateAiLogSimulates DEF LogDenied
<1>2. CASE LogFailed(r)
  <2>1. req[r].stage = "logFailed"
    BY <1>2 DEF LogFailed
  <2>2. VerdictOf(req[r]) = "admitted"
    BY <2>1 DEF VerdictOf, IInv, HandlerInv, StageInv, Committed, Admitted,
                Allowing
  <2>3. Governed!MayRecord(r, "FAILED")
    BY <2>2 DEF Governed!MayRecord
  <2> QED
    BY <1>2, <2>1, <2>3, CreateAiLogSimulates DEF LogFailed
<1>3. CASE LogSuccess(r)
  <2>1. req[r].stage = "logSuccess"
    BY <1>3 DEF LogSuccess
  <2>2. Received(r)
    BY <2>1 DEF Committed
  <2>3. Governed!MayRecord(r, "SUCCESS")
    BY <2>2 DEF Governed!MayRecord, Received
  <2> QED
    BY <1>3, <2>1, <2>3, CreateAiLogSimulates DEF LogSuccess
<1> QED
  BY <1>1, <1>2, <1>3

LEMMA DatabaseFailsSimulates ==
  ASSUME IInv, Committed, NEW r \in Requests, DatabaseFails(r)
  PROVE  Simulated
<1>1. UNCHANGED <<received, aiLog>>
  BY DEF DatabaseFails, tables
<1>2. CASE req[r].stage # "idle"
  BY <1>1, <1>2, AnswerSimulates DEF DatabaseFails
<1>3. CASE req[r].stage = "idle"
  <2>1. PICK in \in Inputs :
          req' = [req EXCEPT ![r] = [Idle EXCEPT !.input = in,
                    !.stage = "done", !.reply = "error"]]
    BY <1>3 DEF DatabaseFails
  <2> DEFINE h == [Idle EXCEPT !.input = in, !.stage = "done",
                               !.reply = "error"]
  <2>2. h.stage = "done" /\ h.decision = "none"
    BY DEF Idle
  <2> HIDE DEF h
  <2>3. CommittedHandler(h, Received(r)) /\ VerdictOf(h) = "open"
    BY <2>2 DEF CommittedHandler, Admitted, VerdictOf
  <2>4. VerdictOf(req[r]) = "open" /\ req[r].stage # "done"
    BY <1>3, UndecidedIsOpen DEF Undecided
  <2> QED
    BY <1>1, <2>1, <2>3, <2>4, OpenStep DEF h, IInv
<1> QED
  BY <1>2, <1>3

-----------------------------------------------------------------------------
(* The theorem *)

LEMMA CrashSimulates ==
  ASSUME IInv, Committed, Crash
  PROVE  Simulated
<1>1. /\ UNCHANGED <<received, aiLog>>
      /\ req' = [r \in Requests |->
                   IF r \in InFlight
                     THEN [req[r] EXCEPT !.stage = "done", !.reply = "lost"]
                     ELSE req[r]]
  BY DEF Crash, tables
<1>2. ASSUME NEW r \in Requests
      PROVE  /\ req'[r].stage = IF r \in InFlight THEN "done" ELSE req[r].stage
             /\ req'[r].input = req[r].input
             /\ req'[r].decision = req[r].decision
  BY <1>1 DEF IInv, TypeOK, Handler
<1>3. Committed'
  <2>1. \A r \in Requests : req'[r].stage \in {"idle", "done"}
    BY <1>2 DEF InFlight
  <2> QED
    BY <2>1 DEF Committed, Admitted
<1>4. UNCHANGED <<Delivered, Ledger>>
  BY <1>1 DEF Delivered, Ledger
<1>5. UNCHANGED Verdicts
  BY <1>2 DEF Verdicts, VerdictOf
<1>6. Closed' = Closed \cup InFlight /\ InFlight \subseteq Requests \ Closed
  BY <1>2 DEF Closed, InFlight
<1>7. Governed!Abandon
  BY <1>4, <1>5, <1>6
  DEF Governed!Abandon, Verdicts, Delivered, Ledger, Closed
<1> QED
  BY <1>3, <1>7 DEF Simulated, Governed!Next

LEMMA NextSimulates ==
  ASSUME IInv, Committed, [Next]_vars
  PROVE  Simulated
<1>1. CASE UNCHANGED <<req, received, aiLog>>
  <2>1. Committed'
    BY <1>1 DEF Committed, Received
  <2>2. UNCHANGED <<Verdicts, Delivered, Ledger, Closed>>
    BY <1>1 DEF Verdicts, Delivered, Ledger, Closed
  <2> QED
    BY <2>1, <2>2, AbstractState DEF Simulated
<1>2. ASSUME NEW r \in Requests,
             LoadPolicies(r) \/ Handle(r) \/ Respond(r) \/ DatabaseFails(r)
      PROVE  Simulated
  BY <1>2, LoadPoliciesSimulates, EvaluationSimulates,
     LogPolicyDecisionSimulates, KeySimulates, ForwardSimulates,
     ProviderSimulates, LogSimulates, DatabaseFailsSimulates DEF Handle
<1>3. ASSUME NEW a \in Admins, Administer(a)
      PROVE  UNCHANGED <<req, received, aiLog>>
  BY <1>3 DEF Administer, CreatePolicy, UpdatePolicy, RemovePolicy, CreateKey,
              RotateKey, RemoveKey, BeginToggle, EndToggle, tables
<1>4. UNCHANGED vars \/ Tick => UNCHANGED <<req, received, aiLog>>
  BY DEF vars, tables, Tick
<1> QED
  BY <1>1, <1>2, <1>3, <1>4, CrashSimulates DEF Next

LEMMA InitSimulates ==
  ASSUME Init
  PROVE  Committed /\ Governed!Init
<1>1. \A r \in Requests : req[r] = Idle
  BY DEF Init
<1>2. Committed
  BY <1>1 DEF Committed, Idle, Admitted
<1>3. \A r \in Requests : VerdictOf(req[r]) = "open" /\ req[r].stage # "done"
  BY <1>1 DEF Idle, VerdictOf
<1>4. Governed!Init
  BY <1>3 DEF Governed!Init, Init
<1> QED
  BY <1>2, <1>4

\* The gateway keeps the promise of GovernedAccess: each request is judged at
\* most once, delivered only if admitted and at most once, recorded at most
\* once with an outcome its verdict allows, and left alone once it has ended.
THEOREM GatewayIsGoverned == Spec => GovernedSpec
<1>1. Init => Committed /\ Governed!Init
  BY InitSimulates
<1>2. IInv /\ Committed /\ [Next]_vars =>
        Committed' /\ [Governed!Next]_(Governed!vars)
  BY NextSimulates DEF Simulated
<1> QED
  BY <1>1, <1>2, InvariantHolds, PTL DEF Spec, GovernedSpec, Governed!Spec

\* The promise follows from the actions of GovernedAccess alone: a verdict is
\* given once, and only the closing of a request records it.
THEOREM PromiseHolds == Governed!Spec => []Governed!Promise
<1> DEFINE IPromise == Governed!TypeOK /\ Governed!Promise
<1>1. Governed!Init => IPromise
  BY DEF Governed!Init, Governed!TypeOK, Governed!Promise
<1>2. IPromise /\ [Governed!Next]_Governed!vars => IPromise'
  <2> SUFFICES ASSUME IPromise, [Governed!Next]_Governed!vars PROVE IPromise'
    OBVIOUS
  <2>1. CASE UNCHANGED Governed!vars
    BY <2>1 DEF Governed!vars, Governed!TypeOK, Governed!Promise
  <2>2. CASE Governed!Abandon
    BY <2>2 DEF Governed!Abandon, Governed!TypeOK, Governed!Promise
  <2>3. ASSUME NEW r \in Requests, Governed!Judge(r) PROVE IPromise'
    BY <2>3 DEF Governed!Judge, Governed!TypeOK, Governed!Promise
  <2>4. ASSUME NEW r \in Requests, Governed!Deliver(r) PROVE IPromise'
    BY <2>4 DEF Governed!Deliver, Governed!TypeOK, Governed!Promise
  <2>5. ASSUME NEW r \in Requests, Governed!Close(r) PROVE IPromise'
    <3> DEFINE ledger == {<<row.request, row.status>> : row \in aiLog}
    <3> DEFINE closed == {q \in Requests : req[q].stage = "done"}
    <3>1. PICK outcome \in {"SUCCESS", "FAILED", "DENIED"} :
            ledger' = ledger \cup {<<r, outcome>>}
      BY <2>5 DEF Governed!Close
    <3>2. /\ r \notin closed /\ closed' = closed \cup {r}
          /\ UNCHANGED <<[q \in Requests |-> VerdictOf(req[q])],
                        {c.request : c \in received}>>
      BY <2>5 DEF Governed!Close
    <3>p. /\ \A e, f \in ledger : e[1] = f[1] => e = f
          /\ \A e \in ledger : e[1] \in closed
          /\ ledger \subseteq Requests \X {"SUCCESS", "FAILED", "DENIED"}
      BY DEF Governed!Promise, Governed!TypeOK
    <3> HIDE DEF ledger, closed
    <3>3. ledger' \subseteq Requests \X {"SUCCESS", "FAILED", "DENIED"}
      BY <3>1, <3>p
    <3>4. \A e \in ledger : e[1] # r
      BY <3>2, <3>p
    <3>5. /\ \A e, f \in ledger' : e[1] = f[1] => e = f
          /\ \A e \in ledger' : e[1] \in closed'
      BY <3>1, <3>2, <3>4, <3>p
    <3>6. closed' \subseteq Requests
      BY DEF closed
    <3> QED
      BY <3>2, <3>3, <3>5, <3>6 DEF ledger, closed, Governed!TypeOK, Governed!Promise
  <2> QED
    BY <2>1, <2>2, <2>3, <2>4, <2>5 DEF Governed!Next
<1>3. IPromise => Governed!Promise
  OBVIOUS
<1> QED
  BY <1>1, <1>2, <1>3, PTL DEF Governed!Spec

\* So no request ever has two rows of different outcome in ai_logs, none has a
\* row while it is being handled, and what a provider received was admitted.
THEOREM GatewayKeepsPromise == Spec => []Governed!Promise
  BY GatewayIsGoverned, PromiseHolds DEF GovernedSpec

-----------------------------------------------------------------------------
(* The audit tables and the answers                                         *)

PastEvaluation(h) == h.stage \notin Undecided \cup {"logDecision"}

\* A row of ai_logs is about a handler that has ended, with the decision that
\* the handler took and, for a refusal, the policy that decided.
RowFits(row, h) ==
  /\ h.stage = "done"
  /\ row.decision = h.decision
  /\ row.status = "DENIED" => ~Allowing(h.decision) /\ row.policy = h.policy.id
  /\ row.status # "DENIED" => Allowing(h.decision)

\* A row of policy_logs repeats the match of a handler past the evaluation.
LogFits(l, h) ==
  /\ PastEvaluation(h)
  /\ h.policy # NoPolicy
  /\ l.policy = h.policy.id
  /\ l.decision = h.decision

\* What the answer of a handler, given at its end, says of its rows.
AnswerFits(h, rows, known) ==
  /\ h.reply # "none" => h.stage = "done"
  /\ \A x, y \in rows : x = y
  /\ rows # {} => h.reply \in {"ok", "providerError", "forbidden", "lost"}
  /\ h.reply \in {"ok", "providerError", "forbidden"} => rows # {}
  /\ \A row \in rows :
       /\ h.reply = "ok" => row.status = "SUCCESS"
       /\ h.reply = "providerError" => row.status = "FAILED"
       /\ h.reply = "forbidden" => row.status = "DENIED"
  /\ h.reply = "ok" => known

AuditInv ==
  /\ \A row \in aiLog : RowFits(row, req[row.request])
  /\ \A l \in policyLog : LogFits(l, req[l.request])
  /\ \A r \in Requests : AnswerFits(req[r], RowsOf(r), Received(r))

-----------------------------------------------------------------------------
(* Steps that write no row of ai_logs *)

\* A handler stands still, or it moves on and announces no row.
Moves(g, h) ==
  \/ h = g
  \/ /\ g.stage # "done"
     /\ h.reply # "none" => h.stage = "done"
     /\ h.reply \notin {"ok", "providerError", "forbidden"}
     /\ PastEvaluation(g) =>
          PastEvaluation(h) /\ h.decision = g.decision /\ h.policy = g.policy

\* A handler that has not ended has no row yet.
LEMMA NoRowYet ==
  ASSUME AuditInv, NEW r \in Requests, req[r].stage # "done"
  PROVE  RowsOf(r) = {} /\ req[r].reply = "none"
  BY DEF AuditInv, RowsOf, RowFits, AnswerFits

LEMMA MovingKeepsAudit ==
  ASSUME TypeOK, AuditInv, UNCHANGED aiLog, received \subseteq received',
         \A r \in Requests : Moves(req[r], req'[r]),
         \A l \in policyLog' : l \in policyLog \/ LogFits(l, req'[l.request])
  PROVE  AuditInv'
<1>1. ASSUME NEW row \in aiLog PROVE RowFits(row, req'[row.request])
  <2>1. row.request \in Requests /\ RowFits(row, req[row.request])
    BY DEF TypeOK, AiLogRow, AuditInv
  <2>2. req'[row.request] = req[row.request]
    BY <2>1 DEF Moves, RowFits
  <2> QED
    BY <2>1, <2>2
<1>2. ASSUME NEW l \in policyLog PROVE LogFits(l, req'[l.request])
  <2>1. l.request \in Requests /\ LogFits(l, req[l.request])
    BY DEF TypeOK, PolicyLogRow, AuditInv
  <2> QED
    BY <2>1 DEF Moves, LogFits
<1>3. ASSUME NEW r \in Requests
      PROVE  AnswerFits(req'[r], RowsOf(r), Received(r)')
  <2>1. Received(r) => Received(r)'
    BY DEF Received
  <2>2. AnswerFits(req[r], RowsOf(r), Received(r))
    BY DEF AuditInv
  <2>3. CASE req'[r] = req[r]
    BY <2>1, <2>2, <2>3 DEF AnswerFits
  <2>4. CASE req'[r] # req[r]
    <3>1. RowsOf(r) = {}
      BY <2>4, NoRowYet DEF Moves
    <3> QED
      BY <2>4, <3>1 DEF Moves, AnswerFits
  <2> QED
    BY <2>3, <2>4
<1>4. \A r : RowsOf(r)' = RowsOf(r)
  BY DEF RowsOf
<1> QED
  BY <1>1, <1>2, <1>3, <1>4 DEF AuditInv

\* One handler moves, and neither audit table is written.
LEMMA OneMoveKeepsAudit ==
  ASSUME TypeOK, AuditInv, UNCHANGED aiLog, policyLog' \subseteq policyLog,
         received \subseteq received',
         NEW r \in Requests, NEW h, req' = [req EXCEPT ![r] = h],
         Moves(req[r], h)
  PROVE  AuditInv'
<1>1. \A q \in Requests : req'[q] = IF q = r THEN h ELSE req[q]
  BY DEF TypeOK
<1>2. \A q \in Requests : Moves(req[q], req'[q])
  BY <1>1 DEF Moves
<1> QED
  BY <1>2, MovingKeepsAudit

LEMMA DecidedMoves ==
  ASSUME NEW g \in Handler, NEW d \in Decisions, NEW p \in PolicyRow \cup {NoPolicy}
  PROVE  LET h == Decided(g, d, p) IN
         /\ h.decision = d /\ h.policy = p
         /\ PastEvaluation(h)
         /\ h.reply # "none" => h.stage = "done"
         /\ h.reply \notin {"ok", "providerError", "forbidden"}
<1> DEFINE h == Decided(g, d, p)
<1>1. /\ h.stage = StageAfter(g.input, d) /\ h.reply = ReplyAfter(g.input, d)
      /\ h.decision = d /\ h.policy = p
  BY DEF Decided, Handler
<1> HIDE DEF h
<1>2. StageAfter(g.input, d) \notin Undecided \cup {"logDecision"}
  BY DEF StageAfter, Undecided
<1>3. /\ ReplyAfter(g.input, d) \in {"none", "evaluated", "badRequest"}
      /\ ReplyAfter(g.input, d) # "none" => StageAfter(g.input, d) = "done"
  BY DEF ReplyAfter
<1> QED
  BY <1>1, <1>2, <1>3 DEF PastEvaluation, h

LEMMA LoadPoliciesAudit ==
  ASSUME IInv, AuditInv, NEW r \in Requests, LoadPolicies(r)
  PROVE  AuditInv'
<1>1. req[r].stage = "idle" /\ UNCHANGED <<received, aiLog, policyLog>>
  BY DEF LoadPolicies, tables
<1>2. PICK in \in Inputs :
       LET active == {p \in policies : p.tenant = in.tenant /\ p.isActive}
           loaded == [Idle EXCEPT !.input = in, !.snapshot = active,
                                  !.stage = "evaluating"]
       IN req' = [req EXCEPT ![r] =
                    IF active = {} THEN Decided(loaded, "ALLOWED", NoPolicy)
                                   ELSE loaded]
  BY DEF LoadPolicies
<1> DEFINE active == {p \in policies : p.tenant = in.tenant /\ p.isActive}
           loaded == [Idle EXCEPT !.input = in, !.snapshot = active,
                                  !.stage = "evaluating"]
           h == IF active = {} THEN Decided(loaded, "ALLOWED", NoPolicy)
                               ELSE loaded
<1>3. req' = [req EXCEPT ![r] = h]
  BY <1>2
<1>4. active \subseteq PolicyRow
  BY DEF IInv, TypeOK
<1> HIDE DEF active
<1>5. loaded \in Handler /\ loaded.reply = "none"
  BY <1>4 DEF Idle, Handler, Stages, Replies
<1> HIDE DEF loaded
<1>6. h.reply # "none" => h.stage = "done"
  BY <1>5, DecidedMoves DEF Decisions
<1>7. h.reply \notin {"ok", "providerError", "forbidden"}
  BY <1>5, DecidedMoves DEF Decisions
<1>8. ~PastEvaluation(req[r]) /\ req[r].stage # "done"
  BY <1>1 DEF PastEvaluation, Undecided
<1> HIDE DEF h
<1>9. Moves(req[r], h)
  BY <1>6, <1>7, <1>8 DEF Moves
<1> QED
  BY <1>1, <1>3, <1>9, OneMoveKeepsAudit DEF IInv

LEMMA MatchAudit ==
  ASSUME IInv, AuditInv, NEW r \in Requests, NEW p, Match(r, p),
         req[r].stage \in {"evaluating", "readTokens"},
         UNCHANGED <<received, aiLog, policyLog>>
  PROVE  AuditInv'
<1> DEFINE h == [req[r] EXCEPT !.policy = p, !.decision = Decision(p.action),
                               !.stage = "logDecision"]
<1>1. req' = [req EXCEPT ![r] = h]
  BY DEF Match
<1>2. h.reply = req[r].reply
  BY DEF IInv, TypeOK, Handler
<1>3. req[r].reply = "none" /\ ~PastEvaluation(req[r]) /\ req[r].stage # "done"
  BY NoRowYet DEF PastEvaluation, Undecided
<1> HIDE DEF h
<1>4. Moves(req[r], h)
  BY <1>2, <1>3 DEF Moves
<1> QED
  BY <1>1, <1>4, OneMoveKeepsAudit DEF IInv

LEMMA PassAudit ==
  ASSUME IInv, AuditInv, NEW r \in Requests, NEW p \in PolicyRow, Pass(r, p),
         req[r].stage \in {"evaluating", "readTokens"},
         UNCHANGED <<received, aiLog, policyLog>>
  PROVE  AuditInv'
<1> DEFINE visited == [req[r] EXCEPT !.passed = @ \cup {p},
                                     !.stage = "evaluating"]
           h == IF visited.passed = visited.snapshot
                  THEN Decided(visited, "ALLOWED", NoPolicy) ELSE visited
<1>1. req' = [req EXCEPT ![r] = h]
  BY DEF Pass
<1>2. req[r].reply = "none" /\ ~PastEvaluation(req[r]) /\ req[r].stage # "done"
  BY NoRowYet DEF PastEvaluation, Undecided
<1>3. visited \in Handler /\ visited.reply = req[r].reply
  <2>1. req[r] \in Handler
    BY DEF IInv, TypeOK
  <2> QED
    BY <2>1 DEF Handler, Stages
<1> HIDE DEF visited
<1>4. /\ h.reply # "none" => h.stage = "done"
      /\ h.reply \notin {"ok", "providerError", "forbidden"}
  BY <1>2, <1>3, DecidedMoves DEF Decisions
<1> HIDE DEF h
<1>5. Moves(req[r], h)
  BY <1>2, <1>4 DEF Moves
<1> QED
  BY <1>1, <1>5, OneMoveKeepsAudit DEF IInv

LEMMA EvaluationAudit ==
  ASSUME IInv, AuditInv, NEW r \in Requests,
         EvaluatePolicy(r) \/ EvaluateTokenQuota(r)
  PROVE  AuditInv'
<1>1. /\ req[r].stage \in {"evaluating", "readTokens"}
      /\ UNCHANGED <<received, aiLog, policyLog>>
  BY DEF EvaluatePolicy, EvaluateTokenQuota, tables
<1>2. CASE EvaluatePolicy(r)
  <2>1. PICK p \in NextInOrder(req[r]) :
          \/ Match(r, p)
          \/ req' = [req EXCEPT ![r].stage = "readTokens", ![r].policy = p]
          \/ Pass(r, p)
    BY <1>2 DEF EvaluatePolicy
  <2>2. p \in PolicyRow
    BY DEF IInv, TypeOK, Handler, NextInOrder
  <2>3. CASE req' = [req EXCEPT ![r].stage = "readTokens", ![r].policy = p]
    <3> DEFINE h == [req[r] EXCEPT !.stage = "readTokens", !.policy = p]
    <3>1. req' = [req EXCEPT ![r] = h]
      BY <2>3
    <3>2. h.reply = req[r].reply
      BY DEF IInv, TypeOK, Handler
    <3>3. /\ req[r].reply = "none" /\ ~PastEvaluation(req[r])
          /\ req[r].stage # "done"
      BY <1>1, <1>2, NoRowYet DEF PastEvaluation, Undecided, EvaluatePolicy
    <3> HIDE DEF h
    <3>4. Moves(req[r], h)
      BY <3>2, <3>3 DEF Moves
    <3> QED
      BY <1>1, <3>1, <3>4, OneMoveKeepsAudit DEF IInv
  <2> QED
    BY <1>1, <2>1, <2>2, <2>3, MatchAudit, PassAudit
<1>3. CASE EvaluateTokenQuota(r)
  <2>1. /\ req[r].stage = "readTokens"
        /\ Match(r, req[r].policy) \/ Pass(r, req[r].policy)
    BY <1>3 DEF EvaluateTokenQuota
  <2>2. req[r].policy \in PolicyRow
    BY <2>1 DEF IInv, TypeOK, Handler, HandlerInv, OrderInv, NextInOrder
  <2> QED
    BY <1>1, <2>1, <2>2, MatchAudit, PassAudit
<1> QED
  BY <1>2, <1>3

\* The row written to policy_logs repeats the match the handler has made.
LEMMA LogPolicyDecisionAudit ==
  ASSUME IInv, AuditInv, NEW r \in Requests, LogPolicyDecision(r)
  PROVE  AuditInv'
<1> DEFINE g == req[r]
           h == Decided(g, g.decision, g.policy)
<1>1. /\ g.stage = "logDecision" /\ UNCHANGED <<received, aiLog>>
      /\ req' = [req EXCEPT ![r] = h]
  BY DEF LogPolicyDecision
<1>2. /\ g \in Handler /\ g.decision \in Decisions /\ g.policy \in PolicyRow
      /\ g.policy # NoPolicy
  BY <1>1 DEF IInv, TypeOK, HandlerInv, StageInv, Handler
<1>3. /\ h.decision = g.decision /\ h.policy = g.policy /\ PastEvaluation(h)
      /\ h.reply # "none" => h.stage = "done"
      /\ h.reply \notin {"ok", "providerError", "forbidden"}
  BY <1>2, DecidedMoves
<1> HIDE DEF h
<1>4. Moves(g, h)
  BY <1>1, <1>3 DEF Moves, PastEvaluation
<1>5. \A q \in Requests : req'[q] = IF q = r THEN h ELSE req[q]
  BY <1>1 DEF IInv, TypeOK
<1>6. \A q \in Requests : Moves(req[q], req'[q])
  BY <1>4, <1>5 DEF Moves
<1>7. \A l \in policyLog' : l \in policyLog \/ LogFits(l, req'[l.request])
  <2>1. ASSUME NEW l \in policyLog', l \notin policyLog
        PROVE  l.request = r /\ l.policy = g.policy.id /\ l.decision = g.decision
    BY <2>1 DEF LogPolicyDecision
  <2> QED
    BY <1>2, <1>3, <1>5, <2>1 DEF LogFits
<1> QED
  BY <1>1, <1>6, <1>7, MovingKeepsAudit DEF IInv

-----------------------------------------------------------------------------
(* Steps of chat() after the evaluation *)

\* A handler past the evaluation moves on, or ends without a row.
LEMMA ProceedAudit ==
  ASSUME IInv, AuditInv, NEW r \in Requests, NEW h,
         req[r].stage \in Admitted \cup {"logDenied"},
         req' = [req EXCEPT ![r] = h],
         h.decision = req[r].decision, h.policy = req[r].policy,
         h.stage \in Admitted \cup {"done"},
         \/ h.reply = req[r].reply
         \/ /\ h.stage = "done"
            /\ h.reply \notin {"ok", "providerError", "forbidden"},
         UNCHANGED <<aiLog, policyLog>>, received \subseteq received'
  PROVE  AuditInv'
<1>1. req[r].reply = "none"
  BY NoRowYet DEF Admitted
<1>2. PastEvaluation(h)
  BY DEF PastEvaluation, Admitted, Undecided
<1>3. Moves(req[r], h)
  BY <1>1, <1>2 DEF Moves, Admitted
<1> QED
  BY <1>3, OneMoveKeepsAudit DEF IInv

LEMMA ChatAudit ==
  ASSUME IInv, AuditInv, NEW r \in Requests,
         FindKey(r) \/ TouchKey(r) \/ Forward(r) \/ Respond(r)
  PROVE  AuditInv'
<1>1. /\ req[r].stage \in {"findKey", "touchKey", "forward", "calling"}
      /\ UNCHANGED <<aiLog, policyLog>> /\ received \subseteq received'
  BY DEF FindKey, TouchKey, Forward, Respond, ProviderAnswers, ProviderFails,
         tables
<1>2. req[r] \in Handler
  BY DEF IInv, TypeOK
<1>3. ASSUME NEW reply \in {"badRequest", "notFound"}, Answer(r, reply)
      PROVE  AuditInv'
  <2> DEFINE h == [req[r] EXCEPT !.stage = "done", !.reply = reply]
  <2>1. req' = [req EXCEPT ![r] = h]
    BY <1>3 DEF Answer
  <2>2. /\ h.stage = "done" /\ h.decision = req[r].decision
        /\ h.policy = req[r].policy /\ h.reply = reply
    BY <1>2 DEF Handler
  <2> HIDE DEF h
  <2> QED
    BY <1>1, <2>1, <2>2, ProceedAudit DEF Admitted
<1>4. ASSUME NEW s \in Admitted, Enter(r, s)
      PROVE  AuditInv'
  <2> DEFINE h == [req[r] EXCEPT !.stage = s]
  <2>1. req' = [req EXCEPT ![r] = h]
    BY <1>4 DEF Enter
  <2>2. /\ h.stage = s /\ h.decision = req[r].decision
        /\ h.policy = req[r].policy /\ h.reply = req[r].reply
    BY <1>2 DEF Handler
  <2> HIDE DEF h
  <2> QED
    BY <1>1, <2>1, <2>2, ProceedAudit DEF Admitted
<1>5. ASSUME NEW k, req' = [req EXCEPT ![r].key = k, ![r].stage = "touchKey"]
      PROVE  AuditInv'
  <2> DEFINE h == [req[r] EXCEPT !.key = k, !.stage = "touchKey"]
  <2>1. req' = [req EXCEPT ![r] = h]
    BY <1>5
  <2>2. /\ h.stage = "touchKey" /\ h.decision = req[r].decision
        /\ h.policy = req[r].policy /\ h.reply = req[r].reply
    BY <1>2 DEF Handler
  <2> HIDE DEF h
  <2> QED
    BY <1>1, <2>1, <2>2, ProceedAudit DEF Admitted
<1>6. ASSUME NEW t, req' = [req EXCEPT ![r].stage = "logSuccess", ![r].tokens = t]
      PROVE  AuditInv'
  <2> DEFINE h == [req[r] EXCEPT !.stage = "logSuccess", !.tokens = t]
  <2>1. req' = [req EXCEPT ![r] = h]
    BY <1>6
  <2>2. /\ h.stage = "logSuccess" /\ h.decision = req[r].decision
        /\ h.policy = req[r].policy /\ h.reply = req[r].reply
    BY <1>2 DEF Handler
  <2> HIDE DEF h
  <2> QED
    BY <1>1, <2>1, <2>2, ProceedAudit DEF Admitted
<1>7. \/ \E reply \in {"badRequest", "notFound"} : Answer(r, reply)
      \/ \E s \in Admitted : Enter(r, s)
      \/ \E k : req' = [req EXCEPT ![r].key = k, ![r].stage = "touchKey"]
      \/ \E t : req' = [req EXCEPT ![r].stage = "logSuccess", ![r].tokens = t]
  BY DEF FindKey, TouchKey, Forward, Respond, ProviderAnswers, ProviderFails,
         Admitted
<1> QED
  BY <1>3, <1>4, <1>5, <1>6, <1>7

\* The row says what the handler decided, and the answer what the row says.
LEMMA CreateAiLogAudit ==
  ASSUME IInv, AuditInv, NEW r \in Requests, req[r].stage # "done",
         PastEvaluation(req[r]),
         NEW status, NEW policy, NEW reply, CreateAiLog(r, status, policy, reply),
         \/ /\ status = "SUCCESS" /\ reply = "ok" /\ Received(r)
            /\ Allowing(req[r].decision)
         \/ /\ status = "FAILED" /\ reply = "providerError"
            /\ Allowing(req[r].decision)
         \/ /\ status = "DENIED" /\ reply = "forbidden"
            /\ policy = req[r].policy.id /\ ~Allowing(req[r].decision)
  PROVE  AuditInv'
<1>1. PICK y \in {reply, "lost"} :
        req' = [req EXCEPT ![r].stage = "done", ![r].reply = y]
  BY DEF CreateAiLog, Answer
<1> DEFINE h == [req[r] EXCEPT !.stage = "done", !.reply = y]
           new == [request |-> r, tenant |-> req[r].input.tenant,
                   user |-> req[r].input.user, status |-> status,
                   decision |-> req[r].decision, policy |-> policy,
                   tokens |-> req[r].tokens, time |-> now]
<1>2. /\ aiLog' = aiLog \cup {new} /\ UNCHANGED <<policyLog, received>>
      /\ req' = [req EXCEPT ![r] = h]
  BY <1>1 DEF CreateAiLog
<1>3. /\ h.stage = "done" /\ h.decision = req[r].decision
      /\ h.policy = req[r].policy /\ h.reply = y
  BY DEF IInv, TypeOK, Handler
<1>4. /\ new.request = r /\ new.status = status /\ new.policy = policy
      /\ new.decision = req[r].decision
  OBVIOUS
<1> HIDE DEF h, new
<1>5. \A q \in Requests : req'[q] = IF q = r THEN h ELSE req[q]
  BY <1>2 DEF IInv, TypeOK
<1>6. RowsOf(r) = {}
  BY NoRowYet
<1>7. \A row \in aiLog' : RowFits(row, req'[row.request])
  <2>1. RowFits(new, h)
    BY <1>3, <1>4 DEF RowFits
  <2>2. ASSUME NEW row \in aiLog PROVE RowFits(row, req'[row.request])
    <3>1. row.request \in Requests /\ row.request # r
      BY <1>6 DEF IInv, TypeOK, AiLogRow, RowsOf
    <3> QED
      BY <1>5, <3>1 DEF AuditInv
  <2> QED
    BY <1>2, <1>4, <1>5, <2>1, <2>2
<1>8. \A l \in policyLog' : LogFits(l, req'[l.request])
  <2> SUFFICES ASSUME NEW l \in policyLog PROVE LogFits(l, req'[l.request])
    BY <1>2
  <2>1. l.request \in Requests /\ LogFits(l, req[l.request])
    BY DEF IInv, TypeOK, PolicyLogRow, AuditInv
  <2>2. PastEvaluation(h)
    BY <1>3 DEF PastEvaluation, Undecided
  <2> QED
    BY <1>3, <1>5, <2>1, <2>2 DEF LogFits
<1>9. ASSUME NEW q \in Requests
      PROVE  AnswerFits(req'[q], RowsOf(q)', Received(q)')
  <2>1. Received(q)' <=> Received(q)
    BY <1>2 DEF Received
  <2>2. RowsOf(q)' = IF q = r THEN {new} ELSE RowsOf(q)
    BY <1>2, <1>4, <1>6 DEF RowsOf
  <2>3. CASE q = r
    BY <1>3, <1>4, <1>5, <2>1, <2>2, <2>3 DEF AnswerFits
  <2>4. CASE q # r
    BY <1>5, <2>1, <2>2, <2>4 DEF AuditInv, AnswerFits
  <2> QED
    BY <2>3, <2>4
<1> QED
  BY <1>7, <1>8, <1>9 DEF AuditInv

LEMMA LogAudit ==
  ASSUME IInv, Committed, AuditInv, NEW r \in Requests,
         LogDenied(r) \/ LogSuccess(r) \/ LogFailed(r)
  PROVE  AuditInv'
<1>1. CASE LogDenied(r)
  <2>1. /\ req[r].stage = "logDenied"
        /\ CreateAiLog(r, "DENIED", req[r].policy.id, "forbidden")
    BY <1>1 DEF LogDenied
  <2>2. ~Allowing(req[r].decision) /\ PastEvaluation(req[r])
    BY <2>1 DEF IInv, HandlerInv, StageInv, PastEvaluation, Undecided
  <2> QED
    BY <2>1, <2>2, CreateAiLogAudit
<1>2. CASE LogSuccess(r)
  <2>1. /\ req[r].stage = "logSuccess"
        /\ CreateAiLog(r, "SUCCESS", NoPolicy, "ok")
    BY <1>2 DEF LogSuccess
  <2>2. /\ Allowing(req[r].decision) /\ PastEvaluation(req[r]) /\ Received(r)
    BY <2>1
    DEF IInv, HandlerInv, StageInv, PastEvaluation, Undecided, Admitted, Committed
  <2> QED
    BY <2>1, <2>2, CreateAiLogAudit
<1>3. CASE LogFailed(r)
  <2>1. /\ req[r].stage = "logFailed"
        /\ CreateAiLog(r, "FAILED", NoPolicy, "providerError")
    BY <1>3 DEF LogFailed
  <2>2. Allowing(req[r].decision) /\ PastEvaluation(req[r])
    BY <2>1
    DEF IInv, HandlerInv, StageInv, PastEvaluation, Undecided, Admitted
  <2> QED
    BY <2>1, <2>2, CreateAiLogAudit
<1> QED
  BY <1>1, <1>2, <1>3

LEMMA DatabaseFailsAudit ==
  ASSUME IInv, AuditInv, NEW r \in Requests, DatabaseFails(r)
  PROVE  AuditInv'
<1>1. UNCHANGED <<received, aiLog, policyLog>>
  BY DEF DatabaseFails, tables
<1>2. CASE req[r].stage = "idle"
  <2>1. PICK in \in Inputs :
          req' = [req EXCEPT ![r] = [Idle EXCEPT !.input = in,
                    !.stage = "done", !.reply = "error"]]
    BY <1>2 DEF DatabaseFails
  <2> DEFINE h == [Idle EXCEPT !.input = in, !.stage = "done", !.reply = "error"]
  <2>2. h.stage = "done" /\ h.reply = "error"
    BY DEF Idle
  <2> HIDE DEF h
  <2>3. Moves(req[r], h)
    BY <1>2, <2>2 DEF Moves, PastEvaluation, Undecided
  <2> QED
    BY <1>1, <2>1, <2>3, OneMoveKeepsAudit DEF IInv, h
<1>3. CASE req[r].stage # "idle"
  <2> DEFINE h == [req[r] EXCEPT !.stage = "done", !.reply = "error"]
  <2>1. req' = [req EXCEPT ![r] = h] /\ req[r].stage # "done"
    BY <1>3 DEF DatabaseFails, Answer
  <2>2. /\ h.stage = "done" /\ h.decision = req[r].decision
        /\ h.policy = req[r].policy /\ h.reply = "error"
    BY DEF IInv, TypeOK, Handler
  <2> HIDE DEF h
  <2>3. Moves(req[r], h)
    BY <2>1, <2>2 DEF Moves, PastEvaluation, Undecided
  <2> QED
    BY <1>1, <2>1, <2>3, OneMoveKeepsAudit DEF IInv
<1> QED
  BY <1>2, <1>3

LEMMA CrashAudit ==
  ASSUME IInv, AuditInv, Crash
  PROVE  AuditInv'
<1>1. /\ UNCHANGED <<received, aiLog, policyLog>>
      /\ req' = [r \in Requests |->
                   IF r \in InFlight
                     THEN [req[r] EXCEPT !.stage = "done", !.reply = "lost"]
                     ELSE req[r]]
  BY DEF Crash, tables
<1>2. ASSUME NEW r \in Requests PROVE Moves(req[r], req'[r])
  <2>1. CASE r \in InFlight
    <3>1. /\ req'[r].stage = "done" /\ req'[r].reply = "lost"
          /\ req'[r].decision = req[r].decision /\ req'[r].policy = req[r].policy
      BY <1>1, <2>1 DEF IInv, TypeOK, Handler
    <3> QED
      BY <2>1, <3>1 DEF Moves, PastEvaluation, Undecided, InFlight
  <2>2. CASE r \notin InFlight
    BY <1>1, <2>2 DEF Moves
  <2> QED
    BY <2>1, <2>2
<1> QED
  BY <1>1, <1>2, MovingKeepsAudit DEF IInv

-----------------------------------------------------------------------------
(* The audit theorems *)

LEMMA InitAudit ==
  ASSUME Init PROVE AuditInv
  BY DEF Init, AuditInv, Idle, RowsOf, AnswerFits

LEMMA NextAudit ==
  ASSUME IInv, Committed, AuditInv, [Next]_vars
  PROVE  AuditInv'
<1>1. CASE UNCHANGED <<req, received, aiLog>> /\ policyLog' \subseteq policyLog
  BY <1>1, MovingKeepsAudit DEF IInv, Moves
<1>2. ASSUME NEW r \in Requests,
             LoadPolicies(r) \/ Handle(r) \/ Respond(r) \/ DatabaseFails(r)
      PROVE  AuditInv'
  BY <1>2, LoadPoliciesAudit, EvaluationAudit, LogPolicyDecisionAudit,
     ChatAudit, LogAudit, DatabaseFailsAudit DEF Handle
<1>3. ASSUME NEW a \in Admins, Administer(a)
      PROVE  UNCHANGED <<req, received, aiLog>> /\ policyLog' \subseteq policyLog
  BY <1>3 DEF Administer, CreatePolicy, UpdatePolicy, RemovePolicy, CreateKey,
              RotateKey, RemoveKey, BeginToggle, EndToggle, tables
<1>4. Tick \/ UNCHANGED vars =>
        UNCHANGED <<req, received, aiLog>> /\ policyLog' \subseteq policyLog
  BY DEF Tick, tables, vars
<1> QED
  BY <1>1, <1>2, <1>3, <1>4, CrashAudit DEF Next

LEMMA AuditInvariant == Spec => [](IInv /\ AuditInv)
<1>1. Init => Committed /\ AuditInv
  BY InitSimulates, InitAudit
<1>2. IInv /\ Committed /\ AuditInv /\ [Next]_vars => Committed' /\ AuditInv'
  BY NextSimulates, NextAudit DEF Simulated
<1> QED
  BY <1>1, <1>2, InvariantHolds, PTL DEF Spec

\* Whatever policies administrators change or delete meanwhile, and however
\* requests overlap and fail: the two audit tables agree, and a refusal names
\* the first policy that matched in priority order, which blocked it.
THEOREM AuditIsTruthful == Spec => []AuditIsTrue
<1>1. ASSUME IInv, AuditInv, NEW l \in policyLog
      PROVE  /\ \A row \in RowsOf(l.request) :
                  /\ row.decision = l.decision
                  /\ row.status = "DENIED" => row.policy = l.policy
             /\ Received(l.request) => Allowing(l.decision)
  <2>1. l.request \in Requests /\ LogFits(l, req[l.request])
    BY <1>1 DEF IInv, TypeOK, PolicyLogRow, AuditInv
  <2>2. \A row \in RowsOf(l.request) : RowFits(row, req[l.request])
    BY <1>1 DEF AuditInv, RowsOf
  <2> QED
    BY <1>1, <2>1, <2>2 DEF LogFits, RowFits, IInv, ReceivedInv
<1>2. ASSUME IInv, AuditInv, NEW row \in aiLog, row.status = "DENIED"
      PROVE  LET h == req[row.request] IN
             /\ ~Allowing(row.decision)
             /\ \E p \in h.snapshot :
                  /\ p.id = row.policy
                  /\ Decision(p.action) = row.decision
                  /\ \A q \in h.snapshot :
                       q.priority > p.priority => ~ContentMatch(q, h.input)
  <2> DEFINE h == req[row.request]
  <2>1. row.request \in Requests /\ row.decision \in Decisions
    BY <1>2 DEF IInv, TypeOK, AiLogRow
  <2>2. /\ ~Allowing(h.decision) /\ row.policy = h.policy.id
        /\ row.decision = h.decision
    BY <1>2 DEF AuditInv, RowFits
  <2>3. OrderInv(h) /\ DecisionInv(h) /\ h \in Handler
    BY <1>2, <2>1 DEF IInv, TypeOK, HandlerInv
  <2> HIDE DEF h
  <2>4. h.policy \in NextInOrder(h) /\ h.decision = Decision(h.policy.action)
    BY <2>1, <2>2, <2>3 DEF DecisionInv, Allowing, Decisions
  <2>5. h.policy \in h.snapshot
    BY <2>4 DEF NextInOrder
  <2>6. ASSUME NEW q \in h.snapshot, q.priority > h.policy.priority
        PROVE  ~ContentMatch(q, h.input)
    <3>1. q.priority \in Nat /\ h.policy.priority \in Nat
      BY <2>3, <2>5, PolicyConstantsAssumption DEF Handler, PolicyRow
    <3>2. q \in h.passed
      BY <2>4, <2>6, <3>1 DEF NextInOrder
    <3> QED
      BY <2>3, <3>2 DEF OrderInv
  <2> QED
    BY <2>2, <2>4, <2>5, <2>6 DEF h
<1>3. IInv /\ AuditInv => AuditIsTrue
  BY <1>1, <1>2 DEF AuditIsTrue, AuditTablesAgree, RefusalNamesFirstMatch
<1> QED
  BY <1>3, AuditInvariant, PTL

\* What a caller is told and what ai_logs says agree, whatever is lost or fails
\* between the two: a refusal, a success and a provider's error have exactly
\* their row, an answer that was lost at most one, every other answer none.
THEOREM AnswersAreAudited == Spec => []AnswerMatchesAudit
<1>1. ASSUME IInv, AuditInv, NEW r \in Requests
      PROVE  LET status == {row.status : row \in RowsOf(r)} IN
             CASE req[r].reply = "ok"            -> status = {"SUCCESS"} /\ Received(r)
               [] req[r].reply = "providerError" -> status = {"FAILED"}
               [] req[r].reply = "forbidden"     -> status = {"DENIED"} /\ ~Received(r)
               [] req[r].reply = "lost"          -> Cardinality(RowsOf(r)) <= 1
               [] OTHER                          -> RowsOf(r) = {}
  <2> DEFINE status == {row.status : row \in RowsOf(r)}
  <2>1. AnswerFits(req[r], RowsOf(r), Received(r))
    BY <1>1 DEF AuditInv
  <2>2. CASE req[r].reply = "ok"
    BY <2>1, <2>2 DEF AnswerFits
  <2>3. CASE req[r].reply = "providerError"
    BY <2>1, <2>3 DEF AnswerFits
  <2>4. CASE req[r].reply = "forbidden"
    <3>1. status = {"DENIED"}
      BY <2>1, <2>4 DEF AnswerFits
    <3>2. PICK row \in RowsOf(r) : row.status = "DENIED"
      BY <3>1
    <3>3. ~Allowing(req[r].decision)
      BY <1>1, <3>2 DEF AuditInv, RowFits, RowsOf
    <3>4. ~Received(r)
      BY <1>1, <3>3 DEF IInv, ReceivedInv
    <3> QED
      BY <2>4, <3>1, <3>4
  <2>5. CASE req[r].reply = "lost"
    <3>1. RowsOf(r) = {} \/ \E row \in RowsOf(r) : RowsOf(r) = {row}
      BY <2>1 DEF AnswerFits
    <3>2. Cardinality(RowsOf(r)) \in {0, 1}
      BY <3>1, FS_EmptySet, FS_Singleton
    <3> QED
      BY <2>5, <3>2
  <2>6. CASE req[r].reply \notin {"ok", "providerError", "forbidden", "lost"}
    BY <2>1, <2>6 DEF AnswerFits
  <2> QED
    BY <2>2, <2>3, <2>4, <2>5, <2>6
<1>2. IInv /\ AuditInv => AnswerMatchesAudit
  BY <1>1 DEF AnswerMatchesAudit
<1> QED
  BY <1>2, AuditInvariant, PTL
=============================================================================
