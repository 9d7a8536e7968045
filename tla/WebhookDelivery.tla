---------------------------- MODULE WebhookDelivery ----------------------------
(***************************************************************************)
(* WebhooksService: administrators create, change and delete webhooks,     *)
(* trigger() starts one delivery per subscribed webhook without waiting    *)
(* for it, and each delivery posts, logs and retries on its own.  The      *)
(* receiver is external: it answers, hangs up or is never reached, and the *)
(* ten-second timeout turns the silent cases into a failed attempt.        *)
(*                                                                         *)
(* A delivery runs under "void": what it rejects with is an unhandled      *)
(* rejection.  Node ends the process then, unless an error tracker has     *)
(* installed a handler of its own.                                         *)
(***************************************************************************)
EXTENDS Naturals, FiniteSets

CONSTANTS
  Hooks,        \* ids of webhooks
  Events,       \* occurrences that are triggered once each
  MaxRetries,   \* MAX_RETRIES
  RejectionEndsProcess,  \* what an unhandled rejection may do: a set of BOOLEANs
  InitialHooks,
  MaxFaults     \* bound on the failing database calls of an instance

ASSUME WebhookAssumption ==
  /\ MaxRetries \in Nat /\ MaxFaults \in Nat
  /\ RejectionEndsProcess \subseteq BOOLEAN /\ RejectionEndsProcess # {}

VARIABLES
  hooks,      \* Hooks -> row of webhooks, with what became of it
  delivery,   \* Events \X Hooks -> execution of deliverWebhook()
  triggered,  \* the events triggered so far
  logs,       \* Events \X Hooks -> what webhook_logs says of the delivery
  sent,       \* history: Events \X Hooks -> calls the receiver got and approved
  faults

vars == <<hooks, delivery, triggered, logs, sent, faults>>

Hook == [status : {"unborn", "stored", "gone"}, isActive : BOOLEAN,
         events : SUBSET Events, failureCount : Nat]
Delivery == [step : {"none", "send", "answered", "approved", "exhausted",
                     "refused", "done", "lost"},
             attempt : Nat, ok : BOOLEAN, upset : Nat]  \* upset: history, failed calls
LogRows == [approved : Nat, refused : Nat, gaveUp : Nat]
Traffic == [received : Nat, approved : Nat]

Pairs == Events \X Hooks
Idle == [step |-> "none", attempt |-> 0, ok |-> FALSE, upset |-> 0]
Running(d) == delivery[d].step \notin {"none", "done", "lost"}
HookOf(d) == hooks[d[2]]

Init ==
  /\ hooks = InitialHooks
  /\ delivery = [d \in Pairs |-> Idle]
  /\ triggered = {}
  /\ logs = [d \in Pairs |-> [approved |-> 0, refused |-> 0, gaveUp |-> 0]]
  /\ sent = [d \in Pairs |-> [received |-> 0, approved |-> 0]]
  /\ faults = 0

Fault == faults < MaxFaults /\ faults' = faults + 1

-----------------------------------------------------------------------------
\* Administration.  update() and remove() look the row up and write by id: the
\* second call fails when the row went in between, and changes nothing.
AdminFrame == UNCHANGED <<delivery, triggered, logs, sent, faults>>
Create(h, events) ==
  /\ hooks[h].status = "unborn"
  /\ hooks' = [hooks EXCEPT ![h] = [status |-> "stored", isActive |-> TRUE,
                                    events |-> events, failureCount |-> 0]]
  /\ AdminFrame
Update(h, events, isActive) ==
  /\ hooks[h].status = "stored"
  /\ hooks' = [hooks EXCEPT ![h].events = events, ![h].isActive = isActive]
  /\ AdminFrame
Remove(h) ==
  /\ hooks[h].status = "stored"
  /\ hooks' = [hooks EXCEPT ![h].status = "gone"]
  /\ AdminFrame

\* trigger(): the active subscribers, each with a delivery of its own.
Trigger(e) ==
  /\ e \notin triggered /\ triggered' = triggered \cup {e}
  /\ delivery' = [d \in Pairs |->
       IF /\ d[1] = e /\ HookOf(d).status = "stored"
          /\ HookOf(d).isActive /\ e \in HookOf(d).events
       THEN [Idle EXCEPT !.step = "send"] ELSE delivery[d]]
  /\ UNCHANGED <<hooks, logs, sent, faults>>

-----------------------------------------------------------------------------
\* deliverWebhook().  The next round of the loop, or the end of it.
\* Variant: one attempt more than the loop has.
NextRoundInclusive(r) ==
  [r EXCEPT !.attempt = @ + 1,
            !.step = IF r.attempt <= MaxRetries THEN "send" ELSE "exhausted"]
NextRound(r) ==
  [r EXCEPT !.attempt = @ + 1,
            !.step = IF r.attempt < MaxRetries THEN "send" ELSE "exhausted"]
Upset(r) == [r EXCEPT !.upset = @ + 1]

\* The call reaches the receiver or not, and its answer comes back or not.
Attempt(d, reached, answered, ok) ==
  /\ delivery[d].step = "send" /\ (answered => reached)
  /\ sent' = [sent EXCEPT
       ![d].received = IF reached THEN @ + 1 ELSE @,
       ![d].approved = IF reached /\ ok THEN @ + 1 ELSE @]
  /\ delivery' = [delivery EXCEPT ![d] =
       IF answered THEN [@ EXCEPT !.step = "answered", !.ok = ok]
       ELSE Upset(NextRound(@))]
  /\ UNCHANGED <<hooks, triggered, logs, faults>>

\* Variant: every answer is logged as a success.
LogAnswerBlindly(d) ==
  /\ delivery[d].step = "answered"
  /\ logs' = [logs EXCEPT ![d].approved = @ + 1]
  /\ delivery' = [delivery EXCEPT ![d] =
       IF @.ok THEN [@ EXCEPT !.step = "approved"] ELSE NextRound(@)]
  /\ UNCHANGED <<hooks, triggered, sent, faults>>
LogAnswer(d) ==
  /\ delivery[d].step = "answered"
  /\ logs' = [logs EXCEPT
       ![d].approved = IF delivery[d].ok THEN @ + 1 ELSE @,
       ![d].refused = IF delivery[d].ok THEN @ ELSE @ + 1]
  /\ delivery' = [delivery EXCEPT ![d] =
       IF @.ok THEN [@ EXCEPT !.step = "approved"] ELSE NextRound(@)]
  /\ UNCHANGED <<hooks, triggered, sent, faults>>

\* Variant: no return after a success: the loop goes round again.
SucceedWithoutReturn(d) ==
  /\ delivery[d].step = "approved" /\ HookOf(d).status = "stored"
  /\ hooks' = [hooks EXCEPT ![d[2]].failureCount = 0]
  /\ delivery' = [delivery EXCEPT ![d] = NextRound(@)]
  /\ UNCHANGED <<triggered, logs, sent, faults>>
Succeed(d) ==
  /\ delivery[d].step = "approved" /\ HookOf(d).status = "stored"
  /\ hooks' = [hooks EXCEPT ![d[2]].failureCount = 0]
  /\ delivery' = [delivery EXCEPT ![d].step = "done"]
  /\ UNCHANGED <<triggered, logs, sent, faults>>

\* A database call of the loop fails, or finds the webhook gone: the catch
\* takes it for a failed attempt.
CallFails(d) ==
  /\ \/ delivery[d].step \in {"answered", "approved"} /\ Fault
     \/ /\ delivery[d].step = "approved" /\ HookOf(d).status = "gone"
        /\ UNCHANGED faults
  /\ delivery' = [delivery EXCEPT ![d] = Upset(NextRound(@))]
  /\ UNCHANGED <<hooks, triggered, logs, sent>>

\* Variant: the failure is counted before it is logged.
GiveUpCountedFirst(d) ==
  /\ delivery[d].step = "exhausted"
  /\ hooks' = [hooks EXCEPT ![d[2]].failureCount = @ + 1]
  /\ delivery' = [delivery EXCEPT ![d].step = "refused"]
  /\ UNCHANGED <<triggered, logs, sent, faults>>
\* Variant: the last error is thrown on instead of logged.
GiveUpThrowing(d) ==
  /\ delivery[d].step = "exhausted"
  /\ delivery' = [delivery EXCEPT ![d].step = "lost"]
  /\ UNCHANGED <<hooks, triggered, logs, sent, faults>>
GiveUp(d) ==
  /\ delivery[d].step = "exhausted"
  /\ logs' = [logs EXCEPT ![d].gaveUp = @ + 1]
  /\ delivery' = [delivery EXCEPT ![d].step = "refused"]
  /\ UNCHANGED <<hooks, triggered, sent, faults>>
CountFailure(d) ==
  /\ delivery[d].step = "refused" /\ HookOf(d).status = "stored"
  /\ hooks' = [hooks EXCEPT ![d[2]].failureCount = @ + 1]
  /\ delivery' = [delivery EXCEPT ![d].step = "done"]
  /\ UNCHANGED <<triggered, logs, sent, faults>>

\* Variant: the count waits for a webhook that is gone.
RejectedOnFault(d, ends) ==
  /\ delivery[d].step \in {"exhausted", "refused"} /\ Fault
  /\ delivery' = [i \in Pairs |->
       IF i = d \/ (ends /\ Running(i)) THEN [delivery[i] EXCEPT !.step = "lost"]
       ELSE delivery[i]]
  /\ UNCHANGED <<hooks, triggered, logs, sent>>
\* After the loop nothing catches: the delivery rejects, and with it may go the
\* process and every other delivery.
Rejected(d, ends) ==
  /\ \/ delivery[d].step \in {"exhausted", "refused"} /\ Fault
     \/ /\ delivery[d].step = "refused" /\ HookOf(d).status = "gone"
        /\ UNCHANGED faults
  /\ delivery' = [i \in Pairs |->
       IF i = d \/ (ends /\ Running(i)) THEN [delivery[i] EXCEPT !.step = "lost"]
       ELSE delivery[i]]
  /\ UNCHANGED <<hooks, triggered, logs, sent>>

Deliver(d) ==
  \/ \E reached, answered, ok \in BOOLEAN : Attempt(d, reached, answered, ok)
  \/ LogAnswer(d) \/ Succeed(d) \/ CallFails(d)
  \/ GiveUp(d) \/ CountFailure(d)
  \/ \E ends \in RejectionEndsProcess : Rejected(d, ends)

Administer ==
  \E h \in Hooks :
    \/ \E events \in SUBSET Events : Create(h, events)
    \/ \E events \in SUBSET Events, isActive \in BOOLEAN : Update(h, events, isActive)
    \/ Remove(h)

Next == \/ Administer
        \/ \E e \in Events : Trigger(e)
        \/ \E d \in Pairs : Deliver(d)

Spec == Init /\ [][Next]_vars
\* Every await of a delivery settles: fetch has its timeout, the delays end and
\* the database answers or fails.
FairSpec == Spec /\ \A d \in Pairs : WF_vars(Deliver(d))

-----------------------------------------------------------------------------
\* Webhooks, deliveries, logs and counters keep their types, and no delivery
\* makes more than MAX_RETRIES + 1 attempts.
TypeOK ==
  /\ hooks \in [Hooks -> Hook] /\ delivery \in [Pairs -> Delivery]
  /\ triggered \subseteq Events
  /\ logs \in [Pairs -> LogRows] /\ sent \in [Pairs -> Traffic]
  /\ \A d \in Pairs : /\ delivery[d].attempt <= MaxRetries + 1
                      /\ sent[d].received <= MaxRetries + 1

\* deliverWebhook(), the catch of the loop: a receiver that approved a call is
\* called again only after an answer that was lost or a database call that
\* failed, once for each.
DuplicatesExplained ==
  \A d \in Pairs : sent[d].approved <= 1 + delivery[d].upset

\* webhook_logs: a success is logged for a call the receiver approved, and a
\* delivery that logs a success and gives up as well had a failing call between.
VerdictsAgree ==
  \A d \in Pairs :
    /\ logs[d].approved <= sent[d].approved
    /\ logs[d].refused <= sent[d].received - sent[d].approved
    /\ logs[d].approved > 0 /\ logs[d].gaveUp > 0 => delivery[d].upset > 0

\* failureCount: a webhook is charged only with deliveries whose failure stands
\* in the log, whatever deliveries run side by side.
FailuresAreLogged ==
  \A h \in Hooks :
    hooks[h].failureCount <= Cardinality({e \in Events : logs[<<e, h>>].gaveUp > 0})

\* The unawaited promises: a delivery that disappears without a verdict needs a
\* failing database call or a webhook deleted under some delivery.
LossIsExplained ==
  (\E d \in Pairs : delivery[d].step = "lost")
    => faults > 0 \/ \E h \in Hooks : hooks[h].status = "gone"

\* What the tables say of the deliveries, whatever fails meanwhile.
OutcomesExplained == VerdictsAgree /\ FailuresAreLogged /\ LossIsExplained

\* trigger(): every delivery it started comes to an end.
DeliveriesEnd == \A d \in Pairs : Running(d) ~> ~Running(d)
=============================================================================
