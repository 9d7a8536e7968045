--------------------------- MODULE GovernedGateway ---------------------------
(***************************************************************************)
(* The gateway implements GovernedAccess.  A chat is judged when evaluate()*)
(* fixes its decision; a dry run and a chat for an unknown provider stay   *)
(* open, for they can neither be delivered nor recorded.                   *)
(***************************************************************************)
EXTENDS AiGateway

VerdictOf(handler) ==
  IF \/ handler.decision = "none"
     \/ StageAfter(handler.input, handler.decision) = "done" THEN "open"
  ELSE IF Allowing(handler.decision) THEN "admitted" ELSE "refused"

Governed == INSTANCE GovernedAccess WITH
  verdict   <- [r \in Requests |-> VerdictOf(req[r])],
  delivered <- {c.request : c \in received},
  ledger    <- {<<row.request, row.status>> : row \in aiLog},
  closed    <- {r \in Requests : req[r].stage = "done"}

\* Every step of the gateway is a step GovernedAccess allows, or none of its
\* business: judge once, deliver only what is admitted, record once, end.
GovernedSpec == Governed!Spec

\* What a handler's stage tells of its verdict, beside AiGateway's IInv: past
\* the evaluation it is no longer open, and a call under way was received.
Committed ==
  \A r \in Requests :
    /\ req[r].stage \in Admitted \cup {"logDenied"} =>
         StageAfter(req[r].input, req[r].decision) # "done"
    /\ req[r].stage \in {"calling", "logSuccess"} => Received(r)

=============================================================================
