--------------------------- MODULE GovernedAccess ---------------------------
(***************************************************************************)
(* What the gateway promises of each request, whatever policies, keys and  *)
(* failures do: it is judged at most once; only an admitted request is     *)
(* delivered to a provider, at most once; the ledger gets at most one      *)
(* entry for it, with the outcome that its verdict and delivery allow, and *)
(* nothing happens to it once it is closed.                                *)
(***************************************************************************)
CONSTANT Requests

VARIABLES
  verdict,    \* per request: "open", "admitted" or "refused"
  delivered,  \* requests a provider has received
  ledger,     \* pairs of a request and an outcome
  closed      \* requests that have ended

vars == <<verdict, delivered, ledger, closed>>

TypeOK ==
  /\ verdict \in [Requests -> {"open", "admitted", "refused"}]
  /\ delivered \subseteq Requests
  /\ ledger \subseteq Requests \X {"SUCCESS", "FAILED", "DENIED"}
  /\ closed \subseteq Requests

Init ==
  /\ verdict = [r \in Requests |-> "open"]
  /\ delivered = {}
  /\ ledger = {}
  /\ closed = {}

Judge(r) ==
  /\ r \notin closed
  /\ verdict[r] = "open"
  /\ \E v \in {"admitted", "refused"} : verdict' = [verdict EXCEPT ![r] = v]
  /\ UNCHANGED <<delivered, ledger, closed>>

Deliver(r) ==
  /\ r \notin closed \cup delivered
  /\ verdict[r] = "admitted"
  /\ delivered' = delivered \cup {r}
  /\ UNCHANGED <<verdict, ledger, closed>>

MayRecord(r, outcome) ==
  CASE outcome = "DENIED"  -> verdict[r] = "refused"
    [] outcome = "FAILED"  -> verdict[r] = "admitted"
    [] outcome = "SUCCESS" -> r \in delivered

Close(r) ==
  /\ r \notin closed
  /\ \E outcome \in {"SUCCESS", "FAILED", "DENIED"} :
       /\ MayRecord(r, outcome)
       /\ ledger' = ledger \cup {<<r, outcome>>}
  /\ closed' = closed \cup {r}
  /\ UNCHANGED <<verdict, delivered>>

\* Requests end without an entry: an error before the ledger, or a crash.
Abandon ==
  /\ \E lost \in SUBSET (Requests \ closed) : closed' = closed \cup lost
  /\ UNCHANGED <<verdict, delivered, ledger>>

Next == Abandon \/ \E r \in Requests : Judge(r) \/ Deliver(r) \/ Close(r)

Spec == Init /\ [][Next]_vars

\* A refused request is never delivered, a delivered one was admitted, and the
\* ledger holds at most one entry per request, none for one still open.
Promise ==
  /\ \A r \in delivered : verdict[r] = "admitted"
  /\ \A e, f \in ledger : e[1] = f[1] => e = f
  /\ \A e \in ledger : e[1] \in closed
=============================================================================
