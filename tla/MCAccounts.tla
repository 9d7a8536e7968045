------------------------------ MODULE MCAccounts ------------------------------
(***************************************************************************)
(* Instances of AuthSessions for TLC.  A behaviour picks a scenario and    *)
(* keeps to it: the calls that overlap, and the passwords they are given.  *)
(***************************************************************************)
EXTENDS AuthSessions, TLC

CONSTANTS
  u1, u2, old, new, wrong, admin, t1,
  Actors, Roles, Tenants, Signers, Guarded, Endpoints, Lifetime,  \* RequestAccess
  InitialAccounts, MaxInstant, MaxSigned,
  NoTenant, NoHandler, NoRequest

VARIABLES accounts, tokens, signing, request, instant, lost, scenario

\* Handlers and session ids are interchangeable: no definition names one.
AccountSymmetry == Permutations(Calls) \cup Permutations(SessionIds)

Account == [password |-> old, loginAttempts |-> 0, lockedUntil |-> NoTime,
            resetToken |-> NoToken, resetExpires |-> NoTime,
            verifyToken |-> NoToken, verified |-> TRUE,
            isActive |-> TRUE, deleted |-> FALSE]
\* u2 has yet to register.
OneRegistered == [u \in Users |-> IF u = u1 THEN Account ELSE NoUser]

\* Right and wrong passwords, as locks expire.
Lockout == INSTANCE AuthSessions
  WITH Offered <- {"login"}, Passwords <- {old, wrong}
\* Sessions opened and closed around changes of the password.
Sessions == INSTANCE AuthSessions
  WITH Offered <- {"login", "refresh", "logout", "revoke", "change"},
       Passwords <- {old}, MaxTime <- 2, MaxPurges <- 1
\* Tokens mailed, used and expired.
Credentials == INSTANCE AuthSessions
  WITH Offered <- {"register", "forgot", "reset", "verify", "resend", "administer"},
       Passwords <- {old, new}, MaxTime <- 2

\* A user's role and tenant change while the user asks for both.
access == <<accounts, tokens, signing, request, instant, lost>>
Access == INSTANCE RequestAccess
  WITH Users <- Actors, Handlers <- Signers, Requests <- Guarded,
       MaxTime <- MaxInstant, MaxTokens <- MaxSigned, clock <- instant
AdminOrAny == {{}, {admin}}
OneAdmin == [u \in Actors |-> [role |-> admin, tenant |-> t1, stands |-> TRUE]]
\* The rows are rows of users, and what stands for nobody is not one of them.
ASSUME AccessAssumption ==
  /\ InitialAccounts \in [Actors -> Access!Account] /\ Lifetime \in Nat
  /\ Endpoints \subseteq SUBSET Roles
  /\ NoHandler \notin Access!Signing /\ NoRequest \notin Access!Request

ScenarioInit ==
  /\ Init /\ Access!Init
  /\ scenario \in {"lockout", "sessions", "credentials", "access"}
ScenarioNext ==
  /\ \/ /\ \/ scenario = "lockout" /\ Lockout!Next
           \/ scenario = "sessions" /\ Sessions!Next
           \/ scenario = "credentials" /\ Credentials!Next
        /\ UNCHANGED access
     \/ scenario = "access" /\ Access!Next /\ UNCHANGED vars
  /\ UNCHANGED scenario
ScenarioSpec == ScenarioInit /\ [][ScenarioNext]_<<vars, access, scenario>>

\* The guards of every request: see RequestAccess.
RoleIsRecent == Access!RoleIsRecent
TenantIsCurrent == Access!TenantIsCurrent
=============================================================================
