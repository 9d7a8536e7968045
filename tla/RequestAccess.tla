---------------------------- MODULE RequestAccess ----------------------------
(***************************************************************************)
(* Who a request acts as.  A login or a refresh looks the user up and signs*)
(* the role and tenant it read into a token; the guards of a later request *)
(* take the role from the token and the tenant from the users table, while *)
(* administrators change both and the clock runs.                          *)
(*                                                                         *)
(* The access and the refresh token of a pair carry the same fields and are*)
(* one token here.  Which sessions can still be refreshed is in            *)
(* AuthSessions.  No handler of the code has the decorator TenantGuard     *)
(* looks for, so that guard lets every request through.                    *)
(***************************************************************************)
EXTENDS Naturals, FiniteSets

CONSTANTS
  Users, Roles, Tenants,
  Handlers,   \* logins and refreshes that may run at the same time
  Requests,   \* requests that may run at the same time
  Endpoints,  \* sets of roles that @Roles() names; {} where there is none
  Lifetime,   \* auth.jwtExpiresIn
  InitialAccounts,
  MaxTime, MaxTokens,  \* bounds: the clock, the tokens signed
  NoTenant, NoHandler, NoRequest

VARIABLES
  accounts,  \* Users -> the row of users
  tokens,    \* the tokens signed so far
  signing,   \* Handlers -> the user as looked up, or NoHandler
  request,   \* Requests -> the running request, or NoRequest
  clock,
  lost       \* history: Users -> Roles -> when the user last lost the role

vars == <<accounts, tokens, signing, request, clock, lost>>

Account == [role : Roles, tenant : Tenants \cup {NoTenant}, stands : BOOLEAN]
\* history: when the handler that signed it looked the user up
Token == [sub : Users, role : Roles, tenant : Tenants \cup {NoTenant},
          iat : Nat, lookedUp : Nat]
\* A login or refresh that looked its user up.
Signing == [sub : Users, role : Roles, tenant : Tenants \cup {NoTenant},
            lookedUp : Nat]
\* history: the tenants that its user had since the request came, and when
Request == [token : Token, roles : SUBSET Roles, tenant : Tenants \cup {NoTenant},
            step : {"presented", "admitted"}, since : Nat,
            had : SUBSET (Tenants \cup {NoTenant})]

Init ==
  /\ accounts = InitialAccounts /\ tokens = {} /\ clock = 1
  /\ signing = [h \in Handlers |-> NoHandler]
  /\ request = [r \in Requests |-> NoRequest]
  /\ lost = [u \in Users |-> [role \in Roles |-> 0]]

-----------------------------------------------------------------------------
\* login() and refreshTokens() refuse an account that does not stand.
LookUp(h, u, role) ==
  /\ signing[h] = NoHandler /\ accounts[u].stands
  /\ signing' = [signing EXCEPT ![h] =
       [sub |-> u, role |-> role, tenant |-> accounts[u].tenant, lookedUp |-> clock]]
  /\ UNCHANGED <<accounts, tokens, request, clock, lost>>
Login(h, u) == LookUp(h, u, accounts[u].role)
\* Variant: the role of the token presented is signed again.
RefreshAsPresented(h, t) == LookUp(h, t.sub, t.role)
Refresh(h, t) == LookUp(h, t.sub, accounts[t.sub].role)
GenerateTokens(h) ==
  /\ signing[h] # NoHandler /\ Cardinality(tokens) < MaxTokens
  /\ LET u == signing[h] IN
     tokens' = tokens \cup {[sub |-> u.sub, role |-> u.role, tenant |-> u.tenant,
                             iat |-> clock, lookedUp |-> u.lookedUp]}
  /\ signing' = [signing EXCEPT ![h] = NoHandler]
  /\ UNCHANGED <<accounts, request, clock, lost>>

\* JwtAuthGuard: the signature and the expiry.
Present(r, t, roles) ==
  /\ request[r] = NoRequest /\ clock < t.iat + Lifetime
  /\ request' = [request EXCEPT ![r] =
       [token |-> t, roles |-> roles, tenant |-> NoTenant, step |-> "presented",
        since |-> clock, had |-> {accounts[t.sub].tenant}]]
  /\ UNCHANGED <<accounts, tokens, signing, clock, lost>>
\* JwtStrategy.validate() and then RolesGuard.
Admit(r) ==
  LET q == request[r]  user == accounts[q.token.sub] IN
  /\ q # NoRequest /\ q.step = "presented"
  /\ user.stands /\ (q.roles = {} \/ q.token.role \in q.roles)
  /\ request' = [request EXCEPT ![r].step = "admitted", ![r].tenant = user.tenant]
  /\ UNCHANGED <<accounts, tokens, signing, clock, lost>>
\* Refused by a guard, or answered.
Leave(r) ==
  /\ request[r] # NoRequest /\ request' = [request EXCEPT ![r] = NoRequest]
  /\ UNCHANGED <<accounts, tokens, signing, clock, lost>>

\* UsersService and TenantsService: another role, tenant or standing.
ChangeAccount(u, account) ==
  /\ account # accounts[u] /\ accounts' = [accounts EXCEPT ![u] = account]
  /\ lost' = IF account.role = accounts[u].role THEN lost
             ELSE [lost EXCEPT ![u][accounts[u].role] = clock]
  /\ request' = [r \in Requests |->
       IF request[r] # NoRequest /\ request[r].token.sub = u
          /\ request[r].step = "presented"
       THEN [request[r] EXCEPT !.had = @ \cup {account.tenant}] ELSE request[r]]
  /\ UNCHANGED <<tokens, signing, clock>>
Tick == /\ clock < MaxTime /\ clock' = clock + 1
        /\ UNCHANGED <<accounts, tokens, signing, request, lost>>

Next ==
  \/ \E h \in Handlers :
       \/ \E u \in Users : Login(h, u)
       \/ \E t \in tokens : Refresh(h, t)
       \/ GenerateTokens(h)
  \/ \E r \in Requests :
       \/ \E t \in tokens, roles \in Endpoints : Present(r, t, roles)
       \/ Admit(r) \/ Leave(r)
  \/ \E u \in Users, account \in Account : ChangeAccount(u, account)
  \/ Tick
Spec == Init /\ [][Next]_vars

-----------------------------------------------------------------------------
Admitted(r) == request[r] # NoRequest /\ request[r].step = "admitted"
\* The last time user u had the role.
LastHeld(u, role) == IF accounts[u].role = role THEN clock ELSE lost[u][role]

\* RolesGuard judges by the token: a role that was taken away serves at most as
\* long as an access token lives and as its login or refresh took, however
\* often the session is refreshed.
RoleIsRecent ==
  \A r \in Requests : Admitted(r) =>
    LET t == request[r].token IN
    request[r].since < LastHeld(t.sub, t.role) + (t.iat - t.lookedUp) + Lifetime

\* JwtStrategy.validate(): the tenant a request acts in is one its user had
\* since the request came, never the one its token was signed with before.
TenantIsCurrent ==
  \A r \in Requests : Admitted(r) => request[r].tenant \in request[r].had
=============================================================================
