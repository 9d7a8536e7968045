----------------------------- MODULE AuthSessions -----------------------------
(***************************************************************************)
(* The accounts and sessions of AuthService: registration, login with its  *)
(* lockout, token refresh, logout, password change and reset, and email    *)
(* verification.  A handler reads its account, hashes or signs, and then   *)
(* commits; other handlers, administrators and the clock run in between.   *)
(*                                                                         *)
(* A hash is the password it was made from.  A JWT has no random part: it  *)
(* is the user and the second it was signed in, so two tokens signed for a *)
(* user in one second are the same token.  Random tokens are numbers never *)
(* issued before.  The clock starts at 1 and the time 0 stands for NULL.   *)
(***************************************************************************)
EXTENDS Integers, FiniteSets, Combinatorics

CONSTANTS
  Users,              \* accounts, by their unique email address
  Passwords,
  Calls,              \* handlers that may run at the same time
  SessionIds,         \* ids for rows of sessions
  Offered,            \* the kinds of call an instance explores
  MaxLoginAttempts,   \* APP_CONSTANTS.AUTH.MAX_LOGIN_ATTEMPTS
  LockDuration,       \* APP_CONSTANTS.AUTH.LOCK_DURATION_MINUTES
  SessionExpiry,      \* APP_CONSTANTS.AUTH.SESSION_EXPIRY_MS
  ResetExpiry,        \* auth.passwordResetTokenExpiresIn
  InitialUsers,       \* the users table at the start
  MaxTime, MaxTokens, \* bounds: the clock, the random tokens issued,
  MaxPurges,          \* and how often all sessions of a user are revoked
  NoUser, NoSession, NoBearer

Kinds == {"register", "login", "refresh", "change", "forgot", "reset",
          "verify", "resend", "logout", "revoke", "administer"}

ASSUME AuthAssumption ==
  /\ IsFiniteSet(Calls) /\ NoUser \notin Users /\ Offered \subseteq Kinds
  /\ {MaxLoginAttempts, LockDuration, SessionExpiry, ResetExpiry, MaxTime}
       \subseteq Nat \ {0}
  /\ {MaxTokens, MaxPurges} \subseteq Nat

NoTime == 0
NoToken == 0
Time == 0 .. MaxTime + LockDuration + SessionExpiry + ResetExpiry
Tokens == 1 .. MaxTokens

\* Rows of the tables users and sessions.
UserRow ==
  [password : Passwords, loginAttempts : Nat, lockedUntil : Time,
   resetToken : Tokens \cup {NoToken}, resetExpires : Time,
   verifyToken : Tokens \cup {NoToken}, verified : BOOLEAN,
   isActive : BOOLEAN, deleted : BOOLEAN]
Jwt == [sub : Users, iat : 1 .. MaxTime]
SessionRow ==
  [user : Users, token : Jwt, isRevoked : BOOLEAN, expiresAt : Time,
   \* history: the purges when its password was proved, the session of its
   \* line that was written over a purge (if any), the session it replaced
   proved : Nat, root : SessionIds \cup {NoSession},
   replaces : SessionIds \cup {NoSession}]
Mail == [to : Users, kind : {"verification", "reset"}, token : Tokens]

\* The table starts with rows whose random tokens are not of this behaviour.
ASSUME RowsAssumption ==
  /\ InitialUsers \in [Users -> UserRow \cup {NoUser}]
  /\ \A u \in Users : InitialUsers[u] # NoUser
                      => InitialUsers[u].resetToken = NoToken
  /\ NoUser \notin UserRow /\ NoSession \notin SessionRow \cup SessionIds

VARIABLES
  users,     \* Users -> row, or NoUser before the registration
  sessions,  \* SessionIds -> row, or NoSession
  call,      \* Calls -> the running handler
  clock,
  issued,    \* how many random tokens were generated
  mailed,    \* messages handed to the mail server
  purges,    \* history: Users -> how often all their sessions were revoked
  misses,    \* history: Users -> wrong passwords since the last login or lock
  uses       \* history: Tokens -> completed resets with this token

vars == <<users, sessions, call, clock, issued, mailed, purges, misses, uses>>

\* A running handler: what it was given and what it read before its
\* write (the account only where the write depends on it); seen is history,
\* the purges when a login or refresh read its account.
Idle == [op |-> "idle", step |-> "done", user |-> NoUser, row |-> NoUser,
         given |-> NoToken, session |-> NoSession, bearer |-> NoBearer,
         seen |-> 0]
CallState ==
  [op : Kinds \cup {"idle"}, step : {"done", "read", "signed", "written"},
   user : Users \cup {NoUser}, row : UserRow \cup {NoUser},
   given : Passwords \cup Tokens \cup {NoToken},
   session : SessionIds \cup {NoSession}, bearer : Jwt \cup {NoBearer},
   seen : Nat]

Init ==
  /\ users = InitialUsers
  /\ sessions = [s \in SessionIds |-> NoSession]
  /\ call = [c \in Calls |-> Idle]
  /\ clock = 1 /\ issued = 0 /\ mailed = {}
  /\ purges = [u \in Users |-> 0] /\ misses = [u \in Users |-> 0]
  /\ uses = [t \in Tokens |-> 0]

-----------------------------------------------------------------------------
Exists(u) == users[u] # NoUser
\* JwtStrategy.validate(): an access token is good while its account stands.
Standing(u) == Exists(u) /\ users[u].isActive /\ ~users[u].deleted
Locked(u) == users[u].lockedUntil > clock
Live(s) == /\ sessions[s] # NoSession
           /\ ~sessions[s].isRevoked /\ sessions[s].expiresAt > clock

Begin(c, op, u, row, given) ==
  /\ call[c] = Idle /\ op \in Offered
  /\ call' = [call EXCEPT ![c] = [Idle EXCEPT !.op = op, !.step = "read",
                !.user = u, !.row = row, !.given = given,
                !.seen = IF op = "login" THEN purges[u] ELSE 0]]
  /\ UNCHANGED <<users, sessions, clock, issued, mailed, purges, misses, uses>>
At(c, op, step) == call[c].op = op /\ call[c].step = step
End(c) == call' = [call EXCEPT ![c] = Idle]

\* Signs both tokens; the refresh token is the one the sessions table keeps.
GenerateTokens(c) ==
  /\ \/ /\ At(c, "login", "read")
        /\ call[c].given = call[c].row.password
     \/ At(c, "refresh", "read")
  /\ call' = [call EXCEPT ![c].step = "signed",
                ![c].bearer = [sub |-> call[c].user, iat |-> clock]]
  /\ UNCHANGED <<users, sessions, clock, issued, mailed, purges, misses, uses>>

\* A row for the signed token; a refresh revokes the session it replaces.
NewSession(c, s) ==
  LET h == call[c]
      login == h.op = "login"
      replaced == sessions[h.session] IN
  [user |-> h.user, token |-> h.bearer, isRevoked |-> FALSE,
   expiresAt |-> clock + SessionExpiry, replaces |-> h.session,
   proved |-> IF login THEN h.seen ELSE replaced.proved,
   root |-> IF h.seen < purges[h.user] THEN s
            ELSE IF login THEN NoSession ELSE replaced.root]
OpenSession(c, revoked) ==
  \E s \in SessionIds :
    /\ sessions[s] = NoSession
    /\ sessions' = [i \in SessionIds |->
         IF i = s THEN NewSession(c, s)
         ELSE IF i \in revoked THEN [sessions[i] EXCEPT !.isRevoked = TRUE]
         ELSE sessions[i]]

SessionsOf(u) ==
  {s \in SessionIds : sessions[s] # NoSession /\ sessions[s].user = u}
Revoked(revoked) ==
  [s \in SessionIds |-> IF s \in revoked THEN [sessions[s] EXCEPT !.isRevoked = TRUE]
                        ELSE sessions[s]]
RevokeAll(u) == /\ purges[u] < MaxPurges
                /\ sessions' = Revoked(SessionsOf(u))
                /\ purges' = [purges EXCEPT ![u] = @ + 1]

-----------------------------------------------------------------------------
\* Variant: the lock is not looked at.
BeginLoginUnlocked(c, u, password) ==
  /\ Standing(u)
  /\ Begin(c, "login", u, users[u], password)
\* Login: the account is read with its lock, the password compared.
BeginLogin(c, u, password) ==
  /\ Standing(u) /\ ~Locked(u)
  /\ Begin(c, "login", u, users[u], password)

\* A wrong password writes the attempts it read plus one, and the lock from
\* the limit on.
Attempts(c) == call[c].row.loginAttempts + 1
\* Variant: the limit is passed before it locks.
FailLoginAbove(c) ==
  LET u == call[c].user IN
  /\ At(c, "login", "read") /\ call[c].given # call[c].row.password
  /\ users' = [users EXCEPT ![u].loginAttempts = Attempts(c),
                 ![u].lockedUntil = IF Attempts(c) > MaxLoginAttempts
                                    THEN clock + LockDuration ELSE @]
  /\ misses' = [misses EXCEPT ![u] = IF users'[u].lockedUntil = NoTime
                                     THEN @ + 1 ELSE 0]
  /\ End(c) /\ UNCHANGED <<sessions, clock, issued, mailed, purges, uses>>
FailLogin(c) ==
  LET u == call[c].user IN
  /\ At(c, "login", "read") /\ call[c].given # call[c].row.password
  /\ users' = [users EXCEPT ![u].loginAttempts = Attempts(c),
                 ![u].lockedUntil = IF Attempts(c) >= MaxLoginAttempts
                                    THEN clock + LockDuration ELSE @]
  /\ misses' = [misses EXCEPT ![u] = IF users'[u].lockedUntil = NoTime
                                     THEN @ + 1 ELSE 0]
  /\ End(c) /\ UNCHANGED <<sessions, clock, issued, mailed, purges, uses>>

\* One transaction: the attempts and the lock are cleared, the session opens.
CommitLogin(c) ==
  LET u == call[c].user IN
  /\ At(c, "login", "signed")
  /\ users' = [users EXCEPT ![u].loginAttempts = 0, ![u].lockedUntil = NoTime]
  /\ misses' = [misses EXCEPT ![u] = 0]
  /\ OpenSession(c, {})
  /\ End(c) /\ UNCHANGED <<clock, issued, mailed, purges, uses>>

\* Refresh: some live session with the token presented, of a standing account.
BeginRefresh(c, token) ==
  \E s \in SessionIds :
    /\ Live(s) /\ sessions[s].token = token /\ Standing(sessions[s].user)
    /\ call[c] = Idle /\ "refresh" \in Offered
    /\ call' = [call EXCEPT ![c] = [Idle EXCEPT !.op = "refresh",
                  !.step = "read", !.user = sessions[s].user, !.session = s,
                  !.seen = purges[sessions[s].user]]]
    /\ UNCHANGED <<users, sessions, clock, issued, mailed, purges, misses, uses>>

\* Variant: the row read is given the new token and no other is made.
CommitRefreshInPlace(c) ==
  /\ At(c, "refresh", "signed")
  /\ sessions' = [sessions EXCEPT ![call[c].session].token = call[c].bearer,
                    ![call[c].session].isRevoked = FALSE]
  /\ End(c) /\ UNCHANGED <<users, clock, issued, mailed, purges, misses, uses>>
\* Variant: the session read is left as it is.
CommitRefreshUnrotated(c) ==
  /\ At(c, "refresh", "signed")
  /\ OpenSession(c, {})
  /\ End(c) /\ UNCHANGED <<users, clock, issued, mailed, purges, misses, uses>>
\* One transaction: the session read is revoked, the new one opens, whatever
\* became of the first, or of the password, meanwhile.
CommitRefresh(c) ==
  /\ At(c, "refresh", "signed")
  /\ OpenSession(c, {call[c].session})
  /\ End(c) /\ UNCHANGED <<users, clock, issued, mailed, purges, misses, uses>>

\* Logout revokes the sessions with one token, or all; revokeSession one row.
Logout(u, token) ==
  /\ "logout" \in Offered /\ Standing(u)
  /\ sessions' = Revoked({s \in SessionsOf(u) : sessions[s].token = token})
  /\ UNCHANGED <<users, call, clock, issued, mailed, purges, misses, uses>>
LogoutEverywhere(u) ==
  /\ "logout" \in Offered /\ Standing(u) /\ SessionsOf(u) # {}
  /\ RevokeAll(u)
  /\ UNCHANGED <<users, call, clock, issued, mailed, misses, uses>>
RevokeSession(u, s) ==
  /\ "revoke" \in Offered /\ Standing(u)
  /\ sessions' = Revoked({s} \cap SessionsOf(u))
  /\ UNCHANGED <<users, call, clock, issued, mailed, purges, misses, uses>>

-----------------------------------------------------------------------------
\* The current password is compared with the one read, then a new one hashed.
BeginChange(c, u, password) ==
  /\ Standing(u) /\ password = users[u].password
  /\ Begin(c, "change", u, users[u], password)
\* Variant: the password is written before the sessions are looked at.
CommitChangeAlone(c, new) ==
  /\ At(c, "change", "read")
  /\ users' = [users EXCEPT ![call[c].user].password = new]
  /\ purges[call[c].user] < MaxPurges
  /\ purges' = [purges EXCEPT ![call[c].user] = @ + 1]
  /\ End(c) /\ UNCHANGED <<sessions, clock, issued, mailed, misses, uses>>
\* One transaction: the password and all sessions.
CommitChange(c, new) ==
  /\ At(c, "change", "read")
  /\ users' = [users EXCEPT ![call[c].user].password = new]
  /\ RevokeAll(call[c].user)
  /\ End(c) /\ UNCHANGED <<clock, issued, mailed, misses, uses>>

\* A mailed token is written to the row first; the mail is a second step.
Fresh == issued + 1
WriteToken(c, row) ==
  /\ issued < MaxTokens /\ issued' = Fresh
  /\ users' = [users EXCEPT ![call[c].user] = row]
  /\ call' = [call EXCEPT ![c].step = "written", ![c].given = Fresh]
  /\ UNCHANGED <<sessions, clock, mailed, purges, misses, uses>>
MailKind(c) == IF call[c].op = "forgot" THEN "reset" ELSE "verification"
\* Variant: the mail goes out with what the handler was given.
SendMailBeforeToken(c) ==
  /\ call[c].op \in {"forgot", "resend"} /\ call[c].step = "read"
  /\ mailed' = mailed \cup {[to |-> call[c].user, kind |-> MailKind(c),
                             token |-> call[c].given]}
  /\ End(c)
  /\ UNCHANGED <<users, sessions, clock, issued, purges, misses, uses>>
SendMail(c) ==
  /\ call[c].step = "written"
  /\ mailed' = mailed \cup {[to |-> call[c].user, kind |-> MailKind(c),
                             token |-> call[c].given]}
  /\ End(c)
  /\ UNCHANGED <<users, sessions, clock, issued, purges, misses, uses>>

BeginForgot(c, u) == Exists(u) /\ Begin(c, "forgot", u, NoUser, NoToken)
CommitForgot(c) ==
  /\ At(c, "forgot", "read")
  /\ WriteToken(c, [users[call[c].user] EXCEPT
       !.resetToken = Fresh, !.resetExpires = clock + ResetExpiry])

\* The token is looked up with its expiry, then the new password is hashed.
BeginReset(c, u, token) ==
  /\ [to |-> u, kind |-> "reset", token |-> token] \in mailed
  /\ Exists(u) /\ users[u].resetToken = token /\ users[u].resetExpires > clock
  /\ Begin(c, "reset", u, NoUser, token)
\* Variant: the token stays on the row.
CommitResetKeepsToken(c, new) ==
  /\ At(c, "reset", "read")
  /\ users' = [users EXCEPT ![call[c].user].password = new]
  /\ uses' = [uses EXCEPT ![call[c].given] = @ + 1]
  /\ RevokeAll(call[c].user)
  /\ End(c) /\ UNCHANGED <<clock, issued, mailed, misses>>
\* One transaction: the password, the token and all sessions.
CommitReset(c, new) ==
  /\ At(c, "reset", "read")
  /\ users' = [users EXCEPT ![call[c].user].password = new,
                 ![call[c].user].resetToken = NoToken,
                 ![call[c].user].resetExpires = NoTime]
  /\ uses' = [uses EXCEPT ![call[c].given] = @ + 1]
  /\ RevokeAll(call[c].user)
  /\ End(c) /\ UNCHANGED <<clock, issued, mailed, misses>>

-----------------------------------------------------------------------------
NewUser(password) ==
  [password |-> password, loginAttempts |-> 0, lockedUntil |-> NoTime,
   resetToken |-> NoToken, resetExpires |-> NoTime, verifyToken |-> Fresh,
   verified |-> FALSE, isActive |-> TRUE, deleted |-> FALSE]

BeginRegister(c, u, password) ==
  /\ ~Exists(u)
  /\ Begin(c, "register", u, NoUser, password)
\* Variant: an upsert instead of a create under a unique email.
CreateUserUpsert(c) ==
  /\ At(c, "register", "read")
  /\ WriteToken(c, NewUser(call[c].given))
CreateUser(c) ==
  /\ At(c, "register", "read") /\ ~Exists(call[c].user)
  /\ WriteToken(c, NewUser(call[c].given))
\* The email was taken meanwhile: the unique index refuses the row.
RefuseUser(c) ==
  /\ At(c, "register", "read") /\ Exists(call[c].user)
  /\ End(c)
  /\ UNCHANGED <<users, sessions, clock, issued, mailed, purges, misses, uses>>

BeginResend(c, u) ==
  /\ Exists(u) /\ ~users[u].verified
  /\ Begin(c, "resend", u, NoUser, NoToken)
CommitResend(c) ==
  /\ At(c, "resend", "read")
  /\ WriteToken(c, [users[call[c].user] EXCEPT !.verifyToken = Fresh])

BeginVerify(c, u, token) ==
  /\ [to |-> u, kind |-> "verification", token |-> token] \in mailed
  /\ Exists(u) /\ users[u].verifyToken = token
  /\ Begin(c, "verify", u, NoUser, token)
CommitVerify(c) ==
  /\ At(c, "verify", "read")
  /\ users' = [users EXCEPT ![call[c].user].verified = TRUE,
                 ![call[c].user].verifyToken = NoToken]
  /\ End(c) /\ UNCHANGED <<sessions, clock, issued, mailed, purges, misses, uses>>

-----------------------------------------------------------------------------
\* A database call, the mail server or the process fails: the handler is gone,
\* what it committed stays.
CallFails(c) ==
  /\ call[c] # Idle /\ End(c)
  /\ UNCHANGED <<users, sessions, clock, issued, mailed, purges, misses, uses>>

\* UsersService deactivates, deletes or restores an account.
SetStanding(u, active, deleted) ==
  /\ "administer" \in Offered /\ Exists(u)
  /\ users' = [users EXCEPT ![u].isActive = active, ![u].deleted = deleted]
  /\ UNCHANGED <<sessions, call, clock, issued, mailed, purges, misses, uses>>

Tick == /\ clock < MaxTime /\ clock' = clock + 1
        /\ UNCHANGED <<users, sessions, call, issued, mailed, purges, misses, uses>>

Authenticate(c) ==
  \/ \E u \in Users, p \in Passwords : BeginLogin(c, u, p)
  \/ FailLogin(c) \/ GenerateTokens(c) \/ CommitLogin(c)
  \/ \E t \in Jwt : BeginRefresh(c, t)
  \/ CommitRefresh(c)
ChangeCredentials(c) ==
  \/ \E u \in Users, p \in Passwords : BeginChange(c, u, p)
  \/ \E new \in Passwords : CommitChange(c, new) \/ CommitReset(c, new)
  \/ \E u \in Users : BeginForgot(c, u)
  \/ CommitForgot(c) \/ SendMail(c)
  \/ \E u \in Users, t \in Tokens : BeginReset(c, u, t)
Enrol(c) ==
  \/ \E u \in Users, p \in Passwords : BeginRegister(c, u, p)
  \/ CreateUser(c) \/ RefuseUser(c)
  \/ \E u \in Users : BeginResend(c, u)
  \/ \E u \in Users, t \in Tokens : BeginVerify(c, u, t)
  \/ CommitResend(c) \/ CommitVerify(c)
Close(u) ==
  \/ LogoutEverywhere(u)
  \/ \E t \in Jwt : Logout(u, t)
  \/ \E s \in SessionIds : RevokeSession(u, s)

Next ==
  \/ \E c \in Calls :
       Authenticate(c) \/ ChangeCredentials(c) \/ Enrol(c) \/ CallFails(c)
  \/ \E u \in Users : Close(u)
  \/ \E u \in Users, active, deleted \in BOOLEAN : SetStanding(u, active, deleted)
  \/ Tick

Spec == Init /\ [][Next]_vars

-----------------------------------------------------------------------------
\* The rows, handlers and counters keep their types (users, sessions and the
\* handlers of AuthService).
TypeOK ==
  /\ users \in [Users -> UserRow \cup {NoUser}]
  /\ sessions \in [SessionIds -> SessionRow \cup {NoSession}]
  /\ call \in [Calls -> CallState]
  /\ clock \in 1 .. MaxTime /\ issued \in 0 .. MaxTokens
  /\ mailed \subseteq Mail
  /\ purges \in [Users -> Nat] /\ misses \in [Users -> Nat]
  /\ uses \in [Tokens -> Nat]

\* A failed login overwrites the counter with what it read plus one, so
\* concurrent failures are lost.  With k handlers an account that is not
\* locked has taken fewer wrong passwords than there are ways to choose k
\* counter values below the limit: (limit + k - 1 over k).  With one handler
\* that is the limit itself.
MissesBounded ==
  \A u \in Users :
    Exists(u) /\ users[u].lockedUntil = NoTime
      => misses[u] < choose(MaxLoginAttempts + Cardinality(Calls) - 1,
                            Cardinality(Calls))

\* login(): a lock in force is moved or lifted only by a login that read the
\* account before that lock was written.
LockMovedByEarlierLogin ==
  [][\A u \in Users :
       Exists(u) /\ Locked(u) /\ users'[u].lockedUntil # users[u].lockedUntil
         => \E c \in Calls :
              /\ call[c].op = "login" /\ call[c].user = u
              /\ call[c].row.lockedUntil # users[u].lockedUntil]_vars

\* resetPassword(): a reset token completes at most one reset per handler that
\* was already running; once used it is not on any row again.
ResetTokenUsesBounded == \A t \in Tokens : uses[t] <= Cardinality(Calls)

\* The password of an existing account is replaced only by a call that had
\* proved the password it read, or by one that holds a reset token mailed to
\* that account; no registration, login or verification changes it.
PasswordChangeIsEarned ==
  [][\A u \in Users :
       Exists(u) /\ users'[u].password # users[u].password
         => \E c \in Calls :
              /\ call[c].user = u
              /\ \/ call[c].op = "change" /\ call[c].given = call[c].row.password
                 \/ /\ call[c].op = "reset"
                    /\ [to |-> u, kind |-> "reset", token |-> call[c].given]
                         \in mailed]_vars

\* Sessions follow the abstract ledger, whatever overlaps: a row is written
\* once, by a handler that had proved the password or read the session it
\* replaces, and a revoked session stays revoked.
LedgerEntry(s) ==
  LET row == sessions[s] IN
  IF row = NoSession
  THEN [user |-> NoSession, proved |-> 0, root |-> NoSession,
        from |-> NoSession, state |-> "unopened"]
  ELSE [user |-> row.user, proved |-> row.proved, root |-> row.root,
        from |-> row.replaces,
        state |-> IF row.isRevoked THEN "closed" ELSE "open"]
\* What a handler may open a session on.
CallGrant(h) ==
  IF h.op = "refresh" \/ (h.op = "login" /\ h.given = h.row.password)
  THEN [kind |-> h.op, user |-> h.user, seen |-> h.seen, from |-> h.session]
  ELSE [kind |-> "none", user |-> NoSession, seen |-> 0, from |-> NoSession]
Ledger == INSTANCE SessionLedger
            WITH Handlers <- Calls, None <- NoSession, epoch <- purges,
                 ledger <- [s \in SessionIds |-> LedgerEntry(s)],
                 grant <- [c \in Calls |-> CallGrant(call[c])]
LedgerSpec == Ledger!Spec

\* A change, a reset and a logout everywhere revoke every session there is.
\* A login or refresh that had read before commits its session after all the
\* same, and that session is refreshed like any other.  The lines of sessions
\* that so outlive a change are no more than the handlers that overlapped it.
SurvivorsBounded == Ledger!SurvivorsBounded

\* refreshTokens(): a session that was replaced is revoked, and no more
\* sessions replace it than there were handlers that had read it before.
RefreshesBounded == Ledger!RefreshesBounded

\* docs/DISSERTATION.md:351 "Token rotation revokes the old refresh token on
\* each use, preventing replay attacks": a session is replaced once.
TokenRefreshedOnce ==
  \A s \in SessionIds :
    Cardinality({i \in SessionIds : /\ sessions[i] # NoSession
                                    /\ sessions[i].replaces = s}) <= 1

\* docs/SECURITY.md:43 "Account lockout after 5 failed attempts": an account
\* that took that many wrong passwords since its last login is locked.
LockedAfterLimit ==
  \A u \in Users :
    Exists(u) /\ users[u].lockedUntil = NoTime => misses[u] < MaxLoginAttempts
=============================================================================
