--------------------------- MODULE TenantMembership ---------------------------
(***************************************************************************)
(* TenantsService and UsersService: tenants with their slug and capacity,  *)
(* users that join, leave, move, are deleted and restored.  Every handler  *)
(* looks its rows up first and writes them by id alone in a later step;    *)
(* nothing but the unique indexes on slug and email holds in between.      *)
(***************************************************************************)
EXTENDS Naturals, FiniteSets

CONSTANTS
  Tenants, Slugs, Users,   \* ids of tenants, slugs, users by their email
  Calls,                   \* handlers that may run at the same time
  Capacities,              \* values of maxUsers
  Offered,                 \* the kinds of call an instance explores
  InitialTenants, InitialUsers,
  NoTenant, NoUser, NoSlug

Kinds == {"createTenant", "updateTenant", "removeTenant", "restoreTenant",
          "join", "leave", "createUser", "moveUser", "removeUser", "restoreUser"}

ASSUME MembershipAssumption ==
  /\ IsFiniteSet(Users) /\ IsFiniteSet(Calls) /\ Calls # {}
  /\ Capacities \subseteq Nat /\ Offered \subseteq Kinds
  /\ NoTenant \notin Tenants

TenantRow == [slug : Slugs, maxUsers : Capacities, deleted : BOOLEAN]
UserRow == [tenant : Tenants \cup {NoTenant}, deleted : BOOLEAN,
            joined : BOOLEAN]  \* history: the tenant was set by addUserToTenant

\* The tables start consistent, with no user added by a handler of this behaviour.
ASSUME TablesAssumption ==
  /\ NoTenant \notin TenantRow /\ NoUser \notin UserRow
  /\ InitialTenants \in [Tenants -> TenantRow \cup {NoTenant}]
  /\ InitialUsers \in [Users -> UserRow \cup {NoUser}]
  /\ \A u \in Users : InitialUsers[u] # NoUser =>
       /\ ~InitialUsers[u].joined
       /\ InitialUsers[u].tenant # NoTenant
            => InitialTenants[InitialUsers[u].tenant] # NoTenant
  /\ \A t1, t2 \in Tenants :
       /\ InitialTenants[t1] # NoTenant /\ InitialTenants[t2] # NoTenant
       /\ InitialTenants[t1].slug = InitialTenants[t2].slug
       => t1 = t2

VARIABLES
  tenants,  \* Tenants -> row, or NoTenant
  users,    \* Users -> row, or NoUser
  call,     \* Calls -> running handler
  widest,   \* history: Tenants -> the largest maxUsers the tenant ever had
  late      \* history: Tenants -> users that joined since its deletion

vars == <<tenants, users, call, widest, late>>

Idle == [op |-> "idle", step |-> "done", tenant |-> NoTenant, user |-> NoUser,
         slug |-> NoSlug, room |-> 0]
CallState ==
  [op : Kinds \cup {"idle"}, step : {"done", "found", "counted", "located"},
   tenant : Tenants \cup {NoTenant}, user : Users \cup {NoUser},
   slug : Slugs \cup {NoSlug}, room : Capacities \cup {0}]

Init ==
  /\ tenants = InitialTenants /\ users = InitialUsers
  /\ call = [c \in Calls |-> Idle]
  /\ widest = [t \in Tenants |-> IF tenants[t] = NoTenant THEN 0
                                 ELSE tenants[t].maxUsers]
  /\ late = [t \in Tenants |-> 0]

Stored(t) == tenants[t] # NoTenant
Stands(t) == Stored(t) /\ ~tenants[t].deleted
UserStands(u) == users[u] # NoUser /\ ~users[u].deleted
\* The rows that user.count() sees for a tenant.
Members(t) == {u \in Users : UserStands(u) /\ users[u].tenant = t}

Begin(c, op, t, u) ==
  /\ call[c] = Idle /\ op \in Offered
  /\ call' = [call EXCEPT ![c] = [Idle EXCEPT !.op = op, !.step = "found",
                !.tenant = t, !.user = u]]
  /\ UNCHANGED <<tenants, users, widest, late>>
At(c, op, step) == call[c].op = op /\ call[c].step = step
End(c) == call' = [call EXCEPT ![c] = Idle]

-----------------------------------------------------------------------------
\* create(): the slug is looked for among all tenants, the deleted ones too.
SlugTaken(slug) == \E t \in Tenants : Stored(t) /\ tenants[t].slug = slug
BeginCreateTenant(c, slug) ==
  /\ call[c] = Idle /\ "createTenant" \in Offered /\ ~SlugTaken(slug)
  /\ call' = [call EXCEPT ![c] = [Idle EXCEPT !.op = "createTenant",
                !.step = "found", !.slug = slug]]
  /\ UNCHANGED <<tenants, users, widest, late>>
CreateTenant(c, t, max) ==
  /\ At(c, "createTenant", "found") /\ ~Stored(t) /\ ~SlugTaken(call[c].slug)
  /\ tenants' = [tenants EXCEPT ![t] = [slug |-> call[c].slug,
                                        maxUsers |-> max, deleted |-> FALSE]]
  /\ widest' = [widest EXCEPT ![t] = max]
  /\ End(c) /\ UNCHANGED <<users, late>>

BeginOnTenant(c, op, t) ==
  /\ \/ op \in {"updateTenant", "removeTenant"} /\ Stands(t)
     \/ op = "restoreTenant" /\ Stored(t) /\ tenants[t].deleted
  /\ Begin(c, op, t, NoUser)
Wider(a, b) == IF a >= b THEN a ELSE b
UpdateTenant(c, max) ==
  LET t == call[c].tenant IN
  /\ At(c, "updateTenant", "found")
  /\ tenants' = [tenants EXCEPT ![t].maxUsers = max]
  /\ widest' = [widest EXCEPT ![t] = Wider(@, max)]
  /\ End(c) /\ UNCHANGED <<users, late>>
SetTenantDeleted(c) ==
  LET t == call[c].tenant IN
  /\ At(c, "removeTenant", "found") \/ At(c, "restoreTenant", "found")
  /\ tenants' = [tenants EXCEPT ![t].deleted = (call[c].op = "removeTenant")]
  /\ late' = [late EXCEPT ![t] = IF tenants[t].deleted THEN @ ELSE 0]
  /\ End(c) /\ UNCHANGED <<users, widest>>

-----------------------------------------------------------------------------
\* Variant: a deleted tenant is found like any other.
FindTenantDeletedToo(c, t, u) ==
  /\ Stored(t) /\ call[c] = Idle /\ "join" \in Offered
  /\ call' = [call EXCEPT ![c] = [Idle EXCEPT !.op = "join", !.step = "found",
                !.tenant = t, !.user = u, !.room = tenants[t].maxUsers]]
  /\ UNCHANGED <<tenants, users, widest, late>>
\* addUserToTenant(): the tenant with its capacity, ...
FindTenant(c, t, u) ==
  /\ Stands(t) /\ call[c] = Idle /\ "join" \in Offered
  /\ call' = [call EXCEPT ![c] = [Idle EXCEPT !.op = "join", !.step = "found",
                !.tenant = t, !.user = u, !.room = tenants[t].maxUsers]]
  /\ UNCHANGED <<tenants, users, widest, late>>
\* Variant: the boundary is one too high.
HasRoomInclusive(members, max) == members <= max
\* ... the number of its users against the capacity read, ...
HasRoom(members, max) == members < max
CountMembers(c) ==
  /\ At(c, "join", "found")
  /\ call' = [call EXCEPT ![c] =
       IF HasRoom(Cardinality(Members(call[c].tenant)), call[c].room)
       THEN [call[c] EXCEPT !.step = "counted"] ELSE Idle]
  /\ UNCHANGED <<tenants, users, widest, late>>
\* ... the user, and the write, by the user's id alone.
FindUser(c) ==
  /\ At(c, "join", "counted")
  /\ call' = [call EXCEPT ![c] =
       IF UserStands(call[c].user) THEN [call[c] EXCEPT !.step = "located"] ELSE Idle]
  /\ UNCHANGED <<tenants, users, widest, late>>
Join(c) ==
  LET t == call[c].tenant IN
  /\ At(c, "join", "located")
  /\ users' = [users EXCEPT ![call[c].user].tenant = t, ![call[c].user].joined = TRUE]
  /\ late' = [late EXCEPT ![t] = IF tenants[t].deleted THEN @ + 1 ELSE @]
  /\ End(c) /\ UNCHANGED <<tenants, widest>>

\* removeUserFromTenant(): found in this tenant, then taken out of whichever
\* tenant it is in.
BeginLeave(c, t, u) == u \in Members(t) /\ Begin(c, "leave", t, u)
Leave(c) ==
  /\ At(c, "leave", "found")
  /\ users' = [users EXCEPT ![call[c].user].tenant = NoTenant,
                 ![call[c].user].joined = FALSE]
  /\ End(c) /\ UNCHANGED <<tenants, widest, late>>

\* Variant: no foreign key on the tenant of a user.
BeginOnUserUnreferenced(c, op, t, u) ==
  /\ \/ op = "createUser" /\ users[u] = NoUser
     \/ op = "moveUser" /\ UserStands(u)
     \/ op = "removeUser" /\ UserStands(u) /\ t = NoTenant
     \/ op = "restoreUser" /\ users[u] # NoUser /\ users[u].deleted /\ t = NoTenant
  /\ Begin(c, op, t, u)
\* UsersService: create and update place a user without looking at the
\* capacity; remove and restore only set the deletion time.
BeginOnUser(c, op, t, u) ==
  /\ \/ op = "createUser" /\ users[u] = NoUser
     \/ op = "moveUser" /\ UserStands(u)
     \/ op = "removeUser" /\ UserStands(u) /\ t = NoTenant
     \/ op = "restoreUser" /\ users[u] # NoUser /\ users[u].deleted /\ t = NoTenant
  /\ t # NoTenant => Stored(t)
  /\ Begin(c, op, t, u)
PlaceUser(c) ==
  /\ \/ At(c, "createUser", "found") /\ users[call[c].user] = NoUser
     \/ At(c, "moveUser", "found")
  /\ users' = [users EXCEPT ![call[c].user] =
       [tenant |-> call[c].tenant, joined |-> FALSE,
        deleted |-> IF @ = NoUser THEN FALSE ELSE @.deleted]]
  /\ End(c) /\ UNCHANGED <<tenants, widest, late>>
SetUserDeleted(c) ==
  LET u == call[c].user IN
  /\ At(c, "removeUser", "found") \/ At(c, "restoreUser", "found")
  /\ users' = [users EXCEPT ![u].deleted = (call[c].op = "removeUser"),
                 ![u].joined = @ /\ call[c].op = "removeUser"]
  /\ End(c) /\ UNCHANGED <<tenants, widest, late>>

\* A unique index refuses the row, a database call fails or the process dies.
CallFails(c) ==
  /\ call[c] # Idle
  /\ End(c) /\ UNCHANGED <<tenants, users, widest, late>>

OfTenant(c) ==
  \/ \E slug \in Slugs : BeginCreateTenant(c, slug)
  \/ \E t \in Tenants, max \in Capacities : CreateTenant(c, t, max)
  \/ \E t \in Tenants, op \in {"updateTenant", "removeTenant", "restoreTenant"} :
       BeginOnTenant(c, op, t)
  \/ \E max \in Capacities : UpdateTenant(c, max)
  \/ SetTenantDeleted(c)
OfMember(c) ==
  \/ \E t \in Tenants, u \in Users : FindTenant(c, t, u) \/ BeginLeave(c, t, u)
  \/ CountMembers(c) \/ FindUser(c) \/ Join(c) \/ Leave(c)
OfUser(c) ==
  \/ \E op \in {"createUser", "moveUser", "removeUser", "restoreUser"},
        t \in Tenants \cup {NoTenant}, u \in Users : BeginOnUser(c, op, t, u)
  \/ PlaceUser(c) \/ SetUserDeleted(c)

Next == \E c \in Calls : OfTenant(c) \/ OfMember(c) \/ OfUser(c) \/ CallFails(c)
Spec == Init /\ [][Next]_vars

-----------------------------------------------------------------------------
\* The rows of tenants and users, the running handlers and the counters keep
\* their types, a user's tenant exists, and a slug names one tenant, deleted or not.
TypeOK ==
  /\ tenants \in [Tenants -> TenantRow \cup {NoTenant}]
  /\ users \in [Users -> UserRow \cup {NoUser}]
  /\ call \in [Calls -> CallState]
  /\ widest \in [Tenants -> Nat] /\ late \in [Tenants -> Nat]
  /\ \A u \in Users : users[u] # NoUser /\ users[u].tenant # NoTenant
                      => Stored(users[u].tenant)
  /\ \A t1, t2 \in Tenants :
       Stored(t1) /\ Stored(t2) /\ tenants[t1].slug = tenants[t2].slug => t1 = t2

\* addUserToTenant() counts and writes in two steps: the users it brought into
\* a tenant exceed the largest capacity the tenant had by at most the other
\* handlers that had counted already.
Joined(t) == {u \in Members(t) : users[u].joined}
CapacityBounded ==
  \A t \in Tenants :
    Joined(t) # {} => Cardinality(Joined(t)) < widest[t] + Cardinality(Calls)

\* findOne() hides a deleted tenant: only handlers that had found it before
\* its deletion still bring users in.
LateJoinsBounded == \A t \in Tenants : late[t] < Cardinality(Calls)

\* Neither bound is exceeded by users whose addition began too early.
JoinsBounded == CapacityBounded /\ LateJoinsBounded
=============================================================================
