------------------------ MODULE TenantMembershipProofs ------------------------
(***************************************************************************)
(* Theorems about TenantMembership for every value of its constants: types *)
(* and references, and by how much concurrent additions may exceed the     *)
(* capacity of a tenant or outlive its deletion.                           *)
(***************************************************************************)
EXTENDS TenantMembership, FiniteSetTheorems, TLAPS

\* What a running handler knows, with these tenants and users: the rows it
\* found exist, for no row of either table is ever removed, and the capacity
\* it read was one the tenant had.
GoodCall(h, tenantRows, userRows, capacity) ==
  /\ h \in CallState
  /\ h.op \in {"updateTenant", "removeTenant", "restoreTenant", "join"}
       => h.tenant \in Tenants /\ tenantRows[h.tenant] # NoTenant
  /\ h.op \in {"join", "leave", "createUser", "moveUser", "removeUser", "restoreUser"}
       => h.user \in Users
  /\ h.op \in {"leave", "moveUser", "removeUser", "restoreUser"}
       => userRows[h.user] # NoUser
  /\ h.op = "join" /\ h.step = "located" => userRows[h.user] # NoUser
  /\ h.op \in {"createUser", "moveUser"} /\ h.tenant # NoTenant
       => h.tenant \in Tenants /\ tenantRows[h.tenant] # NoTenant
  /\ h.op = "createTenant" => h.slug \in Slugs
  /\ h.op = "join" => h.room \in Capacities /\ h.room <= capacity[h.tenant]

CallsInv == \A c \in Calls : GoodCall(call[c], tenants, users, widest)

\* Handlers that add a user to t: those that found t, those that have counted.
Entering(t) == {c \in Calls : call[c].op = "join" /\ call[c].tenant = t}
Admitted(t) == {c \in Entering(t) : call[c].step \in {"counted", "located"}}

\* Each handler that has counted may still bring one user in.
Roomy(t) ==
  Cardinality(Joined(t)) + Cardinality(Admitted(t)) < widest[t] + Cardinality(Calls)
\* One handler deletes the tenant, so at most the others are still under way.
Punctual(t) ==
  /\ late[t] < Cardinality(Calls)
  /\ Stored(t) /\ tenants[t].deleted
       => late[t] + Cardinality(Entering(t)) < Cardinality(Calls)

\* A tenant has the capacity it had, or less.
WidestInv == \A t \in Tenants : Stored(t) => tenants[t].maxUsers <= widest[t]

MembershipInv ==
  TypeOK /\ CallsInv /\ WidestInv /\ \A t \in Tenants : Roomy(t) /\ Punctual(t)

USE MembershipAssumption, TablesAssumption

-----------------------------------------------------------------------------
(* Finite sets *)

LEMMA Finite ==
  ASSUME NEW t
  PROVE  /\ IsFiniteSet(Joined(t)) /\ Cardinality(Joined(t)) \in Nat
         /\ IsFiniteSet(Members(t)) /\ Cardinality(Members(t)) \in Nat
         /\ Cardinality(Joined(t)) <= Cardinality(Members(t))
         /\ IsFiniteSet(Entering(t)) /\ Cardinality(Entering(t)) \in Nat
         /\ IsFiniteSet(Admitted(t)) /\ Cardinality(Admitted(t)) \in Nat
         /\ IsFiniteSet(Calls) /\ Cardinality(Calls) \in Nat \ {0}
<1>1. Joined(t) \subseteq Members(t) /\ Members(t) \subseteq Users
  BY DEF Joined, Members
<1>2. Admitted(t) \subseteq Calls /\ Entering(t) \subseteq Calls
  BY DEF Admitted, Entering
<1>3. Cardinality(Calls) \in Nat \ {0}
  BY FS_EmptySet, FS_CardinalityType
<1> QED
  BY <1>1, <1>2, <1>3, FS_Subset, FS_CardinalityType

\* Fewer users and handlers, and no smaller capacity.
LEMMA RoomyKeeps ==
  ASSUME MembershipInv, NEW t \in Tenants,
         Joined(t)' \subseteq Joined(t), Admitted(t)' \subseteq Admitted(t),
         widest'[t] \in Nat, widest'[t] >= widest[t]
  PROVE  Roomy(t)'
<1>1. /\ Cardinality(Joined(t)') <= Cardinality(Joined(t))
      /\ Cardinality(Joined(t)') \in Nat
  BY Finite, FS_Subset, FS_CardinalityType
<1>2. /\ Cardinality(Admitted(t)') <= Cardinality(Admitted(t))
      /\ Cardinality(Admitted(t)') \in Nat
  BY Finite, FS_Subset, FS_CardinalityType
<1>3. Roomy(t) /\ widest[t] \in Nat
  BY DEF MembershipInv, TypeOK
<1> QED
  BY <1>1, <1>2, <1>3, Finite DEF Roomy

LEMMA PunctualKeeps ==
  ASSUME MembershipInv, NEW t \in Tenants, late'[t] = late[t],
         Entering(t)' \subseteq Entering(t),
         (Stored(t) /\ tenants[t].deleted)' => Stored(t) /\ tenants[t].deleted
  PROVE  Punctual(t)'
<1>1. /\ Cardinality(Entering(t)') <= Cardinality(Entering(t))
      /\ Cardinality(Entering(t)') \in Nat
  BY Finite, FS_Subset, FS_CardinalityType
<1>2. Punctual(t) /\ late[t] \in Nat
  BY DEF MembershipInv, TypeOK
<1> QED
  BY <1>1, <1>2, Finite DEF Punctual

-----------------------------------------------------------------------------
(* One handler at a time *)

LEMMA IdleIsGood ==
  ASSUME NEW tenantRows, NEW userRows, NEW capacity
  PROVE  GoodCall(Idle, tenantRows, userRows, capacity)
  BY DEF GoodCall, Idle, CallState

\* Rows are never removed, and the widest capacity never shrinks.
Grows ==
  /\ \A t \in Tenants : tenants[t] # NoTenant => tenants'[t] # NoTenant
  /\ \A u \in Users : users[u] # NoUser => users'[u] # NoUser
  /\ widest' \in [Tenants -> Nat]
  /\ \A t \in Tenants : tenants[t] # NoTenant => widest'[t] >= widest[t]

LEMMA KnowledgeKeeps ==
  ASSUME MembershipInv, Grows, NEW c \in Calls
  PROVE  GoodCall(call[c], tenants', users', widest')
<1>1. GoodCall(call[c], tenants, users, widest) /\ call[c] \in CallState
  BY DEF MembershipInv, CallsInv, TypeOK
<1>2. ASSUME call[c].op = "join"
      PROVE  call[c].room <= widest'[call[c].tenant]
  <2>1. /\ call[c].tenant \in Tenants /\ tenants[call[c].tenant] # NoTenant
        /\ call[c].room \in Nat /\ call[c].room <= widest[call[c].tenant]
    BY <1>1, <1>2 DEF GoodCall
  <2>2. /\ widest[call[c].tenant] \in Nat /\ widest'[call[c].tenant] \in Nat
        /\ widest'[call[c].tenant] >= widest[call[c].tenant]
    BY <2>1 DEF Grows, MembershipInv, TypeOK
  <2> QED
    BY <2>1, <2>2
<1> QED
  BY <1>1, <1>2 DEF GoodCall, Grows

LEMMA OneCallChanges ==
  ASSUME MembershipInv, Grows, NEW c \in Calls, NEW h, call' = [call EXCEPT ![c] = h],
         GoodCall(h, tenants', users', widest')
  PROVE  call' \in [Calls -> CallState] /\ CallsInv'
<1>1. call' \in [Calls -> CallState]
  BY DEF GoodCall, MembershipInv, TypeOK
<1>2. ASSUME NEW d \in Calls
      PROVE  GoodCall(call'[d], tenants', users', widest')
  BY <1>1, KnowledgeKeeps DEF MembershipInv, TypeOK
<1> QED
  BY <1>1, <1>2 DEF CallsInv

\* A handler that ends enters nothing any more.
LEMMA EndLeaves ==
  ASSUME MembershipInv, Grows, NEW c \in Calls, End(c)
  PROVE  /\ call' \in [Calls -> CallState] /\ CallsInv'
         /\ \A t \in Tenants : Entering(t)' = Entering(t) \ {c}
         /\ \A t \in Tenants : Admitted(t)' = Admitted(t) \ {c}
<1>1. Idle.op = "idle"
  BY DEF Idle
<1>2. call'[c] = Idle /\ \A d \in Calls \ {c} : call'[d] = call[d]
  BY DEF End, MembershipInv, TypeOK
<1> QED
  BY <1>1, <1>2, OneCallChanges, IdleIsGood DEF End, Entering, Admitted

Tables == <<tenants, users, widest, late>>

\* A step that changes one handler, which adds no user to a tenant.
LEMMA OnlyCallChanges ==
  ASSUME MembershipInv, NEW c \in Calls, NEW h, call' = [call EXCEPT ![c] = h],
         UNCHANGED Tables, GoodCall(h, tenants, users, widest),
         \/ h.op # "join"
         \/ /\ call[c].op = "join" /\ h.tenant = call[c].tenant
            /\ h.step \in {"counted", "located"} => call[c].step \in {"counted", "located"}
  PROVE  MembershipInv'
<1>1. Grows
  BY DEF Grows, Tables, MembershipInv, TypeOK
<1>2. call' \in [Calls -> CallState] /\ CallsInv'
  BY <1>1, OneCallChanges DEF Tables
<1>3. call'[c] = h /\ \A d \in Calls \ {c} : call'[d] = call[d]
  BY DEF MembershipInv, TypeOK
<1>4. ASSUME NEW t \in Tenants PROVE Roomy(t)' /\ Punctual(t)'
  <2>1. Joined(t)' = Joined(t)
    BY DEF Tables, Joined, Members, UserStands
  <2>2. Entering(t)' \subseteq Entering(t) /\ Admitted(t)' \subseteq Admitted(t)
    BY <1>3 DEF Entering, Admitted
  <2>3. widest'[t] = widest[t] /\ widest[t] \in Nat /\ late'[t] = late[t]
        /\ ((Stored(t) /\ tenants[t].deleted)' => Stored(t) /\ tenants[t].deleted)
    BY DEF Tables, Stored, MembershipInv, TypeOK
  <2> QED
    BY <2>1, <2>2, <2>3, RoomyKeeps, PunctualKeeps
<1> QED
  BY <1>2, <1>4 DEF Tables, MembershipInv, TypeOK, Stored, WidestInv

-----------------------------------------------------------------------------
(* Handlers begin, count, look up and fail *)

LEMMA CallIsGood ==
  ASSUME MembershipInv, NEW c \in Calls
  PROVE  GoodCall(call[c], tenants, users, widest) /\ call[c] \in CallState
  BY DEF MembershipInv, CallsInv, TypeOK

LEMMA BeginStep ==
  ASSUME MembershipInv, NEW c \in Calls, NEW op \in Kinds,
         NEW t \in Tenants \cup {NoTenant}, NEW u \in Users \cup {NoUser},
         Begin(c, op, t, u), op \notin {"join", "createTenant"},
         op \in {"updateTenant", "removeTenant", "restoreTenant"}
           => t \in Tenants /\ Stored(t),
         op \in {"leave", "createUser", "moveUser", "removeUser", "restoreUser"}
           => u \in Users,
         op \in {"leave", "moveUser", "removeUser", "restoreUser"} => users[u] # NoUser,
         op \in {"createUser", "moveUser"} /\ t # NoTenant => t \in Tenants /\ Stored(t)
  PROVE  MembershipInv'
<1> DEFINE h == [Idle EXCEPT !.op = op, !.step = "found", !.tenant = t, !.user = u]
<1>1. GoodCall(h, tenants, users, widest) /\ h.op = op
  BY DEF GoodCall, Idle, CallState, Stored, Kinds
<1>2. call' = [call EXCEPT ![c] = h] /\ UNCHANGED Tables
  BY DEF Begin, Tables
<1> HIDE DEF h
<1> QED
  BY <1>1, <1>2, OnlyCallChanges

LEMMA BeginCreateTenantStep ==
  ASSUME MembershipInv, NEW c \in Calls, NEW slug \in Slugs, BeginCreateTenant(c, slug)
  PROVE  MembershipInv'
<1> DEFINE h == [Idle EXCEPT !.op = "createTenant", !.step = "found", !.slug = slug]
<1>1. GoodCall(h, tenants, users, widest) /\ h.op = "createTenant"
  BY DEF GoodCall, Idle, CallState, Kinds
<1>2. call' = [call EXCEPT ![c] = h] /\ UNCHANGED Tables
  BY DEF BeginCreateTenant, Tables
<1> HIDE DEF h
<1> QED
  BY <1>1, <1>2, OnlyCallChanges

LEMMA BeginOnTenantStep ==
  ASSUME MembershipInv, NEW c \in Calls, NEW t \in Tenants,
         NEW op \in {"updateTenant", "removeTenant", "restoreTenant"},
         BeginOnTenant(c, op, t)
  PROVE  MembershipInv'
  BY BeginStep DEF BeginOnTenant, Stands, Kinds

LEMMA BeginLeaveStep ==
  ASSUME MembershipInv, NEW c \in Calls, NEW t \in Tenants, NEW u \in Users,
         BeginLeave(c, t, u)
  PROVE  MembershipInv'
  BY BeginStep DEF BeginLeave, Members, UserStands, Kinds

LEMMA BeginOnUserStep ==
  ASSUME MembershipInv, NEW c \in Calls,
         NEW op \in {"createUser", "moveUser", "removeUser", "restoreUser"},
         NEW t \in Tenants \cup {NoTenant}, NEW u \in Users, BeginOnUser(c, op, t, u)
  PROVE  MembershipInv'
  BY BeginStep DEF BeginOnUser, UserStands, Kinds

LEMMA CallFailsStep ==
  ASSUME MembershipInv, NEW c \in Calls, CallFails(c)
  PROVE  MembershipInv'
<1>1. Idle.op = "idle"
  BY DEF Idle
<1> QED
  BY <1>1, OnlyCallChanges, IdleIsGood DEF CallFails, End, Tables

LEMMA FindUserStep ==
  ASSUME MembershipInv, NEW c \in Calls, FindUser(c)
  PROVE  MembershipInv'
<1>0. call[c].op = "join" /\ call[c].step = "counted" /\ UNCHANGED Tables
  BY DEF FindUser, At, Tables
<1>1. CASE UserStands(call[c].user)
  <2> DEFINE h == [call[c] EXCEPT !.step = "located"]
  <2>1. call' = [call EXCEPT ![c] = h]
    BY <1>1 DEF FindUser, MembershipInv, TypeOK
  <2>2. GoodCall(h, tenants, users, widest) /\ h.op = "join" /\ h.tenant = call[c].tenant
    BY <1>0, <1>1, CallIsGood DEF GoodCall, CallState, UserStands
  <2> HIDE DEF h
  <2> QED
    BY <1>0, <2>1, <2>2, OnlyCallChanges
<1>2. CASE ~UserStands(call[c].user)
  <2>1. call' = [call EXCEPT ![c] = Idle] /\ Idle.op = "idle"
    BY <1>2 DEF FindUser, Idle
  <2> QED
    BY <1>0, <2>1, OnlyCallChanges, IdleIsGood
<1> QED
  BY <1>1, <1>2

-----------------------------------------------------------------------------
(* Users are added *)

LEMMA FindTenantStep ==
  ASSUME MembershipInv, NEW c \in Calls, NEW t \in Tenants, NEW u \in Users,
         FindTenant(c, t, u)
  PROVE  MembershipInv'
<1> DEFINE h == [Idle EXCEPT !.op = "join", !.step = "found", !.tenant = t,
                   !.user = u, !.room = tenants[t].maxUsers]
<1>1. call' = [call EXCEPT ![c] = h] /\ UNCHANGED Tables
  BY DEF FindTenant, Tables
<1>2. tenants[t] \in TenantRow /\ tenants[t].maxUsers \in Capacities
      /\ ~tenants[t].deleted
  BY DEF FindTenant, Stands, Stored, TenantRow, MembershipInv, TypeOK
<1>3. tenants[t].maxUsers <= widest[t]
  BY <1>2 DEF MembershipInv, WidestInv, Stored
<1>4. GoodCall(h, tenants, users, widest)
  BY <1>2, <1>3 DEF GoodCall, Idle, CallState, Kinds, FindTenant, Stands, Stored
<1>5. h.op = "join" /\ h.tenant = t /\ h.step = "found"
  BY DEF Idle
<1>6. Grows
  BY <1>1 DEF Grows, Tables, MembershipInv, TypeOK
<1> HIDE DEF h
<1>7. call' \in [Calls -> CallState] /\ CallsInv'
  BY <1>1, <1>4, <1>6, OneCallChanges DEF Tables
<1>8. call'[c] = h /\ \A d \in Calls \ {c} : call'[d] = call[d]
  BY <1>1 DEF MembershipInv, TypeOK
<1>9. ASSUME NEW s \in Tenants PROVE Roomy(s)' /\ Punctual(s)'
  <2>1. Joined(s)' = Joined(s) /\ Admitted(s)' \subseteq Admitted(s)
    BY <1>1, <1>5, <1>8 DEF Tables, Joined, Members, UserStands, Entering, Admitted
  <2>2. widest'[s] = widest[s] /\ widest[s] \in Nat
    BY <1>1 DEF Tables, MembershipInv, TypeOK
  <2>3. Roomy(s)'
    BY <2>1, <2>2, RoomyKeeps
  <2>4. CASE s = t
    BY <1>1, <1>2, <2>3, <2>4 DEF Tables, Punctual, Stored, MembershipInv
  <2>5. CASE s # t
    <3>1. Entering(s)' \subseteq Entering(s)
      BY <1>5, <1>8, <2>5 DEF Entering
    <3> QED
      BY <1>1, <2>3, <3>1, PunctualKeeps DEF Tables, Stored
  <2> QED
    BY <2>3, <2>4, <2>5
<1> QED
  BY <1>1, <1>7, <1>9 DEF Tables, MembershipInv, TypeOK, Stored, WidestInv

\* The count that admits a handler is of all members, with those that joined.
LEMMA CountMembersStep ==
  ASSUME MembershipInv, NEW c \in Calls, CountMembers(c)
  PROVE  MembershipInv'
<1>0. call[c].op = "join" /\ call[c].step = "found" /\ UNCHANGED Tables
  BY DEF CountMembers, At, Tables
<1>1. PICK t \in Tenants : t = call[c].tenant
  BY <1>0, CallIsGood DEF GoodCall
<1>2. CASE ~HasRoom(Cardinality(Members(t)), call[c].room)
  <2>1. call' = [call EXCEPT ![c] = Idle] /\ Idle.op = "idle"
    BY <1>1, <1>2 DEF CountMembers, Idle
  <2> QED
    BY <1>0, <2>1, OnlyCallChanges, IdleIsGood
<1>3. CASE HasRoom(Cardinality(Members(t)), call[c].room)
  <2> DEFINE h == [call[c] EXCEPT !.step = "counted"]
  <2>1. call' = [call EXCEPT ![c] = h]
    BY <1>1, <1>3 DEF CountMembers, MembershipInv, TypeOK
  <2>2. GoodCall(h, tenants, users, widest)
    BY <1>0, CallIsGood DEF GoodCall, CallState
  <2>3. h.op = "join" /\ h.tenant = t /\ h.step = "counted"
    BY <1>0, <1>1, CallIsGood DEF CallState
  <2>4. Grows
    BY <1>0 DEF Grows, Tables, MembershipInv, TypeOK
  <2> HIDE DEF h
  <2>5. call' \in [Calls -> CallState] /\ CallsInv'
    BY <1>0, <2>1, <2>2, <2>4, OneCallChanges DEF Tables
  <2>6. call'[c] = h /\ \A d \in Calls \ {c} : call'[d] = call[d]
    BY <2>1 DEF MembershipInv, TypeOK
  <2>7. ASSUME NEW s \in Tenants PROVE Punctual(s)'
    <3>1. Entering(s)' \subseteq Entering(s)
      BY <1>0, <1>1, <2>3, <2>6 DEF Entering
    <3> QED
      BY <1>0, <3>1, PunctualKeeps DEF Tables, Stored
  <2>8. ASSUME NEW s \in Tenants \ {t} PROVE Roomy(s)'
    <3>1. Joined(s)' = Joined(s) /\ Admitted(s)' \subseteq Admitted(s)
      BY <1>0, <2>3, <2>6, <2>8
      DEF Tables, Joined, Members, UserStands, Entering, Admitted
    <3>2. widest'[s] = widest[s] /\ widest[s] \in Nat
      BY <1>0 DEF Tables, MembershipInv, TypeOK
    <3> QED
      BY <3>1, <3>2, RoomyKeeps
  <2>9. Roomy(t)'
    <3>1. Joined(t)' = Joined(t) /\ widest'[t] = widest[t] /\ widest[t] \in Nat
      BY <1>0 DEF Tables, Joined, Members, UserStands, MembershipInv, TypeOK
    <3>2. call[c].room \in Nat /\ call[c].room <= widest[t]
      BY <1>0, <1>1, CallIsGood DEF GoodCall
    <3>3. Cardinality(Joined(t)) < widest[t]
      BY <1>3, <3>1, <3>2, Finite DEF HasRoom
    <3>4. Admitted(t)' \subseteq Calls
      BY DEF Admitted, Entering
    <3>5. Cardinality(Admitted(t)') <= Cardinality(Calls)
          /\ Cardinality(Admitted(t)') \in Nat
      BY <3>4, Finite, FS_Subset, FS_CardinalityType
    <3> QED
      BY <3>1, <3>3, <3>5, Finite DEF Roomy
  <2> QED
    BY <1>0, <2>5, <2>7, <2>8, <2>9 DEF Tables, MembershipInv, TypeOK, Stored, WidestInv
<1> QED
  BY <1>2, <1>3

\* A handler that had counted leaves, and its user is one more at most.
LEMMA JoinStep ==
  ASSUME MembershipInv, NEW c \in Calls, Join(c)
  PROVE  MembershipInv'
<1>0. call[c].op = "join" /\ call[c].step = "located"
  BY DEF Join, At
<1>1. PICK t \in Tenants, u \in Users : t = call[c].tenant /\ u = call[c].user
  BY <1>0, CallIsGood DEF GoodCall
<1>2. users[u] \in UserRow /\ tenants[t] \in TenantRow
  BY <1>0, <1>1, CallIsGood DEF GoodCall, MembershipInv, TypeOK
<1> DEFINE row == [users[u] EXCEPT !.tenant = t, !.joined = TRUE]
<1>3. row \in UserRow /\ row.tenant = t
  BY <1>2 DEF UserRow
<1>4. users' = [users EXCEPT ![u] = row]
  BY <1>1 DEF Join, MembershipInv, TypeOK
<1>5. late' = [late EXCEPT ![t] = IF tenants[t].deleted THEN @ + 1 ELSE @]
      /\ UNCHANGED <<tenants, widest>> /\ End(c)
  BY <1>1 DEF Join
<1> HIDE DEF row
<1>6. Grows
  BY <1>2, <1>3, <1>4, <1>5 DEF Grows, MembershipInv, TypeOK
<1>7. /\ call' \in [Calls -> CallState] /\ CallsInv'
      /\ \A s \in Tenants : Entering(s)' = Entering(s) \ {c}
      /\ \A s \in Tenants : Admitted(s)' = Admitted(s) \ {c}
  BY <1>5, <1>6, EndLeaves
<1>8. TypeOK'
  <2>1. tenants[t] # NoTenant
    BY <1>2
  <2>2. late' \in [Tenants -> Nat]
    BY <1>5 DEF MembershipInv, TypeOK
  <2>3. users' \in [Users -> UserRow \cup {NoUser}]
    BY <1>3, <1>4 DEF MembershipInv, TypeOK
  <2>4. \A w \in Users : users'[w] # NoUser /\ users'[w].tenant # NoTenant
                         => tenants'[users'[w].tenant] # NoTenant
    BY <1>3, <1>4, <1>5, <2>1 DEF MembershipInv, TypeOK, Stored
  <2> QED
    BY <1>5, <1>7, <2>2, <2>3, <2>4 DEF MembershipInv, TypeOK, Stored
<1>9. c \in Entering(t) /\ c \in Admitted(t)
  BY <1>0, <1>1 DEF Entering, Admitted
<1>10. ASSUME NEW s \in Tenants PROVE Punctual(s)'
  <2>1. CASE s = t /\ tenants[t].deleted
    <3>1. Cardinality(Entering(t)') = Cardinality(Entering(t)) - 1
      BY <1>7, <1>9, Finite, FS_RemoveElement
    <3>2. late'[t] = late[t] + 1 /\ late[t] \in Nat
      BY <1>5, <2>1 DEF MembershipInv, TypeOK
    <3>3. late[t] + Cardinality(Entering(t)) < Cardinality(Calls)
      BY <1>2, <2>1 DEF MembershipInv, Punctual, Stored
    <3>4. c \in Entering(t) /\ Cardinality(Entering(t)) \in Nat
      BY <1>9, Finite
    <3>5. late'[t] + Cardinality(Entering(t)') < Cardinality(Calls)
      BY <3>1, <3>2, <3>3, <3>4, Finite
    <3>6. Cardinality(Entering(t)') \in Nat
      BY <1>7, Finite, FS_RemoveElement, FS_Subset, FS_CardinalityType
    <3> QED
      BY <2>1, <3>2, <3>5, <3>6, Finite DEF Punctual
  <2>2. CASE ~(s = t /\ tenants[t].deleted)
    <3>1. late'[s] = late[s] /\ Entering(s)' \subseteq Entering(s)
      BY <1>5, <1>7, <2>2 DEF MembershipInv, TypeOK
    <3> QED
      BY <1>5, <3>1, PunctualKeeps DEF Stored
  <2> QED
    BY <2>1, <2>2
<1>11. ASSUME NEW s \in Tenants PROVE Roomy(s)'
  <2>0. widest'[s] = widest[s] /\ widest[s] \in Nat
    BY <1>5 DEF MembershipInv, TypeOK
  <2>1. CASE s = t
    <3>1. Joined(t)' \subseteq Joined(t) \cup {u}
      BY <1>4 DEF Joined, Members, UserStands, MembershipInv, TypeOK
    <3>2. Cardinality(Joined(t)') <= Cardinality(Joined(t)) + 1
          /\ Cardinality(Joined(t)') \in Nat
      <4>1. /\ IsFiniteSet(Joined(t) \cup {u})
            /\ Cardinality(Joined(t) \cup {u}) <= Cardinality(Joined(t)) + 1
        <5>1. Cardinality(Joined(t) \cup {u})
                = IF u \in Joined(t) THEN Cardinality(Joined(t))
                  ELSE Cardinality(Joined(t)) + 1
          BY Finite, FS_AddElement
        <5>2. IsFiniteSet(Joined(t) \cup {u})
          BY Finite, FS_AddElement
        <5> QED
          BY <5>1, <5>2, Finite
      <4> QED
        BY <3>1, <4>1, Finite, FS_Subset, FS_CardinalityType
    <3>3. Cardinality(Admitted(t)') = Cardinality(Admitted(t)) - 1
      BY <1>7, <1>9, Finite, FS_RemoveElement
    <3>4. Roomy(t)
      BY DEF MembershipInv
    <3> QED
      BY <2>0, <2>1, <3>2, <3>3, <3>4, Finite DEF Roomy
  <2>2. CASE s # t
    <3>1. Joined(s)' \subseteq Joined(s)
      BY <1>3, <1>4, <2>2 DEF Joined, Members, UserStands, MembershipInv, TypeOK
    <3> QED
      BY <1>7, <2>0, <3>1, RoomyKeeps
  <2> QED
    BY <2>1, <2>2
<1> QED
  BY <1>5, <1>7, <1>8, <1>10, <1>11 DEF MembershipInv, WidestInv, Stored

-----------------------------------------------------------------------------
(* Users leave, are placed, deleted and restored *)

\* Writing a user's row so that the user has not joined a tenant, or is where
\* he was and hidden, brings nobody in.
LEMMA RowStep ==
  ASSUME MembershipInv, NEW c \in Calls, NEW u \in Users, NEW row \in UserRow,
         users' = [users EXCEPT ![u] = row], End(c), UNCHANGED <<tenants, widest, late>>,
         row.tenant # NoTenant => Stored(row.tenant),
         row.joined => row.deleted
  PROVE  MembershipInv'
<1>1. Grows
  BY DEF Grows, MembershipInv, TypeOK
<1>2. /\ call' \in [Calls -> CallState] /\ CallsInv'
      /\ \A s \in Tenants : Entering(s)' = Entering(s) \ {c}
      /\ \A s \in Tenants : Admitted(s)' = Admitted(s) \ {c}
  BY <1>1, EndLeaves
<1>3. TypeOK'
  <2>1. users' \in [Users -> UserRow \cup {NoUser}]
    BY DEF MembershipInv, TypeOK
  <2>2. \A w \in Users : users'[w] # NoUser /\ users'[w].tenant # NoTenant
                         => tenants'[users'[w].tenant] # NoTenant
    BY DEF MembershipInv, TypeOK, Stored
  <2> QED
    BY <1>2, <2>1, <2>2 DEF MembershipInv, TypeOK, Stored
<1>4. ASSUME NEW s \in Tenants PROVE Roomy(s)' /\ Punctual(s)'
  <2>1. Joined(s)' \subseteq Joined(s)
    BY DEF Joined, Members, UserStands, MembershipInv, TypeOK
  <2>2. widest'[s] = widest[s] /\ widest[s] \in Nat
    BY DEF MembershipInv, TypeOK
  <2>3. Roomy(s)'
    BY <1>2, <2>1, <2>2, RoomyKeeps
  <2>4. Punctual(s)'
    BY <1>2, PunctualKeeps DEF Stored
  <2> QED
    BY <2>3, <2>4
<1> QED
  BY <1>2, <1>3, <1>4 DEF MembershipInv, WidestInv, Stored

LEMMA LeaveStep ==
  ASSUME MembershipInv, NEW c \in Calls, Leave(c)
  PROVE  MembershipInv'
<1>1. PICK u \in Users : u = call[c].user
  BY CallIsGood DEF Leave, At, GoodCall
<1>2. users[u] \in UserRow
  BY <1>1, CallIsGood DEF Leave, At, GoodCall, MembershipInv, TypeOK
<1> DEFINE row == [users[u] EXCEPT !.tenant = NoTenant, !.joined = FALSE]
<1>3. row \in UserRow /\ row.tenant = NoTenant /\ ~row.joined
  BY <1>2 DEF UserRow
<1>4. users' = [users EXCEPT ![u] = row]
  BY <1>1 DEF Leave, MembershipInv, TypeOK
<1> HIDE DEF row
<1> QED
  BY <1>3, <1>4, RowStep DEF Leave

LEMMA PlaceUserStep ==
  ASSUME MembershipInv, NEW c \in Calls, PlaceUser(c)
  PROVE  MembershipInv'
<1>0. call[c].op \in {"createUser", "moveUser"}
  BY DEF PlaceUser, At
<1>1. PICK u \in Users : u = call[c].user
  BY <1>0, CallIsGood DEF GoodCall
<1>i. PICK gone \in BOOLEAN :
        gone = IF users[u] = NoUser THEN FALSE ELSE users[u].deleted
  <2>1. CASE users[u] = NoUser
    BY <2>1
  <2>2. CASE users[u] # NoUser
    <3>1. users[u].deleted \in BOOLEAN
      BY <2>2 DEF UserRow, MembershipInv, TypeOK
    <3> QED
      BY <2>2, <3>1
  <2> QED
    BY <2>1, <2>2
<1> DEFINE row == [tenant |-> call[c].tenant, joined |-> FALSE, deleted |-> gone]
<1>2. /\ call[c].tenant \in Tenants \cup {NoTenant}
      /\ call[c].tenant # NoTenant => Stored(call[c].tenant)
  BY <1>0, CallIsGood DEF GoodCall, Stored
<1>3. row \in UserRow /\ row.tenant = call[c].tenant /\ ~row.joined
  BY <1>2 DEF UserRow
<1>4. users' = [users EXCEPT ![u] = row]
  BY <1>1, <1>i DEF PlaceUser, MembershipInv, TypeOK
<1> HIDE DEF row
<1> QED
  BY <1>2, <1>3, <1>4, RowStep DEF PlaceUser

LEMMA SetUserDeletedStep ==
  ASSUME MembershipInv, NEW c \in Calls, SetUserDeleted(c)
  PROVE  MembershipInv'
<1>0. call[c].op \in {"removeUser", "restoreUser"}
  BY DEF SetUserDeleted, At
<1>1. PICK u \in Users : u = call[c].user
  BY <1>0, CallIsGood DEF GoodCall
<1>2. users[u] \in UserRow
  BY <1>0, <1>1, CallIsGood DEF GoodCall, MembershipInv, TypeOK
<1>3. PICK gone \in BOOLEAN : gone = (call[c].op = "removeUser")
  OBVIOUS
<1> DEFINE row == [users[u] EXCEPT !.deleted = gone, !.joined = @ /\ gone]
<1>4. row \in UserRow /\ row.tenant = users[u].tenant /\ (row.joined => row.deleted)
  BY <1>2 DEF UserRow
<1>5. users[u].tenant # NoTenant => Stored(users[u].tenant)
  BY <1>2 DEF MembershipInv, TypeOK
<1>6. users' = [users EXCEPT ![u] = row]
  BY <1>1, <1>3 DEF SetUserDeleted, MembershipInv, TypeOK
<1>7. End(c) /\ UNCHANGED <<tenants, widest, late>>
  BY DEF SetUserDeleted
<1>8. row.tenant # NoTenant => Stored(row.tenant)
  BY <1>4, <1>5
<1> HIDE DEF row
<1> QED
  BY <1>4, <1>6, <1>7, <1>8, RowStep

-----------------------------------------------------------------------------
(* Tenants are created, changed, deleted and restored *)

\* Nobody is in a tenant that does not exist, or on the way to it.
LEMMA Uninhabited ==
  ASSUME MembershipInv, NEW t \in Tenants, ~Stored(t)
  PROVE  Joined(t) = {} /\ Entering(t) = {} /\ Admitted(t) = {}
<1>1. Joined(t) = {}
  BY DEF Joined, Members, UserStands, MembershipInv, TypeOK, Stored
<1>2. Entering(t) = {}
  BY CallIsGood DEF Entering, GoodCall, Stored
<1> QED
  BY <1>1, <1>2 DEF Admitted

\* What all three writes of a tenant's row have in common.
LEMMA TenantRowStep ==
  ASSUME MembershipInv, NEW c \in Calls, NEW t \in Tenants, NEW row \in TenantRow,
         tenants' = [tenants EXCEPT ![t] = row], End(c), UNCHANGED users,
         widest' \in [Tenants -> Nat], late' \in [Tenants -> Nat],
         \A s \in Tenants \ {t} : widest'[s] = widest[s] /\ late'[s] = late[s],
         row.maxUsers <= widest'[t], Stored(t) => widest'[t] >= widest[t],
         \A s \in Tenants \ {t} : Stored(s) => tenants[s].slug # row.slug,
         Punctual(t)'
  PROVE  MembershipInv'
<1>0. row # NoTenant
  OBVIOUS
<1>w. ASSUME NEW s \in Tenants, Stored(s)
      PROVE  widest'[s] \in Nat /\ widest'[s] >= widest[s]
  <2>1. widest[s] \in Nat /\ widest'[s] \in Nat
    BY DEF MembershipInv, TypeOK
  <2>2. CASE s = t
    BY <1>w, <2>1, <2>2
  <2>3. CASE s # t
    <3>1. widest'[s] = widest[s]
      BY <2>3
    <3> QED
      BY <2>1, <3>1
  <2> QED
    BY <2>2, <2>3
<1>r. \A s \in Tenants : tenants'[s] = IF s = t THEN row ELSE tenants[s]
  BY DEF MembershipInv, TypeOK
<1>1. Grows
  <2>1. \A s \in Tenants : tenants[s] # NoTenant => tenants'[s] # NoTenant
    BY <1>0, <1>r
  <2>2. \A s \in Tenants : tenants[s] # NoTenant => widest'[s] >= widest[s]
    BY <1>w DEF Stored
  <2> QED
    BY <2>1, <2>2 DEF Grows
<1>2. /\ call' \in [Calls -> CallState] /\ CallsInv'
      /\ \A s \in Tenants : Entering(s)' = Entering(s) \ {c}
      /\ \A s \in Tenants : Admitted(s)' = Admitted(s) \ {c}
  BY <1>1, EndLeaves
<1>3. /\ tenants' \in [Tenants -> TenantRow \cup {NoTenant}] /\ tenants'[t] = row
      /\ \A s \in Tenants \ {t} : tenants'[s] = tenants[s]
  BY DEF MembershipInv, TypeOK
<1>4. TypeOK'
  <2>1. \A u \in Users : users'[u] # NoUser /\ users'[u].tenant # NoTenant
                         => tenants'[users'[u].tenant] # NoTenant
    <3>1. \A u \in Users : users[u] # NoUser => users[u].tenant \in Tenants \cup {NoTenant}
      BY DEF MembershipInv, TypeOK, UserRow
    <3> QED
      BY <1>1, <3>1 DEF Grows, MembershipInv, TypeOK, Stored
  <2>2. \A s1, s2 \in Tenants :
          /\ tenants'[s1] # NoTenant /\ tenants'[s2] # NoTenant
          /\ tenants'[s1].slug = tenants'[s2].slug
          => s1 = s2
    BY <1>3 DEF MembershipInv, TypeOK, Stored
  <2> QED
    BY <1>2, <1>3, <2>1, <2>2 DEF MembershipInv, TypeOK, Stored
<1>5. WidestInv'
  BY <1>3 DEF WidestInv, Stored, MembershipInv
<1>6. \A s \in Tenants : Joined(s)' = Joined(s)
  BY DEF Joined, Members, UserStands
<1>7. ASSUME NEW s \in Tenants PROVE Roomy(s)'
  <2>1. CASE Stored(s)
    <3>1. widest'[s] \in Nat /\ widest'[s] >= widest[s]
      BY <1>w, <2>1
    <3>2. Joined(s)' \subseteq Joined(s) /\ Admitted(s)' \subseteq Admitted(s)
      BY <1>2, <1>6
    <3> QED
      BY <3>1, <3>2, RoomyKeeps
  <2>2. CASE ~Stored(s)
    <3>1. Joined(s)' = {} /\ Admitted(s)' = {}
      BY <1>2, <1>6, <2>2, Uninhabited
    <3>2. Cardinality(Joined(s)') = 0 /\ Cardinality(Admitted(s)') = 0
      BY <3>1, FS_EmptySet
    <3>3. widest'[s] \in Nat /\ Cardinality(Calls) \in Nat \ {0}
      BY Finite
    <3>4. Cardinality(Joined(s)') + Cardinality(Admitted(s)')
            < widest'[s] + Cardinality(Calls)
      <4>1. \A n \in Nat, m \in Nat \ {0} : 0 + 0 < n + m
        OBVIOUS
      <4>2. 0 + 0 < widest'[s] + Cardinality(Calls)
        BY <3>3, <4>1
      <4> QED
        BY <3>2, <4>2
    <3> QED
      BY <3>4 DEF Roomy
  <2> QED
    BY <2>1, <2>2
<1>8. ASSUME NEW s \in Tenants \ {t} PROVE Punctual(s)'
  BY <1>2, <1>3, PunctualKeeps DEF Stored
<1> QED
  BY <1>2, <1>4, <1>5, <1>7, <1>8 DEF MembershipInv

LEMMA CreateTenantStep ==
  ASSUME MembershipInv, NEW c \in Calls, NEW t \in Tenants, NEW max \in Capacities,
         CreateTenant(c, t, max)
  PROVE  MembershipInv'
<1> DEFINE row == [slug |-> call[c].slug, maxUsers |-> max, deleted |-> FALSE]
<1>1. call[c].slug \in Slugs
  BY CallIsGood DEF CreateTenant, At, GoodCall
<1>2. row \in TenantRow /\ row.slug = call[c].slug /\ row.maxUsers = max /\ ~row.deleted
  BY <1>1 DEF TenantRow
<1>3. /\ tenants' = [tenants EXCEPT ![t] = row] /\ End(c) /\ UNCHANGED <<users, late>>
      /\ widest' = [widest EXCEPT ![t] = max] /\ ~Stored(t)
  BY DEF CreateTenant
<1>4. \A s \in Tenants \ {t} : Stored(s) => tenants[s].slug # row.slug
  BY <1>2 DEF CreateTenant, SlugTaken
<1> HIDE DEF row
<1>5. max \in Nat /\ widest' \in [Tenants -> Nat] /\ widest'[t] = max
      /\ \A s \in Tenants \ {t} : widest'[s] = widest[s]
  BY <1>3 DEF MembershipInv, TypeOK
<1>6. Punctual(t)'
  <2>1. tenants'[t] = row
    BY <1>3 DEF MembershipInv, TypeOK
  <2> QED
    BY <1>2, <1>3, <2>1 DEF Punctual, MembershipInv
<1>7. late' \in [Tenants -> Nat]
  BY <1>3 DEF MembershipInv, TypeOK
<1>8. /\ row.maxUsers <= widest'[t] /\ (Stored(t) => widest'[t] >= widest[t])
      /\ \A s \in Tenants \ {t} : widest'[s] = widest[s] /\ late'[s] = late[s]
  BY <1>2, <1>3, <1>5
<1> QED
  BY <1>2, <1>3, <1>4, <1>5, <1>6, <1>7, <1>8, TenantRowStep

LEMMA FoundTenant ==
  ASSUME MembershipInv, NEW c \in Calls,
         call[c].op \in {"updateTenant", "removeTenant", "restoreTenant"}
  PROVE  /\ call[c].tenant \in Tenants /\ Stored(call[c].tenant)
         /\ tenants[call[c].tenant] \in TenantRow
  BY CallIsGood DEF GoodCall, Stored, MembershipInv, TypeOK

LEMMA UpdateTenantStep ==
  ASSUME MembershipInv, NEW c \in Calls, NEW max \in Capacities, UpdateTenant(c, max)
  PROVE  MembershipInv'
<1>1. PICK t \in Tenants : t = call[c].tenant
  BY FoundTenant DEF UpdateTenant, At
<1>2. tenants[t] \in TenantRow /\ Stored(t)
  BY <1>1, FoundTenant DEF UpdateTenant, At
<1> DEFINE row == [tenants[t] EXCEPT !.maxUsers = max]
<1>3. row \in TenantRow /\ row.slug = tenants[t].slug /\ row.maxUsers = max
      /\ row.deleted = tenants[t].deleted
  BY <1>2 DEF TenantRow
<1>4. /\ tenants' = [tenants EXCEPT ![t] = row] /\ End(c) /\ UNCHANGED <<users, late>>
      /\ widest' = [widest EXCEPT ![t] = Wider(@, max)]
  BY <1>1 DEF UpdateTenant, MembershipInv, TypeOK
<1> HIDE DEF row
<1>5. /\ max \in Nat /\ widest' \in [Tenants -> Nat]
      /\ widest'[t] >= max /\ widest'[t] >= widest[t]
      /\ \A s \in Tenants \ {t} : widest'[s] = widest[s]
  BY <1>4 DEF Wider, MembershipInv, TypeOK
<1>6. Punctual(t)'
  <2>1. tenants'[t] = row
    BY <1>4 DEF MembershipInv, TypeOK
  <2>2. Grows
    BY <1>3, <1>4, <1>5 DEF Grows, MembershipInv, TypeOK
  <2>3. Entering(t)' \subseteq Entering(t)
    BY <1>4, <2>2, EndLeaves
  <2> QED
    BY <1>2, <1>3, <1>4, <2>1, <2>3, PunctualKeeps DEF Stored
<1>7. \A s \in Tenants \ {t} : Stored(s) => tenants[s].slug # row.slug
  BY <1>2, <1>3 DEF MembershipInv, TypeOK
<1>8. late' \in [Tenants -> Nat]
  BY <1>4 DEF MembershipInv, TypeOK
<1>9. /\ row.maxUsers <= widest'[t] /\ (Stored(t) => widest'[t] >= widest[t])
      /\ \A s \in Tenants \ {t} : widest'[s] = widest[s] /\ late'[s] = late[s]
  BY <1>3, <1>4, <1>5
<1> QED
  BY <1>3, <1>4, <1>6, <1>5, <1>7, <1>8, <1>9, TenantRowStep

\* The handler that deletes a tenant is not one that adds a user to it.
LEMMA SetTenantDeletedStep ==
  ASSUME MembershipInv, NEW c \in Calls, SetTenantDeleted(c)
  PROVE  MembershipInv'
<1>0. call[c].op \in {"removeTenant", "restoreTenant"}
  BY DEF SetTenantDeleted, At
<1>1. PICK t \in Tenants : t = call[c].tenant
  BY <1>0, FoundTenant
<1>2. tenants[t] \in TenantRow /\ Stored(t)
  BY <1>0, <1>1, FoundTenant
<1>3. PICK gone \in BOOLEAN : gone = (call[c].op = "removeTenant")
  OBVIOUS
<1> DEFINE row == [tenants[t] EXCEPT !.deleted = gone]
<1>4. /\ row \in TenantRow /\ row.slug = tenants[t].slug /\ row.deleted = gone
      /\ row.maxUsers = tenants[t].maxUsers
  BY <1>2 DEF TenantRow
<1>5. /\ tenants' = [tenants EXCEPT ![t] = row] /\ End(c) /\ UNCHANGED <<users, widest>>
      /\ late' = [late EXCEPT ![t] = IF tenants[t].deleted THEN @ ELSE 0]
  BY <1>1, <1>3 DEF SetTenantDeleted, MembershipInv, TypeOK
<1> HIDE DEF row
<1>6. late' \in [Tenants -> Nat] /\ \A s \in Tenants \ {t} : late'[s] = late[s]
  BY <1>5 DEF MembershipInv, TypeOK
<1>7. /\ widest' \in [Tenants -> Nat] /\ widest'[t] = widest[t] /\ widest[t] \in Nat
      /\ \A s \in Tenants \ {t} : widest'[s] = widest[s]
  BY <1>5 DEF MembershipInv, TypeOK
<1>8. row.maxUsers <= widest'[t]
  BY <1>2, <1>4, <1>7 DEF MembershipInv, WidestInv
<1>9. Punctual(t)'
  <2>1. tenants'[t] = row /\ late'[t] = IF tenants[t].deleted THEN late[t] ELSE 0
    BY <1>5 DEF MembershipInv, TypeOK
  <2>2. Grows
    BY <1>4, <1>5, <1>7 DEF Grows, MembershipInv, TypeOK
  <2>3. Entering(t)' = Entering(t) \ {c}
    BY <1>5, <2>2, EndLeaves
  <2>4. CASE tenants[t].deleted
    BY <1>2, <2>1, <2>3, <2>4, PunctualKeeps DEF Stored
  <2>5. CASE ~tenants[t].deleted
    <3>1. c \notin Entering(t) /\ Entering(t) \subseteq Calls \ {c}
      BY <1>0 DEF Entering
    <3>2. Entering(t)' \subseteq Calls \ {c}
      BY <2>3, <3>1
    <3>3. /\ IsFiniteSet(Calls \ {c})
          /\ Cardinality(Calls \ {c}) = Cardinality(Calls) - 1
      BY Finite, FS_RemoveElement
    <3>4. Cardinality(Entering(t)') <= Cardinality(Calls) - 1
          /\ Cardinality(Entering(t)') \in Nat
      BY <3>2, <3>3, FS_Subset, FS_CardinalityType
    <3> QED
      BY <2>1, <2>5, <3>4, Finite DEF Punctual
  <2> QED
    BY <2>4, <2>5
<1>10. \A s \in Tenants \ {t} : Stored(s) => tenants[s].slug # row.slug
  BY <1>2, <1>4 DEF MembershipInv, TypeOK
<1>11. /\ Stored(t) => widest'[t] >= widest[t]
       /\ \A s \in Tenants \ {t} : widest'[s] = widest[s] /\ late'[s] = late[s]
  BY <1>6, <1>7
<1> QED
  BY <1>4, <1>5, <1>6, <1>7, <1>8, <1>9, <1>10, <1>11, TenantRowStep

-----------------------------------------------------------------------------
(* The invariant *)

LEMMA InitIsGood == Init => MembershipInv
<1> SUFFICES ASSUME Init PROVE MembershipInv
  OBVIOUS
<1>1. Idle \in CallState /\ Idle.op = "idle"
  BY DEF Idle, CallState
<1>2. \A t \in Tenants : tenants[t] # NoTenant => tenants[t].maxUsers \in Nat
  BY DEF Init, TenantRow
<1>3. TypeOK
  BY <1>1, <1>2 DEF Init, TypeOK, Stored
<1>4. CallsInv
  BY IdleIsGood DEF Init, CallsInv
<1>5. WidestInv
  BY <1>2 DEF Init, WidestInv, Stored
<1>6. ASSUME NEW t \in Tenants PROVE Roomy(t) /\ Punctual(t)
  <2>1. Joined(t) = {}
    BY DEF Joined, Members, UserStands, Init
  <2>2. Entering(t) = {} /\ Admitted(t) = {}
    BY <1>1 DEF Init, Entering, Admitted
  <2>3. late[t] = 0 /\ widest[t] \in Nat
    BY <1>3 DEF Init, TypeOK
  <2> QED
    BY <2>1, <2>2, <2>3, Finite, FS_EmptySet DEF Roomy, Punctual
<1> QED
  BY <1>3, <1>4, <1>5, <1>6 DEF MembershipInv

LEMMA StepIsGood == MembershipInv /\ [Next]_vars => MembershipInv'
<1> SUFFICES ASSUME MembershipInv, [Next]_vars PROVE MembershipInv'
  OBVIOUS
<1>1. ASSUME NEW c \in Calls, OfTenant(c) PROVE MembershipInv'
  BY <1>1, BeginCreateTenantStep, CreateTenantStep, BeginOnTenantStep,
     UpdateTenantStep, SetTenantDeletedStep DEF OfTenant
<1>2. ASSUME NEW c \in Calls, OfMember(c) PROVE MembershipInv'
  BY <1>2, FindTenantStep, BeginLeaveStep, CountMembersStep, FindUserStep, JoinStep,
     LeaveStep DEF OfMember
<1>3. ASSUME NEW c \in Calls, OfUser(c) PROVE MembershipInv'
  BY <1>3, BeginOnUserStep, PlaceUserStep, SetUserDeletedStep DEF OfUser
<1>4. CASE UNCHANGED vars
  BY <1>4 DEF vars, MembershipInv, TypeOK, CallsInv, WidestInv, Stored, Roomy, Punctual,
     Joined, Members, UserStands, Entering, Admitted
<1> QED
  BY <1>1, <1>2, <1>3, <1>4, CallFailsStep DEF Next

LEMMA MembershipHolds == Spec => []MembershipInv
  BY InitIsGood, StepIsGood, PTL DEF Spec

\* Rows and handlers keep their types, no user is in a tenant that does not
\* exist, and no slug names two tenants.
THEOREM MembershipTypeCorrect == Spec => []TypeOK
  BY MembershipHolds, PTL DEF MembershipInv

\* addUserToTenant() counts first and writes last.  However many handlers
\* overlap, the users it brought in exceed the largest capacity of the tenant
\* by less than the number of handlers, and so do those it brings into a
\* tenant after its deletion.
THEOREM JoinsAreBounded == Spec => []JoinsBounded
<1>1. MembershipInv => JoinsBounded
  <2> SUFFICES ASSUME MembershipInv, NEW t \in Tenants
               PROVE  /\ Cardinality(Joined(t)) < widest[t] + Cardinality(Calls)
                      /\ late[t] < Cardinality(Calls)
    BY DEF JoinsBounded, CapacityBounded, LateJoinsBounded
  <2>1. Roomy(t) /\ Punctual(t) /\ widest[t] \in Nat
    BY DEF MembershipInv, TypeOK
  <2> QED
    BY <2>1, Finite DEF Roomy, Punctual
<1> QED
  BY <1>1, MembershipHolds, PTL
=============================================================================
