---------------------------- MODULE NotificationHub ----------------------------
(***************************************************************************)
(* NotificationsService and NotificationsGateway: a notification is stored *)
(* and then sent to the sockets its user has open at that moment, and only *)
(* to those.  A client is external: it connects with a token, asks for the *)
(* list of its notifications once connected, marks some as read and goes   *)
(* away, possibly from several sockets of one user at a time.              *)
(***************************************************************************)
EXTENDS Naturals, FiniteSets, Functions

CONSTANTS
  Users, Sockets, Items,   \* socket and notification ids, each used once
  Marks,                   \* markAsRead() handlers that may run at a time
  MaxRestarts,             \* bound on restarts of the process
  NoUser, NoItem

VARIABLES
  socket,     \* Sockets -> its state, user, and what its client has seen
  connectedUsers,  \* the map of the gateway: users -> their sockets
  items,      \* Items -> row of notifications, or NoItem
  create,     \* Items -> step of the create() that makes it
  mark,       \* Marks -> the notification markAsRead() found, or NoItem
  marked,     \* history: sum of what markAllAsRead() answered
  restarts

vars == <<socket, connectedUsers, items, create, mark, marked, restarts>>

SocketState == [step : {"new", "open", "listed", "closed"},
                user : Users \cup {NoUser}, seen : SUBSET Items]
Item == [user : Users, isRead : BOOLEAN]

Init ==
  /\ socket = [s \in Sockets |-> [step |-> "new", user |-> NoUser, seen |-> {}]]
  /\ connectedUsers = [u \in {} |-> {}]
  /\ items = [i \in Items |-> NoItem]
  /\ create = [i \in Items |-> "none"]
  /\ mark = [m \in Marks |-> NoItem]
  /\ marked = 0 /\ restarts = 0

Live(s) == socket[s].step \in {"open", "listed"}
SocketsOf(u) == {s \in Sockets : Live(s) /\ socket[s].user = u}
Of(u) == {i \in Items : items[i] # NoItem /\ items[i].user = u}

-----------------------------------------------------------------------------
\* handleConnection(): a verified token joins the user's room and the map.
Connect(s, u) ==
  LET known == IF u \in DOMAIN connectedUsers THEN connectedUsers[u] ELSE {} IN
  /\ socket[s].step = "new"
  /\ socket' = [socket EXCEPT ![s].step = "open", ![s].user = u]
  /\ connectedUsers' = [v \in DOMAIN connectedUsers \cup {u} |->
                          IF v = u THEN known \cup {s} ELSE connectedUsers[v]]
  /\ UNCHANGED <<items, create, mark, marked, restarts>>
Refuse(s) ==
  /\ socket[s].step = "new" /\ socket' = [socket EXCEPT ![s].step = "closed"]
  /\ UNCHANGED <<connectedUsers, items, create, mark, marked, restarts>>

\* handleDisconnect()
\* Variant: the first socket that goes takes the user with it.
DisconnectUser(s) ==
  /\ Live(s) /\ socket' = [socket EXCEPT ![s].step = "closed"]
  /\ connectedUsers' = Restrict(connectedUsers, DOMAIN connectedUsers \ {socket[s].user})
  /\ UNCHANGED <<items, create, mark, marked, restarts>>
Disconnect(s) ==
  LET u == socket[s].user
      left == connectedUsers[u] \ {s}
  IN
  /\ Live(s) /\ socket' = [socket EXCEPT ![s].step = "closed"]
  /\ connectedUsers' =
       IF left = {} THEN Restrict(connectedUsers, DOMAIN connectedUsers \ {u})
       ELSE [connectedUsers EXCEPT ![u] = left]
  /\ UNCHANGED <<items, create, mark, marked, restarts>>

\* The process goes: sockets, the map and running handlers are lost.
Restart ==
  /\ restarts < MaxRestarts /\ restarts' = restarts + 1
  /\ socket' = [s \in Sockets |->
                  IF Live(s) THEN [socket[s] EXCEPT !.step = "closed"] ELSE socket[s]]
  /\ connectedUsers' = [u \in {} |-> {}]
  /\ create' = [i \in Items |-> IF create[i] = "stored" THEN "cut" ELSE create[i]]
  /\ mark' = [m \in Marks |-> NoItem]
  /\ UNCHANGED <<items, marked>>

-----------------------------------------------------------------------------
\* create(): the row, and then the sockets in the user's room.
Deliver(i, u) ==
  socket' = [s \in Sockets |-> IF s \in SocketsOf(u)
                               THEN [socket[s] EXCEPT !.seen = @ \cup {i}]
                               ELSE socket[s]]
\* Variant: sent first and stored afterwards.
StoreAfterSending(i, u) ==
  /\ \/ /\ create[i] = "none" /\ Deliver(i, u)
        /\ create' = [create EXCEPT ![i] = "stored"] /\ UNCHANGED items
     \/ /\ create[i] = "stored" /\ items[i] = NoItem
        /\ items' = [items EXCEPT ![i] = [user |-> u, isRead |-> FALSE]]
        /\ create' = [create EXCEPT ![i] = "sent"] /\ UNCHANGED socket
  /\ UNCHANGED <<connectedUsers, mark, marked, restarts>>
Store(i, u) ==
  /\ create[i] = "none" /\ create' = [create EXCEPT ![i] = "stored"]
  /\ items' = [items EXCEPT ![i] = [user |-> u, isRead |-> FALSE]]
  /\ UNCHANGED <<socket, connectedUsers, mark, marked, restarts>>
Send(i) ==
  /\ create[i] = "stored" /\ items[i] # NoItem
  /\ Deliver(i, items[i].user)
  /\ create' = [create EXCEPT ![i] = "sent"]
  /\ UNCHANGED <<connectedUsers, items, mark, marked, restarts>>

\* findAllForUser(), asked by a connected client.
List(s) ==
  /\ socket[s].step = "open"
  /\ socket' = [socket EXCEPT ![s].step = "listed", ![s].seen = @ \cup Of(socket[s].user)]
  /\ UNCHANGED <<connectedUsers, items, create, mark, marked, restarts>>

\* markAsRead(): looked up for its user, then written by id.
FindItem(m, u, i) ==
  /\ mark[m] = NoItem /\ i \in Of(u) /\ mark' = [mark EXCEPT ![m] = i]
  /\ UNCHANGED <<socket, connectedUsers, items, create, marked, restarts>>
MarkAsRead(m) ==
  /\ mark[m] # NoItem /\ mark' = [mark EXCEPT ![m] = NoItem]
  /\ items' = [items EXCEPT ![mark[m]].isRead = TRUE]
  /\ UNCHANGED <<socket, connectedUsers, create, marked, restarts>>
\* markAllAsRead(): one statement, which counts the rows it changes.
\* Variant: the rows are selected by their user alone.
UnreadOrNot(u) == Of(u)
Unread(u) == {i \in Of(u) : ~items[i].isRead}
MarkAllAsRead(u) ==
  /\ items' = [i \in Items |-> IF i \in Unread(u) THEN [items[i] EXCEPT !.isRead = TRUE]
                               ELSE items[i]]
  /\ marked' = marked + Cardinality(Unread(u))
  /\ UNCHANGED <<socket, connectedUsers, create, mark, restarts>>

Next ==
  \/ \E s \in Sockets, u \in Users : Connect(s, u)
  \/ \E s \in Sockets : Refuse(s) \/ Disconnect(s) \/ List(s)
  \/ \E i \in Items, u \in Users : Store(i, u)
  \/ \E i \in Items : Send(i)
  \/ \E m \in Marks : MarkAsRead(m)
  \/ \E m \in Marks, u \in Users, i \in Items : FindItem(m, u, i)
  \/ \E u \in Users : MarkAllAsRead(u)
  \/ Restart

Spec == Init /\ [][Next]_vars

-----------------------------------------------------------------------------
\* Sockets, the map, rows and handlers keep their types, and a notification
\* about to be marked exists.
TypeOK ==
  /\ socket \in [Sockets -> SocketState]
  /\ \E known \in SUBSET Users : connectedUsers \in [known -> SUBSET Sockets]
  /\ items \in [Items -> Item \cup {NoItem}]
  /\ create \in [Items -> {"none", "stored", "sent", "cut"}]
  /\ mark \in [Marks -> Items \cup {NoItem}]
  /\ \A m \in Marks : mark[m] # NoItem => items[mark[m]] # NoItem
  /\ marked \in Nat /\ restarts \in 0 .. MaxRestarts

\* connectedUsers, isUserOnline(), getOnlineUserCount(): a user is in the map
\* exactly while one of its sockets is open, and with all of them, whatever
\* order they come and go in.
OnlineIffConnected ==
  /\ DOMAIN connectedUsers = {u \in Users : SocketsOf(u) # {}}
  /\ \A u \in DOMAIN connectedUsers : connectedUsers[u] = SocketsOf(u)

\* create() stores before it sends: a client that asked for its list after it
\* connected, all pages of it, and is connected still, has seen every
\* notification of its user whose create() finished, or was cut short by a
\* restart before it connected.  (findAllForUser() answers one page: the client
\* that is promised this walks them.)
NothingMissed ==
  \A s \in Sockets : socket[s].step = "listed" =>
    \A i \in Of(socket[s].user) : create[i] # "stored" => i \in socket[s].seen

\* markAllAsRead() answers with the rows it changed: calls that overlap never
\* count one notification twice.
CountedOnce ==
  marked <= Cardinality({i \in Items : items[i] # NoItem /\ items[i].isRead})
=============================================================================
