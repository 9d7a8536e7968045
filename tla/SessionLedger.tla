---------------------------- MODULE SessionLedger ----------------------------
(***************************************************************************)
(* What the sessions of a user promise, without passwords, tokens or rows. *)
(* A handler proves a password or presents an open session, and later, at  *)
(* most once, opens a session on the strength of what it read then, closing *)
(* the session it presented.  Nothing is looked at again in between: the    *)
(* password may be another by then, and the session presented closed.       *)
(***************************************************************************)
EXTENDS FiniteSetTheorems, TLAPS

CONSTANTS Users, SessionIds, Handlers, None

LedgerAssumption == None \notin SessionIds /\ IsFiniteSet(Handlers)

VARIABLES
  ledger,  \* SessionIds -> the session
  epoch,   \* Users -> how often all sessions of the user were closed
  grant    \* Handlers -> what the handler may open a session on

ledgerVars == <<ledger, epoch, grant>>

\* A session: the epoch in which its password was proved, the session of its
\* line that was opened over a closing of all (if any), the one it replaced.
Entry == [user : Users, proved : Nat, root : SessionIds \cup {None},
          from : SessionIds \cup {None}, state : {"open", "closed"}]
Unopened == [user |-> None, proved |-> 0, root |-> None, from |-> None,
             state |-> "unopened"]
\* A handler's reading: the user's epoch then, and the session presented.
Grant == [kind : {"login", "refresh"}, user : Users, seen : Nat,
          from : SessionIds \cup {None}]
NoGrant == [kind |-> "none", user |-> None, seen |-> 0, from |-> None]

Init == /\ ledger = [s \in SessionIds |-> Unopened]
        /\ epoch = [u \in Users |-> 0]
        /\ grant = [h \in Handlers |-> NoGrant]

Opened == {s \in SessionIds : ledger[s].state # "unopened"}
Granted(h, g) == /\ grant[h] = NoGrant /\ grant' = [grant EXCEPT ![h] = g]
                 /\ UNCHANGED <<ledger, epoch>>

Prove(h, u) ==
  Granted(h, [kind |-> "login", user |-> u, seen |-> epoch[u], from |-> None])

Present(h, s) ==
  /\ ledger[s].state = "open"
  /\ Granted(h, [kind |-> "refresh", user |-> ledger[s].user,
                 seen |-> epoch[ledger[s].user], from |-> s])

Drop(h) == grant' = [grant EXCEPT ![h] = NoGrant] /\ UNCHANGED <<ledger, epoch>>

\* The epoch the password behind a grant was proved in, and the line of the
\* session s opened on it: s begins one if all were closed since the reading.
Proved(g) == IF g.kind = "login" THEN g.seen ELSE ledger[g.from].proved
Root(g, s) == IF g.seen < epoch[g.user] THEN s
              ELSE IF g.kind = "login" THEN None ELSE ledger[g.from].root

Closed(i) == [ledger[i] EXCEPT !.state = "closed"]
Open(h, s) ==
  LET g == grant[h] IN
  /\ g # NoGrant /\ s \notin Opened
  /\ ledger' = [i \in SessionIds |->
       IF i = s THEN [user |-> g.user, proved |-> Proved(g), root |-> Root(g, s),
                      from |-> g.from, state |-> "open"]
       ELSE IF i = g.from THEN Closed(i) ELSE ledger[i]]
  /\ grant' = [grant EXCEPT ![h] = NoGrant] /\ UNCHANGED epoch

CloseSome(S) ==
  ledger' = [i \in SessionIds |-> IF i \in S THEN Closed(i) ELSE ledger[i]]
Close == \E S \in SUBSET Opened : CloseSome(S) /\ UNCHANGED <<epoch, grant>>
\* Whoever had read before keeps its grant.
CloseAll(u) ==
  /\ CloseSome({s \in Opened : ledger[s].user = u})
  /\ epoch' = [epoch EXCEPT ![u] = @ + 1] /\ UNCHANGED grant

Next == \/ \E h \in Handlers :
             \/ Drop(h)
             \/ \E u \in Users : Prove(h, u)
             \/ \E s \in SessionIds : Present(h, s) \/ Open(h, s)
        \/ \E u \in Users : CloseAll(u)
        \/ Close

Spec == Init /\ [][Next]_ledgerVars

-----------------------------------------------------------------------------
\* The sessions that outlived a closing of all: open, on an older password.
Survivors(u) == {s \in SessionIds : /\ ledger[s].state = "open"
                                    /\ ledger[s].user = u
                                    /\ ledger[s].proved < epoch[u]}
\* Each is of a line that a handler opened over the closing, on what it had
\* read before; and there are no more such lines than handlers.
SurvivorsBounded ==
  \A u \in Users :
    /\ \A s \in Survivors(u) : ledger[s].root # None
    /\ Cardinality({ledger[s].root : s \in Survivors(u)}) <= Cardinality(Handlers)

Replacing(s) == {i \in Opened : ledger[i].from = s}
\* A session that was replaced is closed, and it was replaced at most once by
\* each handler that had presented it while it was open.
RefreshesBounded ==
  \A s \in SessionIds :
    /\ Replacing(s) # {} => ledger[s].state = "closed"
    /\ Cardinality(Replacing(s)) <= Cardinality(Handlers)

\* A session that was closed stays closed, with the user it was opened for.
ClosedForGood ==
  [][\A s \in Opened : /\ ledger'[s].user = ledger[s].user
                       /\ ledger'[s].state = "open" => ledger[s].state = "open"
                       /\ ledger'[s].state # "unopened"]_ledgerVars

-----------------------------------------------------------------------------
(* Types, and what a grant and a session know of each other *)

Typed == /\ ledger \in [SessionIds -> Entry \cup {Unopened}]
         /\ epoch \in [Users -> Nat]
         /\ grant \in [Handlers -> Grant \cup {NoGrant}]

\* A grant was read in this epoch or an earlier one, from the session it names.
GrantsKnown ==
  \A h \in Handlers :
    LET g == grant[h] IN
    g # NoGrant => /\ g.seen <= epoch[g.user]
                   /\ g.kind = "login" => g.from = None
                   /\ g.kind = "refresh" => /\ g.from \in Opened
                                            /\ ledger[g.from].user = g.user
\* What is opened on an old password has a root: open sessions, and grants
\* read since the last closing from a session that was open then.
Rooted(s) == ledger[s].proved < epoch[ledger[s].user] => ledger[s].root # None
RootsKnown ==
  /\ \A s \in SessionIds : ledger[s].state = "open" => Rooted(s)
  /\ \A h \in Handlers :
       grant[h].kind = "refresh" /\ grant[h].seen = epoch[grant[h].user]
         => Rooted(grant[h].from)

LEMMA ClosedType ==
  ASSUME Typed, NEW s \in Opened
  PROVE  /\ ledger[s] \in Entry /\ Closed(s) \in Entry
         /\ Closed(s).user = ledger[s].user
         /\ Closed(s).proved = ledger[s].proved
         /\ Closed(s).root = ledger[s].root
         /\ Closed(s).from = ledger[s].from
         /\ Closed(s).state = "closed"
  BY DEF Typed, Opened, Unopened, Entry, Closed

\* Closing touches nothing but the state of sessions that were opened.
LEMMA CloseSomeEffect ==
  ASSUME Typed, NEW S \in SUBSET Opened, CloseSome(S)
  PROVE  /\ ledger' \in [SessionIds -> Entry \cup {Unopened}]
         /\ Opened' = Opened
         /\ \A s \in SessionIds :
              /\ ledger'[s].user = ledger[s].user
              /\ ledger'[s].proved = ledger[s].proved
              /\ ledger'[s].root = ledger[s].root
              /\ ledger'[s].from = ledger[s].from
              /\ s \notin S => ledger'[s] = ledger[s]
              /\ s \in S => ledger'[s].state = "closed"
<1>1. ASSUME NEW s \in SessionIds
      PROVE  /\ ledger'[s] \in Entry \cup {Unopened}
             /\ ledger'[s].state # "unopened" <=> ledger[s].state # "unopened"
             /\ ledger'[s].user = ledger[s].user
             /\ ledger'[s].proved = ledger[s].proved
             /\ ledger'[s].root = ledger[s].root
             /\ ledger'[s].from = ledger[s].from
             /\ s \notin S => ledger'[s] = ledger[s]
             /\ s \in S => ledger'[s].state = "closed"
  <2>1. CASE s \in S
    <3>1. ledger'[s] = Closed(s) /\ s \in Opened
      BY <2>1 DEF CloseSome
    <3> QED
      BY <2>1, <3>1, ClosedType DEF Opened
  <2>2. CASE s \notin S
    BY <2>2 DEF CloseSome, Typed
  <2> QED
    BY <2>1, <2>2
<1> QED
  BY <1>1 DEF CloseSome, Opened

\* The session that a handler opens, and what becomes of the others.
OpenResult(h, s) ==
  /\ grant[h] \in Grant /\ s \notin Opened /\ s # grant[h].from
  /\ ledger' \in [SessionIds -> Entry \cup {Unopened}]
  /\ Opened' = Opened \cup {s}
  /\ ledger'[s] = [user |-> grant[h].user, proved |-> Proved(grant[h]),
                   root |-> Root(grant[h], s), from |-> grant[h].from,
                   state |-> "open"]
  /\ \A i \in SessionIds \ {s} :
       /\ ledger'[i].user = ledger[i].user
       /\ ledger'[i].proved = ledger[i].proved
       /\ ledger'[i].root = ledger[i].root
       /\ ledger'[i].from = ledger[i].from
       /\ i # grant[h].from => ledger'[i] = ledger[i]
       /\ i = grant[h].from => ledger'[i].state = "closed"
  /\ grant' \in [Handlers -> Grant \cup {NoGrant}]
  /\ grant'[h] = NoGrant /\ NoGrant.kind = "none"
  /\ \A k \in Handlers \ {h} : grant'[k] = grant[k]
  /\ UNCHANGED epoch
LEMMA OpenEffect ==
  ASSUME None \notin SessionIds, Typed, GrantsKnown,
         NEW h \in Handlers, NEW s \in SessionIds, Open(h, s)
  PROVE  OpenResult(h, s)
<1> DEFINE g == grant[h]
           opened == [user |-> g.user, proved |-> Proved(g), root |-> Root(g, s),
                   from |-> g.from, state |-> "open"]
<1>1. g \in Grant /\ s \notin Opened
  BY DEF Open, Typed
<1>2. g.from \in SessionIds => g.from \in Opened
  BY <1>1 DEF GrantsKnown, Open, Grant
<1>3. ledger' = [i \in SessionIds |-> IF i = s THEN opened
                                      ELSE IF i = g.from THEN Closed(i) ELSE ledger[i]]
  BY DEF Open
<1>4. opened \in Entry
  <2>1. Proved(g) \in Nat /\ Root(g, s) \in SessionIds \cup {None}
    <3>1. CASE g.kind = "login"
      BY <1>1, <3>1 DEF Proved, Root, Grant
    <3>2. CASE g.kind = "refresh"
      <4>1. g.from \in Opened
        BY <1>1, <3>2 DEF GrantsKnown, Open
      <4>2. ledger[g.from] \in Entry
        BY <4>1, ClosedType
      <4> QED
        BY <1>1, <3>2, <4>2 DEF Proved, Root, Grant, Entry
    <3> QED
      BY <1>1, <3>1, <3>2 DEF Grant
  <2> QED
    BY <1>1, <2>1 DEF Entry, Grant
<1>5. ledger'[s] = opened
  BY <1>3
<1>6. ASSUME NEW i \in SessionIds \ {s}
      PROVE  /\ ledger'[i] \in Entry \cup {Unopened}
             /\ ledger'[i].user = ledger[i].user
             /\ ledger'[i].proved = ledger[i].proved
             /\ ledger'[i].root = ledger[i].root
             /\ ledger'[i].from = ledger[i].from
             /\ ledger'[i].state # "unopened" <=> ledger[i].state # "unopened"
             /\ i # g.from => ledger'[i] = ledger[i]
             /\ i = g.from => ledger'[i].state = "closed"
  <2>1. CASE i = g.from
    <3>1. ledger'[i] = Closed(i) /\ i \in Opened
      BY <1>2, <1>3, <2>1
    <3> QED
      BY <2>1, <3>1, ClosedType DEF Opened
  <2>2. CASE i # g.from
    BY <1>3, <2>2 DEF Typed
  <2> QED
    BY <2>1, <2>2
<1>7. ledger' \in [SessionIds -> Entry \cup {Unopened}]
  <2> HIDE DEF opened
  <2>1. \A i \in SessionIds : ledger'[i] \in Entry \cup {Unopened}
    BY <1>4, <1>5, <1>6
  <2> QED
    BY <1>3, <2>1
<1>8. Opened' = Opened \cup {s}
  BY <1>5, <1>6 DEF Opened
<1>9. s # g.from
  BY <1>1, <1>2
<1>10. /\ grant' \in [Handlers -> Grant \cup {NoGrant}]
       /\ grant'[h] = NoGrant /\ NoGrant.kind = "none"
       /\ \A k \in Handlers \ {h} : grant'[k] = grant[k]
       /\ UNCHANGED epoch
  BY DEF Open, Typed, NoGrant
<1> HIDE DEF opened
<1> QED
  BY <1>1, <1>5, <1>6, <1>7, <1>8, <1>9, <1>10 DEF opened, OpenResult

LEMMA GrantedEffect ==
  ASSUME Typed, NEW h \in Handlers, NEW g \in Grant, Granted(h, g)
  PROVE  /\ grant' \in [Handlers -> Grant \cup {NoGrant}]
         /\ grant[h] = NoGrant /\ grant'[h] = g
         /\ \A k \in Handlers \ {h} : grant'[k] = grant[k]
         /\ UNCHANGED <<ledger, epoch>>
  BY DEF Granted, Typed

\* What a handler reads is known, and what it then holds is rooted.
LEMMA ReadingEffect ==
  ASSUME Typed, RootsKnown, NEW h \in Handlers,
         (\E u \in Users : Prove(h, u)) \/ (\E s \in SessionIds : Present(h, s))
  PROVE  \E g \in Grant :
           /\ Granted(h, g) /\ g.seen = epoch[g.user]
           /\ g.kind = "login" => g.from = None
           /\ g.kind = "refresh" => /\ ledger[g.from].state = "open"
                                    /\ g.from \in SessionIds
                                    /\ ledger[g.from].user = g.user
                                    /\ Rooted(g.from)
<1>1. ASSUME NEW u \in Users, Prove(h, u)
      PROVE  \E g \in Grant : /\ Granted(h, g) /\ g.seen = epoch[g.user]
                              /\ g.kind = "login" /\ g.from = None
  <2> DEFINE g == [kind |-> "login", user |-> u, seen |-> epoch[u], from |-> None]
  <2>1. g \in Grant /\ Granted(h, g)
    BY <1>1 DEF Prove, Grant, Typed
  <2> QED
    BY <2>1
<1>2. ASSUME NEW s \in SessionIds, Present(h, s)
      PROVE  \E g \in Grant : /\ Granted(h, g) /\ g.seen = epoch[g.user]
                              /\ g.kind = "refresh" /\ g.from = s
                              /\ ledger[s].state = "open"
                              /\ ledger[s].user = g.user /\ Rooted(s)
  <2> DEFINE g == [kind |-> "refresh", user |-> ledger[s].user,
                   seen |-> epoch[ledger[s].user], from |-> s]
  <2>1. ledger[s].state = "open" /\ Granted(h, g)
    BY <1>2 DEF Present
  <2>2. ledger[s] \in Entry
    BY <2>1 DEF Typed, Unopened
  <2>3. g \in Grant
    BY <2>2 DEF Grant, Entry, Typed
  <2> QED
    BY <2>1, <2>3 DEF RootsKnown
<1> QED
  BY <1>1, <1>2

Known == Typed /\ GrantsKnown /\ RootsKnown

LEMMA ReadingKeepsKnown ==
  ASSUME Known, NEW h \in Handlers,
         (\E u \in Users : Prove(h, u)) \/ (\E s \in SessionIds : Present(h, s))
  PROVE  Known'
<1>1. PICK g \in Grant :
        /\ Granted(h, g) /\ g.seen = epoch[g.user]
        /\ g.kind = "login" => g.from = None
        /\ g.kind = "refresh" => /\ ledger[g.from].state = "open"
                                 /\ g.from \in SessionIds
                                 /\ ledger[g.from].user = g.user
                                 /\ Rooted(g.from)
  BY ReadingEffect DEF Known
<1>2. /\ grant' \in [Handlers -> Grant \cup {NoGrant}] /\ grant'[h] = g
      /\ \A k \in Handlers \ {h} : grant'[k] = grant[k]
      /\ UNCHANGED <<ledger, epoch>>
  BY <1>1, GrantedEffect DEF Known
<1>3. Typed'
  BY <1>2 DEF Known, Typed
<1>4. GrantsKnown'
  <2>1. g.seen <= epoch[g.user]
    BY <1>1 DEF Grant, Known, Typed
  <2> QED
    BY <1>1, <1>2, <2>1 DEF Known, GrantsKnown, Opened
<1>5. RootsKnown'
  BY <1>1, <1>2 DEF Known, RootsKnown, Rooted
<1> QED
  BY <1>3, <1>4, <1>5 DEF Known

LEMMA DropEffect ==
  ASSUME Typed, NEW h \in Handlers, Drop(h)
  PROVE  /\ grant' \in [Handlers -> Grant \cup {NoGrant}]
         /\ grant'[h] = NoGrant /\ NoGrant.kind = "none"
         /\ \A k \in Handlers \ {h} : grant'[k] = grant[k]
         /\ UNCHANGED <<ledger, epoch>>
  BY DEF Drop, Typed, NoGrant

LEMMA DropKeepsKnown ==
  ASSUME Known, NEW h \in Handlers, Drop(h)
  PROVE  Known'
<1>1. Typed'
  BY DropEffect DEF Known, Typed
<1>2. GrantsKnown'
  BY DropEffect DEF Known, GrantsKnown, Opened
<1>3. RootsKnown'
  BY DropEffect DEF Known, RootsKnown, Rooted
<1> QED
  BY <1>1, <1>2, <1>3 DEF Known

LEMMA OpenKeepsKnown ==
  ASSUME None \notin SessionIds, Known, NEW h \in Handlers, NEW s \in SessionIds,
         Open(h, s)
  PROVE  Known'
<1> DEFINE g == grant[h]
<1> USE DEF Known
<1>0. OpenResult(h, s)
  BY OpenEffect
<1>1. UNCHANGED epoch /\ NoGrant.kind = "none"
  BY <1>0 DEF OpenResult
<1>2. grant'[h] = NoGrant /\ \A k \in Handlers \ {h} : grant'[k] = grant[k]
  BY <1>0 DEF OpenResult
<1>3. Typed'
  BY <1>0 DEF OpenResult, Typed
<1>4. GrantsKnown'
  <2> SUFFICES ASSUME NEW k \in Handlers, grant'[k] # NoGrant
               PROVE  /\ grant'[k].seen <= epoch[grant'[k].user]
                      /\ grant'[k].kind = "login" => grant'[k].from = None
                      /\ grant'[k].kind = "refresh" =>
                           /\ grant'[k].from \in Opened'
                           /\ ledger'[grant'[k].from].user = grant'[k].user
    BY <1>1 DEF GrantsKnown
  <2>1. k # h /\ grant'[k] = grant[k]
    BY <1>2
  <2>2. /\ grant[k].seen <= epoch[grant[k].user]
        /\ grant[k].kind = "login" => grant[k].from = None
        /\ grant[k].kind = "refresh" => /\ grant[k].from \in Opened
                                        /\ ledger[grant[k].from].user = grant[k].user
    BY <2>1 DEF GrantsKnown
  <2>3. \A i \in Opened : i \in Opened' /\ ledger'[i].user = ledger[i].user
    BY <1>0 DEF OpenResult, Opened
  <2> QED
    BY <2>1, <2>2, <2>3
<1>5. \A i \in Opened : Rooted(i) => Rooted(i)'
  BY <1>1, <1>0 DEF OpenResult, Opened, Rooted
<1>6. Rooted(s)'
  <2>1. /\ ledger'[s].user = g.user /\ ledger'[s].proved = Proved(g)
        /\ ledger'[s].root = Root(g, s) /\ g \in Grant
    BY <1>0 DEF OpenResult
  <2>2. g.seen <= epoch[g.user] /\ epoch[g.user] \in Nat /\ g.seen \in Nat
    BY <2>1 DEF GrantsKnown, Open, Typed, Grant
  <2>3. CASE g.seen < epoch[g.user]
    BY <2>1, <2>3 DEF Root, Rooted
  <2>4. CASE g.seen = epoch[g.user] /\ g.kind = "login"
    BY <1>1, <2>1, <2>2, <2>4 DEF Proved, Rooted
  <2>5. CASE g.seen = epoch[g.user] /\ g.kind = "refresh"
    <3>1. Rooted(g.from) /\ ledger[g.from].user = g.user
      BY <2>1, <2>5 DEF RootsKnown, GrantsKnown, Open
    <3>2. Proved(g) = ledger[g.from].proved /\ Root(g, s) = ledger[g.from].root
      BY <2>2, <2>5 DEF Proved, Root
    <3> QED
      BY <1>1, <2>1, <3>1, <3>2 DEF Rooted
  <2> QED
    BY <2>1, <2>2, <2>3, <2>4, <2>5 DEF Grant
<1>7. RootsKnown'
  <2>1. ASSUME NEW i \in SessionIds, ledger'[i].state = "open" PROVE Rooted(i)'
    <3>1. CASE i = s
      BY <1>6, <3>1
    <3>2. CASE i # s
      <4>1. ledger'[i] = ledger[i]
        BY <2>1, <3>2, <1>0 DEF OpenResult
      <4>2. i \in Opened /\ Rooted(i)
        BY <2>1, <4>1 DEF Opened, RootsKnown
      <4> QED
        BY <1>5, <4>2
    <3> QED
      BY <3>1, <3>2
  <2>2. ASSUME NEW k \in Handlers, grant'[k].kind = "refresh",
               grant'[k].seen = epoch'[grant'[k].user]
        PROVE  \E i \in Opened : i = grant'[k].from /\ Rooted(i)'
    <3>1. grant'[k] = grant[k] /\ k # h
      BY <1>1, <1>2, <2>2
    <3>2. grant[k].from \in Opened /\ Rooted(grant[k].from)
      BY <1>1, <2>2, <3>1 DEF RootsKnown, GrantsKnown, NoGrant
    <3> QED
      BY <1>5, <3>1, <3>2
  <2> QED
    BY <2>1, <2>2 DEF RootsKnown, Rooted
<1> QED
  BY <1>3, <1>4, <1>7

LEMMA CloseKeepsKnown ==
  ASSUME Known, NEW S \in SUBSET Opened, CloseSome(S), UNCHANGED <<epoch, grant>>
  PROVE  Known'
<1> USE DEF Known
<1>1. Typed'
  BY CloseSomeEffect DEF Typed
<1>2. GrantsKnown'
  BY CloseSomeEffect DEF GrantsKnown, Opened
<1>3. \A i \in Opened : Rooted(i) => Rooted(i)'
  BY CloseSomeEffect DEF Opened, Rooted
<1>4. RootsKnown'
  <2>1. ASSUME NEW i \in SessionIds, ledger'[i].state = "open" PROVE Rooted(i)'
    <3>1. ledger'[i] = ledger[i]
      BY <2>1, CloseSomeEffect
    <3> QED
      BY <1>3, <2>1, <3>1 DEF RootsKnown, Opened
  <2>2. ASSUME NEW k \in Handlers, grant[k].kind = "refresh",
               grant[k].seen = epoch[grant[k].user]
        PROVE  \E i \in Opened : i = grant[k].from /\ Rooted(i)'
    BY <1>3, <2>2 DEF RootsKnown, GrantsKnown, NoGrant
  <2> QED
    BY <2>1, <2>2 DEF RootsKnown, Rooted
<1> QED
  BY <1>1, <1>2, <1>4

\* After a closing of all no session of the user is open and no grant of the
\* user's is from after it.
LEMMA CloseAllEffect ==
  ASSUME Known, NEW u \in Users, CloseAll(u)
  PROVE  /\ epoch' \in [Users -> Nat] /\ epoch'[u] = epoch[u] + 1
         /\ \A w \in Users \ {u} : epoch'[w] = epoch[w]
         /\ \A s \in SessionIds : ledger'[s].state = "open" =>
              ledger'[s] = ledger[s] /\ ledger[s].user # u
         /\ \A h \in Handlers : grant[h] # NoGrant /\ grant[h].user = u
              => grant[h].seen < epoch'[u]
<1>1. epoch' \in [Users -> Nat] /\ epoch'[u] = epoch[u] + 1
      /\ \A w \in Users \ {u} : epoch'[w] = epoch[w]
  BY DEF CloseAll, Known, Typed
<1>2. PICK S \in SUBSET Opened : S = {s \in Opened : ledger[s].user = u}
  OBVIOUS
<1>3. ASSUME NEW s \in SessionIds, ledger'[s].state = "open"
      PROVE  ledger'[s] = ledger[s] /\ ledger[s].user # u
  <2>1. CloseSome(S)
    BY <1>2 DEF CloseAll
  <2>2. s \notin S /\ ledger'[s] = ledger[s]
    BY <1>3, <2>1, CloseSomeEffect DEF Known
  <2>3. s \in Opened
    BY <1>3, <2>2 DEF Opened
  <2> QED
    BY <1>2, <2>2, <2>3
<1>4. ASSUME NEW h \in Handlers, grant[h] # NoGrant, grant[h].user = u
      PROVE  grant[h].seen < epoch'[u]
  <2>1. grant[h] \in Grant /\ grant[h].seen <= epoch[u]
    BY <1>4 DEF Known, Typed, GrantsKnown
  <2> QED
    BY <1>1, <2>1 DEF Grant, Known, Typed
<1> QED
  BY <1>1, <1>3, <1>4

LEMMA CloseAllKeepsKnown ==
  ASSUME Known, NEW u \in Users, CloseAll(u)
  PROVE  Known'
<1> USE DEF Known
<1>1. PICK S \in SUBSET Opened : CloseSome(S)
  BY DEF CloseAll
<1>2. UNCHANGED grant
  BY DEF CloseAll
<1>3. Typed'
  BY <1>1, <1>2, CloseSomeEffect, CloseAllEffect DEF Typed
<1>4. GrantsKnown'
  <2> SUFFICES ASSUME NEW k \in Handlers, grant[k] # NoGrant
               PROVE  /\ grant[k].seen <= epoch'[grant[k].user]
                      /\ grant[k].kind = "login" => grant[k].from = None
                      /\ grant[k].kind = "refresh" =>
                           /\ grant[k].from \in Opened'
                           /\ ledger'[grant[k].from].user = grant[k].user
    BY <1>2 DEF GrantsKnown
  <2>1. /\ grant[k] \in Grant /\ grant[k].seen <= epoch[grant[k].user]
        /\ grant[k].kind = "login" => grant[k].from = None
        /\ grant[k].kind = "refresh" => /\ grant[k].from \in Opened
                                        /\ ledger[grant[k].from].user = grant[k].user
    BY DEF Typed, GrantsKnown
  <2>2. grant[k].seen <= epoch'[grant[k].user]
    BY <2>1, CloseAllEffect DEF Grant, Typed
  <2>3. \A i \in Opened : i \in Opened' /\ ledger'[i].user = ledger[i].user
    BY <1>1, CloseSomeEffect DEF Opened
  <2> QED
    BY <2>1, <2>2, <2>3
<1>5. RootsKnown'
  <2>1. ASSUME NEW i \in SessionIds, ledger'[i].state = "open" PROVE Rooted(i)'
    <3>1. ledger'[i] = ledger[i] /\ ledger[i].user # u /\ ledger[i] \in Entry
      BY <2>1, CloseAllEffect DEF Typed, Unopened
    <3>2. epoch'[ledger[i].user] = epoch[ledger[i].user]
      BY <3>1, CloseAllEffect DEF Entry
    <3> QED
      BY <2>1, <3>1, <3>2 DEF RootsKnown, Rooted
  <2>2. ASSUME NEW k \in Handlers, grant[k].kind = "refresh",
               grant[k].seen = epoch'[grant[k].user]
        PROVE  \E i \in Opened : i = grant[k].from /\ Rooted(i)'
    <3>1. grant[k] \in Grant /\ grant[k] # NoGrant
      BY <2>2 DEF Typed, NoGrant
    <3>2. grant[k].user # u
      BY <2>2, <3>1, CloseAllEffect DEF Grant
    <3>3. epoch'[grant[k].user] = epoch[grant[k].user]
      BY <3>1, <3>2, CloseAllEffect DEF Grant
    <3>4. /\ grant[k].from \in Opened /\ Rooted(grant[k].from)
          /\ ledger[grant[k].from].user = grant[k].user
      BY <2>2, <3>1, <3>3 DEF RootsKnown, GrantsKnown
    <3>5. PICK i \in Opened : i = grant[k].from
      BY <3>4
    <3>6. /\ ledger'[i].user = ledger[i].user /\ ledger'[i].root = ledger[i].root
          /\ ledger'[i].proved = ledger[i].proved
      BY <1>1, CloseSomeEffect DEF Opened
    <3> QED
      BY <3>3, <3>4, <3>5, <3>6 DEF Rooted
  <2> QED
    BY <1>2, <2>1, <2>2 DEF RootsKnown, Rooted
<1> QED
  BY <1>3, <1>4, <1>5

LEMMA InitIsKnown == Init => Known
  BY DEF Init, Known, Typed, GrantsKnown, RootsKnown, Rooted, Unopened, NoGrant

LEMMA StepKeepsKnown ==
  ASSUME None \notin SessionIds, Known, [Next]_ledgerVars
  PROVE  Known'
<1>1. ASSUME NEW h \in Handlers, Drop(h) PROVE Known'
  BY <1>1, DropKeepsKnown
<1>2. ASSUME NEW h \in Handlers,
             (\E u \in Users : Prove(h, u)) \/ (\E s \in SessionIds : Present(h, s))
      PROVE  Known'
  BY <1>2, ReadingKeepsKnown
<1>3. ASSUME NEW h \in Handlers, NEW s \in SessionIds, Open(h, s) PROVE Known'
  BY <1>3, OpenKeepsKnown
<1>4. ASSUME NEW u \in Users, CloseAll(u) PROVE Known'
  BY <1>4, CloseAllKeepsKnown
<1>5. CASE Close
  BY <1>5, CloseKeepsKnown DEF Close
<1>6. CASE UNCHANGED ledgerVars
  BY <1>6 DEF ledgerVars, Known, Typed, GrantsKnown, RootsKnown, Rooted, Opened
<1> QED
  BY <1>1, <1>2, <1>3, <1>4, <1>5, <1>6 DEF Next

-----------------------------------------------------------------------------
(* Counting: what is opened was granted, and a grant is used once *)

\* What is there and what may still come stay within the handlers.
Within(L, C) == IsFiniteSet(L) /\ Cardinality(L) + Cardinality(C) <= Cardinality(Handlers)

LEMMA WithinShrinks ==
  ASSUME IsFiniteSet(Handlers), NEW L, NEW C \in SUBSET Handlers, Within(L, C),
         NEW M \in SUBSET L, NEW D \in SUBSET C
  PROVE  Within(M, D)
<1>1. IsFiniteSet(C)
  BY FS_Subset
<1>2. IsFiniteSet(M) /\ Cardinality(M) <= Cardinality(L)
  BY FS_Subset DEF Within
<1>3. IsFiniteSet(D) /\ Cardinality(D) <= Cardinality(C)
  BY <1>1, FS_Subset
<1>4. /\ Cardinality(M) \in Nat /\ Cardinality(L) \in Nat /\ Cardinality(C) \in Nat
      /\ Cardinality(D) \in Nat /\ Cardinality(Handlers) \in Nat
  BY <1>1, <1>2, <1>3, FS_CardinalityType DEF Within
<1> QED
  BY <1>2, <1>3, <1>4 DEF Within

\* One that might still come is there now.
LEMMA WithinMoves ==
  ASSUME IsFiniteSet(Handlers), NEW L, NEW C \in SUBSET Handlers, Within(L, C),
         NEW x, NEW h \in C, NEW M \in SUBSET (L \cup {x}), NEW D \in SUBSET (C \ {h})
  PROVE  Within(M, D)
<1>1. IsFiniteSet(C)
  BY FS_Subset
<1>2. IsFiniteSet(L \cup {x}) /\ Cardinality(L \cup {x}) <= Cardinality(L) + 1
  <2>1. IsFiniteSet(L) /\ Cardinality(L) \in Nat
    BY FS_CardinalityType DEF Within
  <2>2. /\ IsFiniteSet(L \cup {x})
        /\ Cardinality(L \cup {x}) = IF x \in L THEN Cardinality(L)
                                     ELSE Cardinality(L) + 1
    BY <2>1, FS_AddElement
  <2> QED
    BY <2>1, <2>2
<1>3. /\ IsFiniteSet(C \ {h}) /\ (C \ {h}) \in SUBSET Handlers
      /\ Cardinality(C \ {h}) = Cardinality(C) - 1
  BY <1>1, FS_RemoveElement
<1>4. /\ Cardinality(L) \in Nat /\ Cardinality(C) \in Nat
      /\ Cardinality(L \cup {x}) \in Nat /\ Cardinality(Handlers) \in Nat
  BY <1>1, <1>2, FS_CardinalityType DEF Within
<1>5. Within(L \cup {x}, C \ {h})
  BY <1>2, <1>3, <1>4 DEF Within
<1> QED
  BY <1>3, <1>5, WithinShrinks

\* The lines over a closing, also those of sessions that were presented since;
\* and the grants that may still begin one.
Presented(u) == {h \in Handlers : /\ grant[h].kind = "refresh" /\ grant[h].user = u
                                  /\ grant[h].seen = epoch[u]
                                  /\ ledger[grant[h].from].proved < epoch[u]}
Lines(u) == {ledger[s].root : s \in Survivors(u)}
              \cup {ledger[grant[h].from].root : h \in Presented(u)}
Crossing(u) == {h \in Handlers : /\ grant[h] # NoGrant /\ grant[h].user = u
                                 /\ grant[h].seen < epoch[u]}
LinesWithin == \A u \in Users : Within(Lines(u), Crossing(u))

\* The sessions that replace s, and the grants that may still open one.
Holding(s) == {h \in Handlers : grant[h].kind = "refresh" /\ grant[h].from = s}
ReplacedWithin ==
  \A s \in SessionIds : /\ Within(Replacing(s), Holding(s))
                        /\ Replacing(s) # {} => ledger[s].state = "closed"

Counted == Known /\ LinesWithin /\ ReplacedWithin

LEMMA ReadingKeepsLines ==
  ASSUME IsFiniteSet(Handlers), Counted, NEW h \in Handlers,
         (\E u \in Users : Prove(h, u)) \/ (\E s \in SessionIds : Present(h, s))
  PROVE  LinesWithin'
<1>1. PICK g \in Grant :
        /\ Granted(h, g) /\ g.seen = epoch[g.user]
        /\ g.kind = "login" => g.from = None
        /\ g.kind = "refresh" => /\ ledger[g.from].state = "open"
                                 /\ g.from \in SessionIds
                                 /\ ledger[g.from].user = g.user
                                 /\ Rooted(g.from)
  BY ReadingEffect DEF Counted, Known
<1>2. /\ grant[h] = NoGrant /\ grant'[h] = g
      /\ \A k \in Handlers \ {h} : grant'[k] = grant[k]
      /\ UNCHANGED <<ledger, epoch>>
  BY <1>1, GrantedEffect DEF Counted, Known
<1> SUFFICES ASSUME NEW u \in Users PROVE Within(Lines(u), Crossing(u))'
  BY DEF LinesWithin
<1>3. Survivors(u)' = Survivors(u)
  BY <1>2 DEF Survivors
<1>4. Crossing(u)' \in SUBSET Crossing(u)
  BY <1>1, <1>2 DEF Crossing, Grant, Counted, Known, Typed
<1>5. ASSUME NEW k \in Presented(u)'
      PROVE  ledger[grant'[k].from].root \in Lines(u)
  <2>1. CASE k = h
    <3>1. g.from \in Survivors(u)
      BY <1>1, <1>2, <1>5, <2>1 DEF Presented, Survivors
    <3> QED
      BY <1>2, <2>1, <3>1 DEF Lines
  <2>2. CASE k # h
    BY <1>2, <1>5, <2>2 DEF Presented, Lines
  <2> QED
    BY <2>1, <2>2
<1>6. Lines(u)' \in SUBSET Lines(u)
  BY <1>2, <1>3, <1>5 DEF Lines
<1>7. Within(Lines(u)', Crossing(u)')
  BY <1>4, <1>6, WithinShrinks DEF Counted, LinesWithin, Crossing
<1> QED
  BY <1>7 DEF Within

LEMMA DropKeepsLines ==
  ASSUME IsFiniteSet(Handlers), Counted, NEW h \in Handlers, Drop(h)
  PROVE  LinesWithin'
<1> SUFFICES ASSUME NEW u \in Users PROVE Within(Lines(u), Crossing(u))'
  BY DEF LinesWithin
<1>1. /\ grant'[h] = NoGrant /\ NoGrant.kind = "none"
      /\ \A k \in Handlers \ {h} : grant'[k] = grant[k]
      /\ UNCHANGED <<ledger, epoch>>
  BY DropEffect DEF Counted, Known
<1>2. Crossing(u)' \in SUBSET Crossing(u) /\ Presented(u)' \in SUBSET Presented(u)
  BY <1>1 DEF Crossing, Presented
<1>3. Survivors(u)' = Survivors(u)
  BY <1>1 DEF Survivors
<1>4. \A k \in Presented(u)' : grant'[k] = grant[k]
  BY <1>1 DEF Presented
<1>5. Lines(u)' \in SUBSET Lines(u)
  BY <1>1, <1>2, <1>3, <1>4 DEF Lines
<1>6. Within(Lines(u)', Crossing(u)')
  BY <1>2, <1>5, WithinShrinks DEF Counted, LinesWithin, Crossing
<1> QED
  BY <1>6 DEF Within

\* A session opened over a closing begins a line and uses up the grant; any
\* other survivor is of the line of the session it replaces.
LEMMA OpenKeepsLines ==
  ASSUME None \notin SessionIds, IsFiniteSet(Handlers), Counted,
         NEW h \in Handlers, NEW s \in SessionIds, Open(h, s)
  PROVE  LinesWithin'
<1> SUFFICES ASSUME NEW u \in Users PROVE Within(Lines(u), Crossing(u))'
  BY DEF LinesWithin
<1> DEFINE g == grant[h]
<1>0. OpenResult(h, s)
  BY OpenEffect DEF Counted, Known
<1>1. /\ g \in Grant /\ g # NoGrant /\ g.seen <= epoch[g.user]
      /\ g.seen \in Nat /\ epoch[g.user] \in Nat
  BY <1>0 DEF OpenResult, Open, Counted, Known, GrantsKnown, Grant, Typed
<1>2. ASSUME NEW i \in Survivors(u)', i # s PROVE ledger'[i].root \in Lines(u)
  <2>1. ledger'[i] = ledger[i] /\ UNCHANGED epoch
    BY <1>0, <1>2 DEF OpenResult, Survivors
  <2> QED
    BY <1>2, <2>1 DEF Survivors, Lines
<1>3. ASSUME NEW k \in Presented(u)' PROVE ledger'[grant'[k].from].root \in Lines(u)
  <2>1. k # h /\ grant'[k] = grant[k] /\ UNCHANGED epoch
    BY <1>0, <1>3 DEF OpenResult, Presented
  <2>2. grant[k].kind = "refresh" /\ grant[k].from \in Opened
    BY <1>0, <1>3, <2>1 DEF Presented, Counted, Known, GrantsKnown, OpenResult
  <2>3. PICK i \in Opened : i = grant[k].from
    BY <2>2
  <2>4. ledger'[i].proved = ledger[i].proved /\ ledger'[i].root = ledger[i].root
    BY <1>0 DEF OpenResult, Opened
  <2>5. k \in Presented(u)
    BY <1>3, <2>1, <2>3, <2>4 DEF Presented
  <2> QED
    BY <2>1, <2>3, <2>4, <2>5 DEF Lines
<1>4. CASE g.user = u /\ g.seen < epoch[u]
  <2>1. h \in Crossing(u)
    BY <1>1, <1>4 DEF Crossing
  <2>2. Crossing(u)' \in SUBSET (Crossing(u) \ {h})
    BY <1>0 DEF OpenResult, Crossing
  <2>3. ledger'[s].root = s
    BY <1>0, <1>4 DEF OpenResult, Root
  <2>4. Lines(u)' \in SUBSET (Lines(u) \cup {s})
    BY <1>2, <1>3, <2>3 DEF Lines
  <2>5. Within(Lines(u)', Crossing(u)')
    BY <2>1, <2>2, <2>4, WithinMoves DEF Counted, LinesWithin, Crossing
  <2> QED
    BY <2>5 DEF Within
<1>5. CASE ~(g.user = u /\ g.seen < epoch[u])
  <2>1. Crossing(u)' \in SUBSET Crossing(u)
    BY <1>0 DEF OpenResult, Crossing
  <2>2. ASSUME s \in Survivors(u)' PROVE ledger'[s].root \in Lines(u)
    <3>1. /\ g.user = u /\ Proved(g) < epoch[u] /\ ledger'[s].root = Root(g, s)
      BY <1>0, <2>2 DEF OpenResult, Survivors
    <3>2. g.seen = epoch[u] /\ epoch[u] \in Nat
      BY <1>1, <1>5, <3>1
    <3>3. g.kind = "refresh"
      BY <1>1, <3>1, <3>2 DEF Proved, Grant
    <3>4. Proved(g) = ledger[g.from].proved /\ Root(g, s) = ledger[g.from].root
      BY <3>1, <3>2, <3>3 DEF Proved, Root
    <3>5. h \in Presented(u)
      BY <3>1, <3>2, <3>3, <3>4 DEF Presented
    <3> QED
      BY <3>1, <3>4, <3>5 DEF Lines
  <2>3. Lines(u)' \in SUBSET Lines(u)
    BY <1>2, <1>3, <2>2 DEF Lines
  <2>4. Within(Lines(u)', Crossing(u)')
    BY <2>1, <2>3, WithinShrinks DEF Counted, LinesWithin, Crossing
  <2> QED
    BY <2>4 DEF Within
<1> QED
  BY <1>4, <1>5

\* Closing leaves fewer survivors; what was presented keeps its line.
LEMMA CloseKeepsLinesOf ==
  ASSUME IsFiniteSet(Handlers), Counted, NEW S \in SUBSET Opened, CloseSome(S),
         UNCHANGED grant, NEW u \in Users, epoch'[u] = epoch[u]
  PROVE  Within(Lines(u), Crossing(u))'
<1>1. Survivors(u)' \in SUBSET Survivors(u)
  BY CloseSomeEffect DEF Survivors, Counted, Known
<1>2. \A i \in SessionIds : /\ ledger'[i].root = ledger[i].root
                            /\ ledger'[i].proved = ledger[i].proved
  BY CloseSomeEffect DEF Counted, Known
<1>3. \A k \in Handlers : grant[k].kind = "refresh" => grant[k].from \in SessionIds
  BY DEF Counted, Known, GrantsKnown, NoGrant, Opened
<1>4. Presented(u)' \in SUBSET Presented(u)
  BY <1>2, <1>3 DEF Presented
<1>5. \A k \in Presented(u) : grant[k].from \in SessionIds
  BY <1>3 DEF Presented
<1>6. \A i \in Survivors(u) : i \in SessionIds
  BY DEF Survivors
<1>7. Lines(u)' \in SUBSET Lines(u)
  BY <1>1, <1>2, <1>4, <1>5, <1>6 DEF Lines
<1>8. Crossing(u)' = Crossing(u)
  BY DEF Crossing
<1>9. Within(Lines(u)', Crossing(u)')
  BY <1>7, <1>8, WithinShrinks DEF Counted, LinesWithin, Crossing
<1> QED
  BY <1>9 DEF Within

\* After a closing of all there are no lines yet; every grant may begin one.
LEMMA CloseAllKeepsLines ==
  ASSUME IsFiniteSet(Handlers), Counted, NEW u \in Users, CloseAll(u)
  PROVE  LinesWithin'
<1>1. ASSUME NEW w \in Users \ {u} PROVE Within(Lines(w), Crossing(w))'
  <2>1. PICK S \in SUBSET Opened : CloseSome(S)
    BY DEF CloseAll
  <2> QED
    BY <2>1, CloseKeepsLinesOf, CloseAllEffect DEF CloseAll, Counted
<1>2. Within(Lines(u), Crossing(u))'
  <2>1. Survivors(u)' = {}
    BY CloseAllEffect DEF Survivors, Counted
  <2>2. Presented(u)' = {}
    <3> SUFFICES ASSUME NEW k \in Presented(u)' PROVE FALSE
      OBVIOUS
    <3>1. grant[k].kind = "refresh" /\ grant[k].user = u /\ grant[k].seen = epoch'[u]
      BY DEF Presented, CloseAll
    <3>2. grant[k] # NoGrant /\ grant[k] \in Grant /\ k \in Handlers
      BY <3>1 DEF Presented, NoGrant, Counted, Known, Typed
    <3> QED
      BY <3>1, <3>2, CloseAllEffect DEF Counted, Grant
  <2>3. Lines(u)' = {}
    BY <2>1, <2>2 DEF Lines
  <2>4. /\ Crossing(u)' \in SUBSET Handlers /\ IsFiniteSet({}) /\ Cardinality({}) = 0
        /\ Cardinality(Handlers) \in Nat
    BY FS_EmptySet, FS_CardinalityType DEF Crossing
  <2>5. Within({}, Handlers)
    BY <2>4 DEF Within
  <2>6. Within(Lines(u)', Crossing(u)')
    BY <2>3, <2>4, <2>5, WithinShrinks
  <2> QED
    BY <2>6 DEF Within
<1> QED
  BY <1>1, <1>2 DEF LinesWithin

\* Only an open session is presented, and nothing has replaced it yet.
LEMMA ReadingKeepsReplaced ==
  ASSUME IsFiniteSet(Handlers), Counted, NEW h \in Handlers,
         (\E u \in Users : Prove(h, u)) \/ (\E s \in SessionIds : Present(h, s))
  PROVE  ReplacedWithin'
<1>1. PICK g \in Grant :
        /\ Granted(h, g) /\ g.seen = epoch[g.user]
        /\ g.kind = "login" => g.from = None
        /\ g.kind = "refresh" => /\ ledger[g.from].state = "open"
                                 /\ g.from \in SessionIds
                                 /\ ledger[g.from].user = g.user
                                 /\ Rooted(g.from)
  BY ReadingEffect DEF Counted, Known
<1>2. /\ grant[h] = NoGrant /\ grant'[h] = g
      /\ \A k \in Handlers \ {h} : grant'[k] = grant[k]
      /\ UNCHANGED <<ledger, epoch>>
  BY <1>1, GrantedEffect DEF Counted, Known
<1> SUFFICES ASSUME NEW s \in SessionIds
             PROVE  /\ Within(Replacing(s), Holding(s))'
                    /\ (Replacing(s) # {} => ledger[s].state = "closed")'
  BY DEF ReplacedWithin
<1>3. Replacing(s)' = Replacing(s) /\ ledger'[s] = ledger[s]
  BY <1>2 DEF Replacing, Opened
<1>4. Replacing(s) # {} => ledger[s].state = "closed"
  BY DEF Counted, ReplacedWithin
<1>5. CASE g.kind = "refresh" /\ g.from = s
  <2>1. Replacing(s)' = {}
    BY <1>1, <1>3, <1>4, <1>5
  <2>2. /\ Holding(s)' \in SUBSET Handlers /\ IsFiniteSet({}) /\ Cardinality({}) = 0
        /\ Cardinality(Handlers) \in Nat
    BY FS_EmptySet, FS_CardinalityType DEF Holding
  <2>3. Within({}, Handlers)
    BY <2>2 DEF Within
  <2>4. Within(Replacing(s)', Holding(s)')
    BY <2>1, <2>2, <2>3, WithinShrinks
  <2> QED
    BY <1>3, <1>4, <2>4 DEF Within
<1>6. CASE ~(g.kind = "refresh" /\ g.from = s)
  <2>1. Holding(s)' \in SUBSET Holding(s)
    BY <1>2, <1>6 DEF Holding
  <2>2. Within(Replacing(s)', Holding(s)')
    BY <1>3, <2>1, WithinShrinks DEF Counted, ReplacedWithin, Holding
  <2> QED
    BY <1>3, <1>4, <2>2 DEF Within
<1> QED
  BY <1>5, <1>6

LEMMA DropKeepsReplaced ==
  ASSUME IsFiniteSet(Handlers), Counted, NEW h \in Handlers, Drop(h)
  PROVE  ReplacedWithin'
<1>1. /\ grant'[h] = NoGrant /\ NoGrant.kind = "none"
      /\ \A k \in Handlers \ {h} : grant'[k] = grant[k]
      /\ UNCHANGED <<ledger, epoch>>
  BY DropEffect DEF Counted, Known
<1> SUFFICES ASSUME NEW s \in SessionIds
             PROVE  /\ Within(Replacing(s), Holding(s))'
                    /\ (Replacing(s) # {} => ledger[s].state = "closed")'
  BY DEF ReplacedWithin
<1>2. Replacing(s)' = Replacing(s) /\ Holding(s)' \in SUBSET Holding(s)
  BY <1>1 DEF Replacing, Opened, Holding
<1>3. Within(Replacing(s), Holding(s)) /\ Holding(s) \in SUBSET Handlers
  BY DEF Counted, ReplacedWithin, Holding
<1>4. Within(Replacing(s)', Holding(s)')
  BY <1>2, <1>3, WithinShrinks
<1> QED
  BY <1>1, <1>2, <1>4 DEF Within, Counted, ReplacedWithin

LEMMA OpenKeepsReplaced ==
  ASSUME None \notin SessionIds, IsFiniteSet(Handlers), Counted,
         NEW h \in Handlers, NEW i \in SessionIds, Open(h, i)
  PROVE  ReplacedWithin'
<1> SUFFICES ASSUME NEW s \in SessionIds
             PROVE  /\ Within(Replacing(s), Holding(s))'
                    /\ (Replacing(s) # {} => ledger[s].state = "closed")'
  BY DEF ReplacedWithin
<1> DEFINE g == grant[h]
<1>0. OpenResult(h, i)
  BY OpenEffect DEF Counted, Known
<1>1. /\ Within(Replacing(s), Holding(s)) /\ Holding(s) \in SUBSET Handlers
      /\ Replacing(s) # {} => ledger[s].state = "closed"
  BY DEF Counted, ReplacedWithin, Holding
<1>2. \A k \in Replacing(s)' : k # i => k \in Replacing(s)
  BY <1>0 DEF OpenResult, Replacing, Opened
<1>3. ledger'[i].from = g.from
  BY <1>0 DEF OpenResult
<1>4. Holding(s)' \in SUBSET (Holding(s) \ {h})
  BY <1>0 DEF OpenResult, Holding
<1>5. CASE g.from = s
  <2>1. h \in Holding(s)
    BY <1>0, <1>5 DEF Holding, OpenResult, Open, Counted, Known, GrantsKnown, Grant
  <2>2. Replacing(s)' \in SUBSET (Replacing(s) \cup {i})
    BY <1>2
  <2>3. Within(Replacing(s)', Holding(s)')
    BY <1>1, <1>4, <2>1, <2>2, WithinMoves
  <2>4. ledger'[s].state = "closed"
    BY <1>0, <1>5 DEF OpenResult
  <2> QED
    BY <2>3, <2>4 DEF Within
<1>6. CASE g.from # s
  <2>1. Replacing(s)' \in SUBSET Replacing(s)
    BY <1>2, <1>3, <1>6 DEF Replacing
  <2>2. Within(Replacing(s)', Holding(s)')
    BY <1>1, <1>4, <2>1, WithinShrinks
  <2>3. Replacing(s) # {} => s # i
    BY <1>0, <1>1 DEF OpenResult, Opened
  <2>4. s # i => ledger'[s] = ledger[s]
    BY <1>0, <1>6 DEF OpenResult
  <2> QED
    BY <1>1, <2>1, <2>2, <2>3, <2>4 DEF Within
<1> QED
  BY <1>5, <1>6

LEMMA CloseKeepsReplaced ==
  ASSUME IsFiniteSet(Handlers), Counted, NEW S \in SUBSET Opened, CloseSome(S),
         UNCHANGED grant
  PROVE  ReplacedWithin'
<1> SUFFICES ASSUME NEW s \in SessionIds
             PROVE  /\ Within(Replacing(s), Holding(s))'
                    /\ (Replacing(s) # {} => ledger[s].state = "closed")'
  BY DEF ReplacedWithin
<1>1. /\ Opened' = Opened /\ \A i \in SessionIds : ledger'[i].from = ledger[i].from
      /\ ledger'[s] = ledger[s] \/ ledger'[s].state = "closed"
  BY CloseSomeEffect DEF Counted, Known
<1>2. Replacing(s)' = Replacing(s) /\ Holding(s)' = Holding(s)
  BY <1>1 DEF Replacing, Holding, Opened
<1> QED
  BY <1>1, <1>2 DEF Within, Counted, ReplacedWithin

LEMMA InitIsCounted == IsFiniteSet(Handlers) /\ Init => Counted
<1> SUFFICES ASSUME IsFiniteSet(Handlers), Init PROVE Counted
  OBVIOUS
<1>1. /\ \A u \in Users : Lines(u) = {} /\ Crossing(u) = {}
      /\ \A s \in SessionIds : Replacing(s) = {} /\ Holding(s) = {}
  BY DEF Init, Lines, Survivors, Presented, Crossing, Replacing, Opened, Holding,
         Unopened, NoGrant
<1>2. Within({}, {})
  <2>1. IsFiniteSet({}) /\ Cardinality({}) = 0 /\ Cardinality(Handlers) \in Nat
    BY FS_EmptySet, FS_CardinalityType
  <2> QED
    BY <2>1 DEF Within
<1> QED
  BY <1>1, <1>2, InitIsKnown DEF Counted, LinesWithin, ReplacedWithin

LEMMA StepKeepsCounted ==
  ASSUME None \notin SessionIds, IsFiniteSet(Handlers), Counted, [Next]_ledgerVars
  PROVE  Counted'
<1>1. Known'
  BY StepKeepsKnown DEF Counted
<1>2. LinesWithin' /\ ReplacedWithin'
  <2>1. ASSUME NEW h \in Handlers, Drop(h) PROVE LinesWithin' /\ ReplacedWithin'
    BY <2>1, DropKeepsLines, DropKeepsReplaced
  <2>2. ASSUME NEW h \in Handlers,
               (\E u \in Users : Prove(h, u)) \/ (\E s \in SessionIds : Present(h, s))
        PROVE  LinesWithin' /\ ReplacedWithin'
    BY <2>2, ReadingKeepsLines, ReadingKeepsReplaced
  <2>3. ASSUME NEW h \in Handlers, NEW s \in SessionIds, Open(h, s)
        PROVE  LinesWithin' /\ ReplacedWithin'
    BY <2>3, OpenKeepsLines, OpenKeepsReplaced
  <2>4. ASSUME NEW u \in Users, CloseAll(u) PROVE LinesWithin' /\ ReplacedWithin'
    <3>1. PICK S \in SUBSET Opened : CloseSome(S) /\ UNCHANGED grant
      BY <2>4 DEF CloseAll
    <3> QED
      BY <2>4, <3>1, CloseAllKeepsLines, CloseKeepsReplaced
  <2>5. CASE Close
    <3>1. PICK S \in SUBSET Opened : CloseSome(S) /\ UNCHANGED <<epoch, grant>>
      BY <2>5 DEF Close
    <3>2. \A u \in Users : Within(Lines(u), Crossing(u))'
      BY <3>1, CloseKeepsLinesOf
    <3> QED
      BY <3>1, <3>2, CloseKeepsReplaced DEF LinesWithin
  <2>6. CASE UNCHANGED ledgerVars
    <3>1. UNCHANGED <<ledger, epoch, grant>>
      BY <2>6 DEF ledgerVars
    <3>2. \A u \in Users : Lines(u)' = Lines(u) /\ Crossing(u)' = Crossing(u)
      BY <3>1 DEF Lines, Crossing, Survivors, Presented
    <3>3. \A s \in SessionIds : Replacing(s)' = Replacing(s) /\ Holding(s)' = Holding(s)
      BY <3>1 DEF Replacing, Holding, Opened
    <3> QED
      BY <3>1, <3>2, <3>3 DEF Counted, LinesWithin, ReplacedWithin, Within
  <2> QED
    BY <2>1, <2>2, <2>3, <2>4, <2>5, <2>6 DEF Next
<1> QED
  BY <1>1, <1>2 DEF Counted

LEMMA CountedHolds ==
  ASSUME None \notin SessionIds, IsFiniteSet(Handlers) PROVE Spec => []Counted
<1>1. Init => Counted
  BY InitIsCounted
<1>2. Counted /\ [Next]_ledgerVars => Counted'
  BY StepKeepsCounted
<1> QED
  BY <1>1, <1>2, PTL DEF Spec

-----------------------------------------------------------------------------
(* What the ledger promises *)

LEMMA WithinBounds ==
  ASSUME IsFiniteSet(Handlers), NEW L, NEW C \in SUBSET Handlers, Within(L, C),
         NEW M \in SUBSET L
  PROVE  Cardinality(M) <= Cardinality(Handlers)
<1>1. Within(M, {})
  BY WithinShrinks
<1>2. Cardinality({}) = 0 /\ Cardinality(M) \in Nat
  BY <1>1, FS_EmptySet, FS_CardinalityType DEF Within
<1> QED
  BY <1>1, <1>2 DEF Within

\* The sessions that outlive a closing of all of a user's are of at most as
\* many lines as there are handlers, whatever proved, presented, opened and
\* closed in between; AuthSessions implements the ledger (LedgerSpec).
THEOREM SurvivorsAreBounded ==
  LedgerAssumption /\ Spec => []SurvivorsBounded
<1> SUFFICES ASSUME None \notin SessionIds, IsFiniteSet(Handlers)
             PROVE  Spec => []SurvivorsBounded
  BY DEF LedgerAssumption
<1>1. ASSUME Counted PROVE SurvivorsBounded
  <2> SUFFICES ASSUME NEW u \in Users
               PROVE  /\ \A s \in Survivors(u) : ledger[s].root # None
                      /\ Cardinality({ledger[s].root : s \in Survivors(u)})
                           <= Cardinality(Handlers)
    BY DEF SurvivorsBounded
  <2>1. \A s \in Survivors(u) : ledger[s].root # None
    BY <1>1 DEF Survivors, Counted, Known, RootsKnown, Rooted
  <2>2. Within(Lines(u), Crossing(u)) /\ Crossing(u) \in SUBSET Handlers
    BY <1>1 DEF Counted, LinesWithin, Crossing
  <2>3. {ledger[s].root : s \in Survivors(u)} \in SUBSET Lines(u)
    BY DEF Lines
  <2> QED
    BY <2>1, <2>2, <2>3, WithinBounds
<1> QED
  BY <1>1, CountedHolds, PTL

\* A session that was replaced is closed, and the handlers that replaced it
\* had all presented it while it was open.
THEOREM RefreshesAreBounded ==
  LedgerAssumption /\ Spec => []RefreshesBounded
<1> SUFFICES ASSUME None \notin SessionIds, IsFiniteSet(Handlers)
             PROVE  Spec => []RefreshesBounded
  BY DEF LedgerAssumption
<1>1. ASSUME Counted PROVE RefreshesBounded
  <2> SUFFICES ASSUME NEW s \in SessionIds
               PROVE  /\ Replacing(s) # {} => ledger[s].state = "closed"
                      /\ Cardinality(Replacing(s)) <= Cardinality(Handlers)
    BY DEF RefreshesBounded
  <2>1. /\ Replacing(s) # {} => ledger[s].state = "closed"
        /\ Within(Replacing(s), Holding(s)) /\ Holding(s) \in SUBSET Handlers
    BY <1>1 DEF Counted, ReplacedWithin, Holding
  <2> QED
    BY <2>1, WithinBounds
<1> QED
  BY <1>1, CountedHolds, PTL

\* No step of a ledger opens a session again or hands it to another user: a
\* logged-out session is not revived by a refresh that was under way.
THEOREM ClosedStaysClosed ==
  LedgerAssumption /\ Spec => ClosedForGood
<1> SUFFICES ASSUME None \notin SessionIds, IsFiniteSet(Handlers)
             PROVE  Spec => ClosedForGood
  BY DEF LedgerAssumption
<1> DEFINE Kept(s) == /\ ledger'[s].user = ledger[s].user
                      /\ ledger'[s].state = "open" => ledger[s].state = "open"
                      /\ ledger'[s].state # "unopened"
<1>1. ASSUME Known, NEW S \in SUBSET Opened, CloseSome(S), NEW s \in Opened
      PROVE  Kept(s)
  BY <1>1, CloseSomeEffect DEF Known, Opened
<1>2. ASSUME Known, NEW h \in Handlers, NEW i \in SessionIds, Open(h, i),
             NEW s \in Opened
      PROVE  Kept(s)
  <2>1. OpenResult(h, i)
    BY <1>2, OpenEffect DEF Known
  <2>2. s \in SessionIds \ {i} /\ s \in Opened'
    BY <2>1 DEF OpenResult, Opened
  <2> QED
    BY <2>1, <2>2 DEF OpenResult, Opened
<1>3. ASSUME Known, [Next]_ledgerVars, NEW s \in Opened
      PROVE  Kept(s)
  <2>1. CASE UNCHANGED ledger
    BY <2>1 DEF Opened
  <2>2. CASE Close
    BY <1>1, <1>3, <2>2 DEF Close
  <2>3. ASSUME NEW u \in Users, CloseAll(u) PROVE Kept(s)
    BY <1>1, <1>3, <2>3 DEF CloseAll
  <2>4. ASSUME NEW h \in Handlers, NEW i \in SessionIds, Open(h, i) PROVE Kept(s)
    BY <1>2, <1>3, <2>4
  <2> QED
    BY <1>3, <2>1, <2>2, <2>3, <2>4
    DEF Next, Drop, Prove, Present, Granted, ledgerVars
<1>4. Known /\ [Next]_ledgerVars => [\A s \in Opened : Kept(s)]_ledgerVars
  BY <1>3
<1>5. Counted => Known
  BY DEF Counted
<1> QED
  BY <1>4, <1>5, CountedHolds, PTL DEF Spec, ClosedForGood
=============================================================================
