----------------------------- MODULE FeatureFlags -----------------------------
(***************************************************************************)
(* FeatureFlagsService: update(), toggle() and remove() find the flag by   *)
(* its id and write by id alone in a later step.  The database keeps keys  *)
(* unique and writes only the columns it is given.                         *)
(***************************************************************************)
CONSTANTS
  Flags, Keys, Texts,  \* ids, keys, descriptions
  Calls,               \* handlers that may run at the same time
  NoFlag, NoCall

VARIABLES
  flags,   \* Flags -> row of feature_flags, or NoFlag
  call,    \* Calls -> running handler, or NoCall
  used,    \* ids that were given out: an id is a new uuid
  updated  \* history: Flags -> the description that create or update wrote last

vars == <<flags, call, used, updated>>

Row == [key : Keys, enabled : BOOLEAN, description : Texts]
Call == [op : {"update", "toggle", "remove"}, row : Row, flag : Flags]

Init == /\ flags = [f \in Flags |-> NoFlag] /\ call = [c \in Calls |-> NoCall]
        /\ used = {} /\ updated = [f \in Flags |-> CHOOSE t \in Texts : TRUE]

Stored(f) == flags[f] # NoFlag
End(c) == call' = [call EXCEPT ![c] = NoCall]

Create(f, key, enabled, text) ==
  /\ f \notin used /\ used' = used \cup {f}
  /\ \A g \in Flags : Stored(g) => flags[g].key # key
  /\ flags' = [flags EXCEPT ![f] = [key |-> key, enabled |-> enabled,
                                    description |-> text]]
  /\ updated' = [updated EXCEPT ![f] = text]
  /\ UNCHANGED call
\* findOne(), the first step of the three.
Find(c, op, f) ==
  /\ call[c] = NoCall /\ Stored(f)
  /\ call' = [call EXCEPT ![c] = [op |-> op, flag |-> f, row |-> flags[f]]]
  /\ UNCHANGED <<flags, used, updated>>
At(c, op) == call[c] # NoCall /\ call[c].op = op

Update(c, enabled, text) ==
  LET f == call[c].flag IN
  /\ At(c, "update") /\ Stored(f)
  /\ flags' = [flags EXCEPT ![f].enabled = enabled, ![f].description = text]
  /\ updated' = [updated EXCEPT ![f] = text]
  /\ End(c) /\ UNCHANGED used
\* Variant: the row that was read is written back with its flag turned.
ToggleWholeRow(c) ==
  LET f == call[c].flag IN
  /\ At(c, "toggle") /\ Stored(f)
  /\ flags' = [flags EXCEPT ![f] = [call[c].row EXCEPT !.enabled = ~@]]
  /\ End(c) /\ UNCHANGED <<used, updated>>
Toggle(c) ==
  LET f == call[c].flag IN
  /\ At(c, "toggle") /\ Stored(f)
  /\ flags' = [flags EXCEPT ![f].enabled = ~call[c].row.enabled]
  /\ End(c) /\ UNCHANGED <<used, updated>>
Remove(c) ==
  LET f == call[c].flag IN
  /\ At(c, "remove") /\ Stored(f)
  /\ flags' = [flags EXCEPT ![f] = NoFlag]
  /\ End(c) /\ UNCHANGED <<used, updated>>
\* The row is gone, the database fails or the process dies.
CallFails(c) ==
  /\ call[c] # NoCall /\ End(c)
  /\ UNCHANGED <<flags, used, updated>>

Next ==
  \/ \E f \in Flags, key \in Keys, enabled \in BOOLEAN, text \in Texts :
       Create(f, key, enabled, text)
  \/ \E c \in Calls :
       \/ \E op \in {"update", "toggle", "remove"}, f \in Flags : Find(c, op, f)
       \/ \E enabled \in BOOLEAN, text \in Texts : Update(c, enabled, text)
       \/ Toggle(c) \/ Remove(c) \/ CallFails(c)

Spec == Init /\ [][Next]_vars

-----------------------------------------------------------------------------
\* Flags and handlers keep their types, and a key names one flag.
TypeOK ==
  /\ flags \in [Flags -> Row \cup {NoFlag}] /\ call \in [Calls -> Call \cup {NoCall}]
  /\ used \subseteq Flags /\ updated \in [Flags -> Texts]
  /\ \A f, g \in Flags : Stored(f) /\ Stored(g) /\ flags[f].key = flags[g].key => f = g

\* toggle() and update() write their own columns: a toggle that read the flag
\* before an update does not undo the update's description.  This is not so of
\* enabled, which both write: the last writer wins, and two toggles may be one.
UpdateStands == \A f \in Flags : Stored(f) => flags[f].description = updated[f]
=============================================================================
