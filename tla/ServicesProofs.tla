---------------------------- MODULE ServicesProofs ----------------------------
(***************************************************************************)
(* Theorems about the smaller services, as MCServices instantiates them,   *)
(* for every value of its constants: the hub of notifications, feature     *)
(* flags, files and webhooks.  Tenants have TenantMembershipProofs.        *)
(***************************************************************************)
EXTENDS MCServices, TenantMembershipProofs, FiniteSetTheorems, TLAPS

USE ServicesAssumption

LEMMA SameCardinality ==
  ASSUME NEW S
  PROVE  /\ Filing!Cardinality(S) = Cardinality(S)
         /\ Hub!Cardinality(S) = Cardinality(S)
         /\ Webhooks!Cardinality(S) = Cardinality(S)
  BY DEF Cardinality, Filing!Cardinality, Hub!Cardinality, Webhooks!Cardinality

-----------------------------------------------------------------------------
(* Files *)

\* A handler that has stored its file holds it alone, and no row lists it yet;
\* one that has found a row may find the row gone, but never without the file
\* gone first; one that has unlinked a file will not see it come back.
UploadHandlersInv ==
  \A r \in Requests :
    request[r] # NoRequest =>
      /\ request[r].step = "stored" =>
           /\ request[r].item \in files \ fileRows
           /\ \A q \in Requests \ {r} :
                request[q] # NoRequest => request[q].item # request[r].item
      /\ request[r].step = "found" => request[r].item \notin files \ fileRows
      /\ request[r].step = "unlinked" => request[r].item \notin files

UploadsInv == Filing!TypeOK /\ UploadHandlersInv

LEMMA UploadsStart == ASSUME Filing!Init PROVE UploadsInv
  BY SMT DEF Filing!Init, UploadsInv, Filing!TypeOK, UploadHandlersInv

-----------------------------------------------------------------------------
(* What each step does to one item, and to the invariant *)

\* Uploads whose membership in the three sets does not change keep their stage.
LEMMA OneItemMoves ==
  ASSUME NEW i \in Uploads, NEW from, NEW to,
         Filing!StageOf(i) = from, Filing!StageOf(i)' = to,
         \A j \in Uploads \ {i} : Filing!StageOf(j)' = Filing!StageOf(j)
  PROVE  [j \in Uploads |-> Filing!StageOf(j)']
           = [[j \in Uploads |-> Filing!StageOf(j)] EXCEPT ![i] = to]
  OBVIOUS

\* No step but those of the ledger.
LedgerStep ==
  \/ \E i \in Uploads :
       \/ Filing!Files!Advance(i, "none", "stored")
       \/ Filing!Files!Advance(i, "stored", "listed")
       \/ Filing!Files!Advance(i, "listed", "unlinked")
       \/ Filing!Files!Advance(i, "unlinked", "removed")
  \/ [j \in Uploads |-> Filing!StageOf(j)]' = [j \in Uploads |-> Filing!StageOf(j)]

LEMMA AdvanceOne ==
  ASSUME NEW i \in Uploads, NEW from, NEW to,
         Filing!StageOf(i) = from, Filing!StageOf(i)' = to,
         \A j \in Uploads \ {i} : Filing!StageOf(j)' = Filing!StageOf(j)
  PROVE  Filing!Files!Advance(i, from, to)
  BY OneItemMoves DEF Filing!Files!Advance

LEMMA StoreStep ==
  ASSUME UploadsInv, NEW r \in Requests, NEW i \in Uploads, Filing!Store(r, i)
  PROVE  UploadsInv' /\ LedgerStep
<1>1. Filing!TypeOK'
  BY DEF UploadsInv, Filing!TypeOK, Filing!Store, Filing!Go, Filing!Request
<1>2. UploadHandlersInv'
  BY SMT DEF UploadsInv, Filing!TypeOK, UploadHandlersInv, Filing!Store, Filing!Go, Filing!Request
<1>3. Filing!Files!Advance(i, "none", "stored")
  <2>1. Filing!StageOf(i) = "none" /\ Filing!StageOf(i)' = "stored"
    BY DEF UploadsInv, Filing!TypeOK, Filing!Store, Filing!StageOf
  <2>2. \A j \in Uploads \ {i} : Filing!StageOf(j)' = Filing!StageOf(j)
    BY DEF Filing!Store, Filing!StageOf
  <2> QED
    BY <2>1, <2>2, AdvanceOne
<1> QED
  BY <1>1, <1>2, <1>3 DEF UploadsInv, LedgerStep

LEMMA CreateRowStep ==
  ASSUME UploadsInv, NEW r \in Requests, Filing!CreateRow(r)
  PROVE  UploadsInv' /\ LedgerStep
<1>i. PICK i \in Uploads : i = request[r].item
  BY DEF UploadsInv, Filing!TypeOK, Filing!CreateRow, Filing!At
<1>0. i \in files /\ i \notin fileRows /\ i \in known
  BY <1>i DEF UploadsInv, Filing!TypeOK, UploadHandlersInv, Filing!CreateRow, Filing!At
<1>1. Filing!TypeOK'
  BY <1>i, <1>0 DEF UploadsInv, Filing!TypeOK, Filing!CreateRow, Filing!Leave
<1>2. UploadHandlersInv'
  BY <1>i, <1>0, SMT DEF UploadsInv, Filing!TypeOK, UploadHandlersInv, Filing!CreateRow, Filing!Leave, Filing!At, Filing!Request
<1>3. Filing!Files!Advance(i, "stored", "listed")
  <2>1. Filing!StageOf(i) = "stored" /\ Filing!StageOf(i)' = "listed"
    BY <1>i, <1>0 DEF Filing!CreateRow, Filing!StageOf
  <2>2. \A j \in Uploads \ {i} : Filing!StageOf(j)' = Filing!StageOf(j)
    BY <1>i DEF Filing!CreateRow, Filing!StageOf
  <2> QED
    BY <1>0, <2>1, <2>2, AdvanceOne
<1> QED
  BY <1>0, <1>1, <1>2, <1>3 DEF UploadsInv, LedgerStep

LEMMA FindStep ==
  ASSUME UploadsInv, NEW r \in Requests, NEW i \in Uploads, Filing!Find(r, i)
  PROVE  UploadsInv' /\ LedgerStep
<1>1. Filing!TypeOK'
  BY DEF UploadsInv, Filing!TypeOK, Filing!Find, Filing!Go, Filing!Request
<1>2. UploadHandlersInv'
  BY SMT DEF UploadsInv, Filing!TypeOK, UploadHandlersInv, Filing!Find, Filing!Go, Filing!Request
<1>3. \A j \in Uploads : Filing!StageOf(j)' = Filing!StageOf(j)
  BY DEF Filing!Find, Filing!StageOf
<1> QED
  BY <1>1, <1>2, <1>3 DEF UploadsInv, LedgerStep

LEMMA UnlinkStep ==
  ASSUME UploadsInv, NEW r \in Requests, Filing!Unlink(r)
  PROVE  UploadsInv' /\ LedgerStep
<1>i. PICK i \in Uploads : i = request[r].item
  BY DEF UploadsInv, Filing!TypeOK, Filing!Unlink, Filing!At
<1>0. i \in known /\ i \notin files \ fileRows
  BY <1>i DEF UploadsInv, Filing!TypeOK, UploadHandlersInv, Filing!Unlink, Filing!At
<1>1. Filing!TypeOK'
  BY <1>i, <1>0 DEF UploadsInv, Filing!TypeOK, Filing!Unlink, Filing!Go, Filing!Request
<1>2. UploadHandlersInv'
  BY <1>i, <1>0, SMT DEF UploadsInv, Filing!TypeOK, UploadHandlersInv, Filing!Unlink, Filing!Go, Filing!At, Filing!Request
<1>3. \A j \in Uploads \ {i} : Filing!StageOf(j)' = Filing!StageOf(j)
  BY <1>i DEF Filing!Unlink, Filing!StageOf
<1>4. CASE i \in files
  <2>1. Filing!StageOf(i) = "listed" /\ Filing!StageOf(i)' = "unlinked"
    BY <1>i, <1>0, <1>4 DEF Filing!Unlink, Filing!StageOf
  <2> QED
    BY <1>0, <1>1, <1>2, <1>3, <2>1, AdvanceOne DEF UploadsInv, LedgerStep
<1>5. CASE i \notin files
  <2>1. Filing!StageOf(i)' = Filing!StageOf(i)
    BY <1>i, <1>5 DEF Filing!Unlink, Filing!StageOf
  <2> QED
    BY <1>1, <1>2, <1>3, <2>1 DEF UploadsInv, LedgerStep
<1> QED
  BY <1>4, <1>5

LEMMA DeleteRowStep ==
  ASSUME UploadsInv, NEW r \in Requests, Filing!DeleteRow(r)
  PROVE  UploadsInv' /\ LedgerStep
<1>i. PICK i \in Uploads : i = request[r].item
  BY DEF UploadsInv, Filing!TypeOK, Filing!DeleteRow, Filing!At
<1>0. i \in known /\ i \notin files
  BY <1>i DEF UploadsInv, Filing!TypeOK, UploadHandlersInv, Filing!DeleteRow, Filing!At
<1>1. Filing!TypeOK'
  BY <1>i, <1>0 DEF UploadsInv, Filing!TypeOK, Filing!DeleteRow, Filing!Leave
<1>2. UploadHandlersInv'
  BY <1>i, <1>0, SMT DEF UploadsInv, Filing!TypeOK, UploadHandlersInv, Filing!DeleteRow, Filing!Leave, Filing!At, Filing!Request
<1>3. \A j \in Uploads \ {i} : Filing!StageOf(j)' = Filing!StageOf(j)
  BY <1>i DEF Filing!DeleteRow, Filing!StageOf
<1>4. CASE i \in fileRows
  <2>1. Filing!StageOf(i) = "unlinked" /\ Filing!StageOf(i)' = "removed"
    BY <1>i, <1>0, <1>4 DEF Filing!DeleteRow, Filing!StageOf
  <2> QED
    BY <1>0, <1>1, <1>2, <1>3, <2>1, AdvanceOne DEF UploadsInv, LedgerStep
<1>5. CASE i \notin fileRows
  <2>1. Filing!StageOf(i)' = Filing!StageOf(i)
    BY <1>i, <1>5 DEF Filing!DeleteRow, Filing!StageOf
  <2> QED
    BY <1>1, <1>2, <1>3, <2>1 DEF UploadsInv, LedgerStep
<1> QED
  BY <1>4, <1>5

LEMMA RequestFailsStep ==
  ASSUME UploadsInv, NEW r \in Requests, Filing!RequestFails(r)
  PROVE  UploadsInv' /\ LedgerStep
<1>1. Filing!TypeOK'
  BY DEF UploadsInv, Filing!TypeOK, Filing!RequestFails, Filing!Leave
<1>2. UploadHandlersInv'
  BY SMT DEF UploadsInv, Filing!TypeOK, UploadHandlersInv, Filing!RequestFails, Filing!Leave
<1>3. \A j \in Uploads : Filing!StageOf(j)' = Filing!StageOf(j)
  BY DEF Filing!RequestFails, Filing!StageOf
<1> QED
  BY <1>1, <1>2, <1>3 DEF UploadsInv, LedgerStep

LEMMA UploadsStep ==
  ASSUME UploadsInv, [Filing!Next]_Filing!vars
  PROVE  UploadsInv' /\ LedgerStep
<1>1. CASE Filing!Next
  BY <1>1, StoreStep, CreateRowStep, FindStep, UnlinkStep, DeleteRowStep,
     RequestFailsStep DEF Filing!Next, Filing!Handle
<1>2. CASE UNCHANGED Filing!vars
  <2>1. \A j \in Uploads : Filing!StageOf(j)' = Filing!StageOf(j)
    BY <1>2 DEF Filing!vars, Filing!StageOf
  <2> QED
    BY <1>2, <2>1 DEF Filing!vars, UploadsInv, Filing!TypeOK, UploadHandlersInv, LedgerStep
<1> QED
  BY <1>1, <1>2

\* Items whose file or row is alone in no handler's hands: what failed calls left.
LeftAlone ==
  ((files \ fileRows) \cup (fileRows \ files))
    \ {i \in Uploads : \E r \in Requests : request[r] # NoRequest /\ request[r].item = i}
LeftInv == IsFiniteSet(LeftAlone) /\ Cardinality(LeftAlone) <= fileFaults

\* Every step but a failing call only takes items off the ones left alone; that
\* one leaves the item that was in its hands.
LEMMA LeftByFaults ==
  ASSUME UploadsInv, LeftInv, [Filing!Next]_Filing!vars
  PROVE  LeftInv'
<1>0. /\ files \subseteq known /\ fileRows \subseteq known /\ known \subseteq Uploads
      /\ request \in [Requests -> Filing!Request \cup {NoRequest}]
  BY DEF UploadsInv, Filing!TypeOK
<1>f. IsFiniteSet(LeftAlone) /\ Cardinality(LeftAlone) \in Nat /\ fileFaults \in Nat
      /\ Cardinality(LeftAlone) <= fileFaults
  BY FS_CardinalityType, SMT DEF LeftInv, UploadsInv, Filing!TypeOK
<1>1. CASE LeftAlone' \subseteq LeftAlone /\ fileFaults' = fileFaults
  <2>1. /\ IsFiniteSet(LeftAlone') /\ Cardinality(LeftAlone') <= Cardinality(LeftAlone)
        /\ Cardinality(LeftAlone') \in Nat
    BY <1>1, <1>f, FS_Subset, FS_CardinalityType
  <2> QED  BY <1>1, <1>f, <2>1 DEF LeftInv
<1>2. ASSUME NEW r \in Requests, Filing!RequestFails(r)
      PROVE  LeftInv'
  <2> DEFINE S == LeftAlone \cup {request[r].item}
  <2>1. LeftAlone' \subseteq S
    BY <1>2, <1>0 DEF LeftAlone, Filing!RequestFails, Filing!Leave
  <2>2. /\ IsFiniteSet(S) /\ Cardinality(S) \in Nat
        /\ Cardinality(S) <= Cardinality(LeftAlone) + 1
    <3>1. IsFiniteSet(S) /\ Cardinality(S) \in {Cardinality(LeftAlone), Cardinality(LeftAlone) + 1}
      BY <1>f, FS_AddElement
    <3> QED  BY <1>f, <3>1, FS_CardinalityType
  <2> HIDE DEF S
  <2>3. /\ IsFiniteSet(LeftAlone') /\ Cardinality(LeftAlone') <= Cardinality(S)
        /\ Cardinality(LeftAlone') \in Nat
    BY <2>1, <2>2, FS_Subset, FS_CardinalityType
  <2>4. fileFaults' = fileFaults + 1
    BY <1>2 DEF Filing!RequestFails
  <2>5. Cardinality(LeftAlone') <= fileFaults'
    BY <1>f, <2>2, <2>3, <2>4
  <2> QED  BY <2>3, <2>5 DEF LeftInv
<1>3. ASSUME NEW r \in Requests, NEW i \in Uploads, Filing!Store(r, i)
      PROVE  LeftInv'
  <2>1. LeftAlone' \subseteq LeftAlone
    BY <1>3, <1>0 DEF LeftAlone, Filing!Store, Filing!Go, Filing!Request
  <2> QED  BY <1>1, <1>3, <2>1 DEF Filing!Store
<1>4. ASSUME NEW r \in Requests, NEW i \in Uploads, Filing!Find(r, i)
      PROVE  LeftInv'
  <2>1. LeftAlone' \subseteq LeftAlone
    BY <1>4, <1>0 DEF LeftAlone, Filing!Find, Filing!Go, Filing!Request
  <2> QED  BY <1>1, <1>4, <2>1 DEF Filing!Find
<1>5. ASSUME NEW r \in Requests, Filing!CreateRow(r)
      PROVE  LeftInv'
  <2>1. request[r].item \in files
    BY <1>5 DEF UploadsInv, UploadHandlersInv, Filing!CreateRow, Filing!At
  <2>2. LeftAlone' \subseteq LeftAlone
    BY <1>5, <1>0, <2>1 DEF LeftAlone, Filing!CreateRow, Filing!Leave
  <2> QED  BY <1>1, <1>5, <2>2 DEF Filing!CreateRow
<1>6. ASSUME NEW r \in Requests, Filing!Unlink(r)
      PROVE  LeftInv'
  <2>1. LeftAlone' \subseteq LeftAlone
    BY <1>6, <1>0 DEF LeftAlone, Filing!Unlink, Filing!Go, Filing!At, Filing!Request
  <2> QED  BY <1>1, <1>6, <2>1 DEF Filing!Unlink
<1>7. ASSUME NEW r \in Requests, Filing!DeleteRow(r)
      PROVE  LeftInv'
  <2>1. request[r].item \notin files
    BY <1>7 DEF UploadsInv, UploadHandlersInv, Filing!DeleteRow, Filing!At
  <2>2. LeftAlone' \subseteq LeftAlone
    BY <1>7, <1>0, <2>1 DEF LeftAlone, Filing!DeleteRow, Filing!Leave
  <2> QED  BY <1>1, <1>7, <2>2 DEF Filing!DeleteRow
<1>8. CASE UNCHANGED Filing!vars
  BY <1>1, <1>8 DEF Filing!vars, LeftAlone
<1> QED
  BY <1>2, <1>3, <1>4, <1>5, <1>6, <1>7, <1>8 DEF Filing!Next, Filing!Handle

-----------------------------------------------------------------------------
\* Sets, handlers and the count of faults keep their types, and what a handler
\* or a table names was uploaded.
THEOREM UploadsTypeCorrect == Filing!Spec => []Filing!TypeOK
<1>1. Filing!Spec => []UploadsInv
  BY UploadsStart, UploadsStep, PTL DEF Filing!Spec
<1> QED
  BY <1>1, PTL DEF UploadsInv

\* FileUploadService writes the file before its row and unlinks it before its
\* row goes, under any overlap and failure of its handlers: FileUploads
\* implements FileLedger.
THEOREM UploadsKeepOrder == Filing!Spec => FilesSpec
<1>1. Filing!Init => Filing!Files!Init
  BY DEF Filing!Init, Filing!Files!Init, Filing!StageOf
<1>2. UploadsInv /\ [Filing!Next]_Filing!vars
      => UploadsInv' /\ [Filing!Files!Next]_([i \in Uploads |-> Filing!StageOf(i)])
  BY UploadsStep DEF LedgerStep, Filing!Files!Next
<1> QED
  BY <1>1, <1>2, UploadsStart, PTL DEF Filing!Spec, FilesSpec, Filing!FilesSpec, Filing!Files!Spec

\* A file without a row, or a row without a file, is in some handler's hands or
\* was left by a call that failed, one for each, for any number of handlers.
THEOREM OrphansHaveCauses == Filing!Spec => []OrphansExplained
<1>1. Filing!Init => LeftInv
  <2> SUFFICES ASSUME Filing!Init PROVE LeftInv
    OBVIOUS
  <2>1. LeftAlone = {} /\ fileFaults = 0
    BY DEF Filing!Init, LeftAlone
  <2> QED  BY <2>1, FS_EmptySet DEF LeftInv
<1>2. UploadsInv /\ LeftInv /\ [Filing!Next]_Filing!vars => UploadsInv' /\ LeftInv'
  BY UploadsStep, LeftByFaults
<1>3. LeftInv => OrphansExplained
  BY SameCardinality DEF LeftInv, LeftAlone, OrphansExplained, Filing!OrphansExplained
<1> QED
  BY <1>1, <1>2, <1>3, UploadsStart, PTL DEF Filing!Spec
-----------------------------------------------------------------------------
(* Feature flags *)

FlagsInv == Flagging!TypeOK /\ Flagging!UpdateStands

LEMMA FlagsStart == ASSUME Flagging!Init PROVE FlagsInv
<1>1. (CHOOSE text \in Texts : TRUE) \in Texts
  OBVIOUS
<1> QED
  BY <1>1
  DEF Flagging!Init, FlagsInv, Flagging!TypeOK, Flagging!UpdateStands, Flagging!Stored

\* One row is written, with a key that no other stored row has.
LEMMA OneFlagChanges ==
  ASSUME FlagsInv, NEW f \in Flags, NEW row \in Flagging!Row \cup {NoFlag},
         flags' = [flags EXCEPT ![f] = row],
         row # NoFlag => \A g \in Flags : flags[g] # NoFlag /\ g # f => flags[g].key # row.key,
         updated' \in [Flags -> Texts],
         \A g \in Flags : g # f => updated'[g] = updated[g],
         row # NoFlag => row.description = updated'[f],
         flagCall' \in [Calls -> Flagging!Call \cup {NoCall}], used' \subseteq Flags
  PROVE  FlagsInv'
<1>0. /\ flags \in [Flags -> Flagging!Row \cup {NoFlag}]
      /\ \A g, h \in Flags : flags[g] # NoFlag /\ flags[h] # NoFlag
                             /\ flags[g].key = flags[h].key => g = h
      /\ \A g \in Flags : flags[g] # NoFlag => flags[g].description = updated[g]
  BY DEF FlagsInv, Flagging!TypeOK, Flagging!UpdateStands, Flagging!Stored
<1>1. /\ flags' \in [Flags -> Flagging!Row \cup {NoFlag}] /\ flags'[f] = row
      /\ \A g \in Flags : g # f => flags'[g] = flags[g]
  BY <1>0
<1>2. \A g, h \in Flags : flags'[g] # NoFlag /\ flags'[h] # NoFlag
                          /\ flags'[g].key = flags'[h].key => g = h
  <2> SUFFICES ASSUME NEW g \in Flags, NEW h \in Flags, flags'[g] # NoFlag,
                      flags'[h] # NoFlag, flags'[g].key = flags'[h].key, g # h
               PROVE  FALSE
    OBVIOUS
  <2>1. CASE g = f
    BY <1>1, <2>1
  <2>2. CASE h = f
    BY <1>1, <2>2
  <2>3. CASE g # f /\ h # f
    BY <1>0, <1>1, <2>3
  <2> QED  BY <2>1, <2>2, <2>3
<1>3. \A g \in Flags : flags'[g] # NoFlag => flags'[g].description = updated'[g]
  BY <1>0, <1>1
<1> QED
  BY <1>1, <1>2, <1>3
  DEF FlagsInv, Flagging!TypeOK, Flagging!UpdateStands, Flagging!Stored

LEMMA FlagsStep ==
  ASSUME FlagsInv, [Flagging!Next]_Flagging!vars
  PROVE  FlagsInv'
<1>0. /\ flags \in [Flags -> Flagging!Row \cup {NoFlag}] /\ updated \in [Flags -> Texts]
      /\ flagCall \in [Calls -> Flagging!Call \cup {NoCall}] /\ used \subseteq Flags
      /\ \A g, h \in Flags : flags[g] # NoFlag /\ flags[h] # NoFlag
                             /\ flags[g].key = flags[h].key => g = h
      /\ \A g \in Flags : flags[g] # NoFlag => flags[g].description = updated[g]
  BY DEF FlagsInv, Flagging!TypeOK, Flagging!UpdateStands, Flagging!Stored
<1>1. ASSUME NEW f \in Flags, NEW key \in Keys, NEW enabled \in BOOLEAN, NEW text \in Texts,
             Flagging!Create(f, key, enabled, text)
      PROVE  FlagsInv'
  <2> DEFINE row == [key |-> key, enabled |-> enabled, description |-> text]
  <2>1. /\ row \in Flagging!Row /\ row # NoFlag /\ row.key = key /\ row.description = text
    BY DEF Flagging!Row
  <2>2. /\ flags' = [flags EXCEPT ![f] = row] /\ updated' = [updated EXCEPT ![f] = text]
        /\ used' = used \cup {f} /\ UNCHANGED flagCall
        /\ \A g \in Flags : flags[g] # NoFlag => flags[g].key # key
    BY <1>1 DEF Flagging!Create, Flagging!Stored
  <2> HIDE DEF row
  <2> QED  BY <1>0, <2>1, <2>2, OneFlagChanges
<1>2. ASSUME NEW c \in Calls, NEW op \in {"update", "toggle", "remove"}, NEW f \in Flags,
             Flagging!Find(c, op, f)
      PROVE  FlagsInv'
  <2>1. [op |-> op, flag |-> f, row |-> flags[f]] \in Flagging!Call
    BY <1>0, <1>2 DEF Flagging!Find, Flagging!Stored, Flagging!Call
  <2>2. /\ flagCall' \in [Calls -> Flagging!Call \cup {NoCall}]
        /\ UNCHANGED <<flags, used, updated>>
    BY <1>0, <1>2, <2>1 DEF Flagging!Find
  <2> QED
    BY <1>0, <2>2
    DEF FlagsInv, Flagging!TypeOK, Flagging!UpdateStands, Flagging!Stored
<1>3. ASSUME NEW c \in Calls, flagCall[c] # NoCall, Flagging!End(c)
      PROVE  flagCall' \in [Calls -> Flagging!Call \cup {NoCall}] /\ flagCall[c].flag \in Flags
  BY <1>0, <1>3 DEF Flagging!End, Flagging!Call
<1>4. ASSUME NEW c \in Calls, NEW enabled \in BOOLEAN, NEW text \in Texts,
             Flagging!Update(c, enabled, text)
      PROVE  FlagsInv'
  <2>1. PICK f \in Flags : f = flagCall[c].flag
    BY <1>3, <1>4 DEF Flagging!Update, Flagging!At
  <2> DEFINE row == [flags[f] EXCEPT !.enabled = enabled, !.description = text]
  <2>2. flags[f] # NoFlag /\ flags[f] \in Flagging!Row
    BY <1>0, <1>4, <2>1 DEF Flagging!Update, Flagging!Stored
  <2>3. /\ row \in Flagging!Row /\ row.key = flags[f].key /\ row.description = text
    BY <2>2 DEF Flagging!Row
  <2>4. /\ flags' = [flags EXCEPT ![f] = row] /\ updated' = [updated EXCEPT ![f] = text]
        /\ UNCHANGED used
    BY <1>0, <1>4, <2>1 DEF Flagging!Update
  <2>5. flagCall' \in [Calls -> Flagging!Call \cup {NoCall}]
    BY <1>3, <1>4 DEF Flagging!Update, Flagging!At
  <2> HIDE DEF row
  <2> QED  BY <1>0, <2>2, <2>3, <2>4, <2>5, OneFlagChanges
<1>5. ASSUME NEW c \in Calls, Flagging!Toggle(c)
      PROVE  FlagsInv'
  <2>1. PICK f \in Flags : f = flagCall[c].flag
    BY <1>3, <1>5 DEF Flagging!Toggle, Flagging!At
  <2>2. /\ flags[f] # NoFlag /\ flags[f] \in Flagging!Row /\ flagCall[c] \in Flagging!Call
    BY <1>0, <1>5, <2>1 DEF Flagging!Toggle, Flagging!Stored, Flagging!At
  <2> DEFINE row == [flags[f] EXCEPT !.enabled = ~flagCall[c].row.enabled]
  <2>3. /\ row \in Flagging!Row /\ row.key = flags[f].key
        /\ row.description = flags[f].description
    BY <2>2 DEF Flagging!Row, Flagging!Call
  <2>4. flags' = [flags EXCEPT ![f] = row] /\ UNCHANGED <<used, updated>>
    BY <1>0, <1>5, <2>1 DEF Flagging!Toggle
  <2>5. flagCall' \in [Calls -> Flagging!Call \cup {NoCall}]
    BY <1>3, <1>5 DEF Flagging!Toggle, Flagging!At
  <2> HIDE DEF row
  <2> QED  BY <1>0, <2>2, <2>3, <2>4, <2>5, OneFlagChanges
<1>6. ASSUME NEW c \in Calls, Flagging!Remove(c)
      PROVE  FlagsInv'
  <2>1. PICK f \in Flags : f = flagCall[c].flag
    BY <1>3, <1>6 DEF Flagging!Remove, Flagging!At
  <2>2. flags' = [flags EXCEPT ![f] = NoFlag] /\ UNCHANGED <<used, updated>>
    BY <1>6, <2>1 DEF Flagging!Remove
  <2>3. flagCall' \in [Calls -> Flagging!Call \cup {NoCall}]
    BY <1>3, <1>6 DEF Flagging!Remove, Flagging!At
  <2> QED  BY <1>0, <2>2, <2>3, OneFlagChanges
<1>7. ASSUME NEW c \in Calls, Flagging!CallFails(c)
      PROVE  FlagsInv'
  BY <1>0, <1>3, <1>7
  DEF Flagging!CallFails, FlagsInv, Flagging!TypeOK, Flagging!UpdateStands, Flagging!Stored
<1>8. CASE UNCHANGED Flagging!vars
  BY <1>8
  DEF Flagging!vars, FlagsInv, Flagging!TypeOK, Flagging!UpdateStands, Flagging!Stored
<1> QED
  BY <1>1, <1>2, <1>4, <1>5, <1>6, <1>7, <1>8 DEF Flagging!Next

LEMMA FlagsHold == Flagging!Spec => []FlagsInv
  BY FlagsStart, FlagsStep, PTL DEF Flagging!Spec

\* FeatureFlagsService: a toggle that read its flag before an update leaves the
\* update's description alone, however many handlers overlap.
THEOREM UpdatesStand == Flagging!Spec => []UpdateStands
<1>1. FlagsInv => UpdateStands
  BY DEF FlagsInv, UpdateStands
<1> QED
  BY <1>1, FlagsHold, PTL

\* Flags and handlers keep their types, and a key names one flag.
THEOREM FlagsTypeCorrect == Flagging!Spec => []Flagging!TypeOK
<1>1. FlagsInv => Flagging!TypeOK
  BY DEF FlagsInv
<1> QED
  BY <1>1, FlagsHold, PTL

-----------------------------------------------------------------------------
(* Notifications *)

IsRead == {i \in Items : items[i] # NoItem /\ items[i].isRead}
\* An open socket has a user, a notification has no row before create(), and the
\* rows are finitely many.
HubInv ==
  /\ socket \in [Sockets -> Hub!SocketState]
  /\ \A s \in Sockets : Hub!Live(s) => socket[s].user \in Clients
  /\ connectedUsers = [u \in DOMAIN connectedUsers |-> connectedUsers[u]]
  /\ items \in [Items -> Hub!Item \cup {NoItem}]
  /\ create \in [Items -> {"none", "stored", "sent", "cut"}]
  /\ mark \in [Marks -> Items \cup {NoItem}]
  /\ \A m \in Marks : mark[m] # NoItem => items[mark[m]] # NoItem
  /\ \A i \in Items : create[i] = "none" => items[i] = NoItem
  /\ marked \in Nat /\ restarts \in 0 .. MaxRestarts
  /\ IsFiniteSet({i \in Items : items[i] # NoItem})
HubSafe == HubInv /\ Hub!OnlineIffConnected /\ Hub!NothingMissed
           /\ marked <= Cardinality(IsRead)

LEMMA ReadIsFinite ==
  ASSUME IsFiniteSet({i \in Items : items[i] # NoItem})
  PROVE  IsFiniteSet(IsRead) /\ Cardinality(IsRead) \in Nat
<1>1. IsRead \subseteq {i \in Items : items[i] # NoItem}
  BY DEF IsRead
<1> QED
  BY <1>1, FS_Subset, FS_CardinalityType

LEMMA HubStarts == ASSUME Hub!Init PROVE HubSafe
<1>1. /\ socket = [s \in Sockets |-> [step |-> "new", user |-> NoUser, seen |-> {}]]
      /\ items = [i \in Items |-> NoItem] /\ connectedUsers = [u \in {} |-> {}]
      /\ create = [i \in Items |-> "none"] /\ mark = [m \in Marks |-> NoItem]
      /\ marked = 0 /\ restarts = 0
  BY DEF Hub!Init
<1>2. \A s \in Sockets : ~Hub!Live(s)
  BY <1>1 DEF Hub!Live
<1>3. {i \in Items : items[i] # NoItem} = {} /\ IsRead = {}
  BY <1>1 DEF IsRead
<1>4. HubInv
  <2>1. socket \in [Sockets -> Hub!SocketState]
    BY <1>1 DEF Hub!SocketState
  <2>2. restarts \in 0 .. MaxRestarts /\ marked \in Nat
    BY <1>1
  <2>3. connectedUsers = [u \in DOMAIN connectedUsers |-> connectedUsers[u]]
    BY <1>1
  <2> QED  BY <1>1, <1>2, <1>3, <2>1, <2>2, <2>3, FS_EmptySet DEF HubInv
<1>5. Hub!OnlineIffConnected
  BY <1>1, <1>2 DEF Hub!OnlineIffConnected, Hub!SocketsOf
<1>6. Hub!NothingMissed
  BY <1>1 DEF Hub!NothingMissed
<1> QED
  BY <1>1, <1>3, <1>4, <1>5, <1>6, FS_EmptySet DEF HubSafe

-----------------------------------------------------------------------------
(* Sockets: the rows stand still *)

\* What the steps of sockets and restarts owe, when no row changes.
LEMMA RowsStandStill ==
  ASSUME HubSafe, UNCHANGED <<items, marked>>
  PROVE  /\ items' \in [Items -> Hub!Item \cup {NoItem}] /\ marked' \in Nat
         /\ IsFiniteSet({i \in Items : items'[i] # NoItem})
         /\ marked' <= Cardinality(IsRead')
  BY DEF HubSafe, HubInv, IsRead

LEMMA ConnectKeepsHub ==
  ASSUME HubSafe, NEW s \in Sockets, NEW u \in Clients, Hub!Connect(s, u)
  PROVE  HubSafe'
<1> DEFINE row == [socket[s] EXCEPT !.step = "open", !.user = u]
<1>1. /\ socket[s].step = "new" /\ socket' = [socket EXCEPT ![s] = row]
      /\ UNCHANGED <<items, create, mark, marked, restarts>>
  BY DEF Hub!Connect, HubSafe, HubInv
<1>2. socket \in [Sockets -> Hub!SocketState]
  BY DEF HubSafe, HubInv
<1>3. row \in [step : {"open"}, user : {u}, seen : SUBSET Items]
  BY <1>2 DEF Hub!SocketState
<1> HIDE DEF row
<1>4. /\ socket'[s].step = "open" /\ socket'[s].user = u
      /\ \A z \in Sockets : z # s => socket'[z] = socket[z]
  BY <1>1, <1>2, <1>3
<1>5. socket' \in [Sockets -> Hub!SocketState] /\ Hub!Live(s)' /\ ~Hub!Live(s)
      /\ \A z \in Sockets : z # s => (Hub!Live(z)' <=> Hub!Live(z))
  <2>2. socket' \in [Sockets -> [step : {"new", "open", "listed", "closed"},
                                 user : Clients \cup {NoUser}, seen : SUBSET Items]]
    BY <1>1, <1>2, <1>3 DEF Hub!SocketState
  <2> QED  BY <1>1, <1>2, <1>4, <2>2 DEF Hub!SocketState, Hub!Live
<1>6. HubInv'
  <2>1. connectedUsers' = [v \in DOMAIN connectedUsers' |-> connectedUsers'[v]]
    BY DEF Hub!Connect
  <2>2. \A z \in Sockets : Hub!Live(z)' => socket'[z].user \in Clients
    BY <1>4, <1>5 DEF HubSafe, HubInv
  <2> QED  BY <1>1, <1>5, <2>1, <2>2, RowsStandStill DEF HubSafe, HubInv
<1>7. Hub!OnlineIffConnected'
  <2>1. \A v \in Clients : Hub!SocketsOf(v)' = IF v = u THEN Hub!SocketsOf(u) \cup {s}
                                               ELSE Hub!SocketsOf(v)
    BY <1>4, <1>5 DEF Hub!SocketsOf
  <2>2. /\ DOMAIN connectedUsers = {v \in Clients : Hub!SocketsOf(v) # {}}
        /\ \A v \in DOMAIN connectedUsers : connectedUsers[v] = Hub!SocketsOf(v)
    BY DEF HubSafe, Hub!OnlineIffConnected
  <2>3. connectedUsers' = [v \in DOMAIN connectedUsers \cup {u} |->
          IF v = u THEN (IF u \in DOMAIN connectedUsers THEN connectedUsers[u] ELSE {}) \cup {s}
          ELSE connectedUsers[v]]
    BY DEF Hub!Connect
  <2>4. (IF u \in DOMAIN connectedUsers THEN connectedUsers[u] ELSE {}) = Hub!SocketsOf(u)
    BY <2>2
  <2>5. /\ DOMAIN connectedUsers' = {v \in Clients : Hub!SocketsOf(v)' # {}}
        /\ \A v \in DOMAIN connectedUsers' : connectedUsers'[v] = Hub!SocketsOf(v)'
    BY <2>1, <2>2, <2>3, <2>4
  <2> QED  BY <2>5 DEF Hub!OnlineIffConnected
<1>8. Hub!NothingMissed'
  BY <1>1, <1>4 DEF HubSafe, Hub!NothingMissed, Hub!Of
<1> QED
  BY <1>1, <1>6, <1>7, <1>8, RowsStandStill DEF HubSafe

LEMMA DisconnectKeepsHub ==
  ASSUME HubSafe, NEW s \in Sockets, Hub!Disconnect(s)
  PROVE  HubSafe'
<1> DEFINE u == socket[s].user
<1> DEFINE left == connectedUsers[u] \ {s}
<1>1. /\ Hub!Live(s) /\ socket' = [socket EXCEPT ![s].step = "closed"]
      /\ UNCHANGED <<items, create, mark, marked, restarts>>
      /\ connectedUsers' = IF left = {} THEN Hub!Restrict(connectedUsers, DOMAIN connectedUsers \ {u})
                           ELSE [connectedUsers EXCEPT ![u] = left]
  BY DEF Hub!Disconnect
<1>2. socket \in [Sockets -> Hub!SocketState] /\ u \in Clients
  BY <1>1 DEF HubSafe, HubInv
<1>3. /\ socket' \in [Sockets -> Hub!SocketState] /\ socket'[s].step = "closed"
      /\ \A z \in Sockets : z # s => socket'[z] = socket[z]
  BY <1>1, <1>2 DEF Hub!SocketState
<1>4. ~Hub!Live(s)' /\ \A z \in Sockets : z # s => (Hub!Live(z)' <=> Hub!Live(z))
  BY <1>3 DEF Hub!Live
<1>5. HubInv'
  <2>1. connectedUsers' = [v \in DOMAIN connectedUsers' |-> connectedUsers'[v]]
    <3>1. CASE left = {}
      BY <1>1, <3>1 DEF Hub!Restrict
    <3>2. CASE left # {}
      BY <1>1, <3>2 DEF HubSafe, HubInv
    <3> QED  BY <3>1, <3>2
  <2>2. \A z \in Sockets : Hub!Live(z)' => socket'[z].user \in Clients
    BY <1>3, <1>4 DEF HubSafe, HubInv
  <2> QED  BY <1>1, <1>3, <2>1, <2>2, RowsStandStill DEF HubSafe, HubInv
<1> HIDE DEF u
<1>6. Hub!OnlineIffConnected'
  <2>1. \A v \in Clients : Hub!SocketsOf(v)' = IF v = u THEN Hub!SocketsOf(u) \ {s}
                                               ELSE Hub!SocketsOf(v)
    BY <1>3, <1>4 DEF Hub!SocketsOf, u
  <2>2. /\ DOMAIN connectedUsers = {v \in Clients : Hub!SocketsOf(v) # {}}
        /\ \A v \in DOMAIN connectedUsers : connectedUsers[v] = Hub!SocketsOf(v)
        /\ connectedUsers = [v \in DOMAIN connectedUsers |-> connectedUsers[v]]
    BY DEF HubSafe, HubInv, Hub!OnlineIffConnected
  <2>3. s \in Hub!SocketsOf(u) /\ u \in DOMAIN connectedUsers
    BY <1>1, <1>2, <2>2 DEF Hub!SocketsOf, u
  <2>4. left = Hub!SocketsOf(u) \ {s}
    BY <2>2, <2>3
  <2> HIDE DEF left
  <2>5. /\ DOMAIN connectedUsers' = {v \in Clients : Hub!SocketsOf(v)' # {}}
        /\ \A v \in DOMAIN connectedUsers' : connectedUsers'[v] = Hub!SocketsOf(v)'
    <3>1. CASE left = {}
      <4>1. connectedUsers' = [v \in DOMAIN connectedUsers \ {u} |-> connectedUsers[v]]
        BY <1>1, <3>1 DEF Hub!Restrict
      <4> QED  BY <1>2, <2>1, <2>2, <2>4, <3>1, <4>1
    <3>2. CASE left # {}
      <4>1. connectedUsers' = [connectedUsers EXCEPT ![u] = left]
        BY <1>1, <3>2
      <4> QED  BY <1>2, <2>1, <2>2, <2>3, <2>4, <3>2, <4>1
    <3> QED  BY <3>1, <3>2
  <2> QED  BY <2>5 DEF Hub!OnlineIffConnected
<1>7. Hub!NothingMissed'
  BY <1>1, <1>3 DEF HubSafe, Hub!NothingMissed, Hub!Of
<1> QED
  BY <1>1, <1>5, <1>6, <1>7, RowsStandStill DEF HubSafe

\* Steps that neither open nor close a socket.
LEMMA OnlineStands ==
  ASSUME HubSafe, UNCHANGED connectedUsers,
         \A z \in Sockets : /\ Hub!Live(z)' <=> Hub!Live(z)
                            /\ Hub!Live(z) => socket'[z].user = socket[z].user
  PROVE  /\ Hub!OnlineIffConnected'
         /\ connectedUsers' = [u \in DOMAIN connectedUsers' |-> connectedUsers'[u]]
         /\ \A z \in Sockets : Hub!Live(z)' => socket'[z].user \in Clients
<1>1. \A u \in Clients : Hub!SocketsOf(u)' = Hub!SocketsOf(u)
  BY DEF Hub!SocketsOf
<1>2. Hub!OnlineIffConnected'
  BY <1>1 DEF HubSafe, Hub!OnlineIffConnected
<1> QED
  BY <1>2 DEF HubSafe, HubInv

LEMMA RefuseKeepsHub ==
  ASSUME HubSafe, NEW s \in Sockets, Hub!Refuse(s)
  PROVE  HubSafe'
<1>1. /\ socket[s].step = "new" /\ socket' = [socket EXCEPT ![s].step = "closed"]
      /\ UNCHANGED <<connectedUsers, items, create, mark, marked, restarts>>
      /\ socket \in [Sockets -> Hub!SocketState]
  BY DEF Hub!Refuse, HubSafe, HubInv
<1>2. /\ socket' \in [Sockets -> Hub!SocketState] /\ socket'[s].step = "closed"
      /\ \A z \in Sockets : z # s => socket'[z] = socket[z]
  BY <1>1 DEF Hub!SocketState
<1>3. \A z \in Sockets : /\ Hub!Live(z)' <=> Hub!Live(z)
                         /\ Hub!Live(z) => socket'[z].user = socket[z].user
  BY <1>1, <1>2 DEF Hub!Live
<1>4. HubInv' /\ Hub!OnlineIffConnected'
  BY <1>1, <1>2, <1>3, OnlineStands, RowsStandStill DEF HubSafe, HubInv
<1>5. Hub!NothingMissed'
  BY <1>1, <1>2 DEF HubSafe, Hub!NothingMissed, Hub!Of
<1> QED
  BY <1>1, <1>4, <1>5, RowsStandStill DEF HubSafe

LEMMA ListKeepsHub ==
  ASSUME HubSafe, NEW s \in Sockets, Hub!List(s)
  PROVE  HubSafe'
<1> DEFINE row == [socket[s] EXCEPT !.step = "listed", !.seen = @ \cup Hub!Of(socket[s].user)]
<1>1. /\ socket[s].step = "open" /\ socket' = [socket EXCEPT ![s] = row]
      /\ UNCHANGED <<connectedUsers, items, create, mark, marked, restarts>>
      /\ socket \in [Sockets -> Hub!SocketState]
  BY DEF Hub!List, HubSafe, HubInv
<1>2. Hub!Of(socket[s].user) \subseteq Items
  BY DEF Hub!Of
<1>3. /\ row \in Hub!SocketState /\ row.step = "listed" /\ row.user = socket[s].user
      /\ Hub!Of(socket[s].user) \subseteq row.seen
  BY <1>1, <1>2 DEF Hub!SocketState
<1> HIDE DEF row
<1>4. /\ socket' \in [Sockets -> Hub!SocketState] /\ socket'[s] = row
      /\ \A z \in Sockets : z # s => socket'[z] = socket[z]
  BY <1>1, <1>3
<1>5. \A z \in Sockets : /\ Hub!Live(z)' <=> Hub!Live(z)
                         /\ Hub!Live(z) => socket'[z].user = socket[z].user
  BY <1>1, <1>3, <1>4 DEF Hub!Live
<1>6. HubInv' /\ Hub!OnlineIffConnected'
  BY <1>1, <1>4, <1>5, OnlineStands, RowsStandStill DEF HubSafe, HubInv
<1>7. Hub!NothingMissed'
  BY <1>1, <1>3, <1>4 DEF HubSafe, Hub!NothingMissed, Hub!Of
<1> QED
  BY <1>1, <1>6, <1>7, RowsStandStill DEF HubSafe

LEMMA RestartKeepsHub ==
  ASSUME HubSafe, Hub!Restart
  PROVE  HubSafe'
<1>1. /\ socket' = [s \in Sockets |->
                     IF Hub!Live(s) THEN [socket[s] EXCEPT !.step = "closed"] ELSE socket[s]]
      /\ connectedUsers' = [u \in {} |-> {}] /\ mark' = [m \in Marks |-> NoItem]
      /\ create' = [i \in Items |-> IF create[i] = "stored" THEN "cut" ELSE create[i]]
      /\ restarts < MaxRestarts /\ restarts' = restarts + 1 /\ UNCHANGED <<items, marked>>
  BY DEF Hub!Restart
<1>2. /\ socket \in [Sockets -> Hub!SocketState] /\ restarts \in 0 .. MaxRestarts
      /\ create \in [Items -> {"none", "stored", "sent", "cut"}]
  BY DEF HubSafe, HubInv
<1>3. /\ socket' \in [Sockets -> Hub!SocketState]
      /\ \A s \in Sockets : socket'[s].step \in {"new", "closed"}
  <2> SUFFICES ASSUME NEW s \in Sockets
               PROVE  socket'[s] \in Hub!SocketState /\ socket'[s].step \in {"new", "closed"}
    BY <1>1
  <2>1. CASE Hub!Live(s)
    BY <1>1, <1>2, <2>1 DEF Hub!SocketState
  <2>2. CASE ~Hub!Live(s)
    BY <1>1, <1>2, <2>2 DEF Hub!SocketState, Hub!Live
  <2> QED  BY <2>1, <2>2
<1>4. \A s \in Sockets : ~Hub!Live(s)'
  BY <1>3 DEF Hub!Live
<1>5. restarts' \in 0 .. MaxRestarts
  BY <1>1, <1>2
<1>6. /\ create' \in [Items -> {"none", "stored", "sent", "cut"}]
      /\ \A i \in Items : create'[i] = "none" => create[i] = "none"
  BY <1>1, <1>2
<1>7. connectedUsers' = [u \in DOMAIN connectedUsers' |-> connectedUsers'[u]]
  BY <1>1
<1>8. HubInv'
  BY <1>1, <1>3, <1>4, <1>5, <1>6, <1>7, RowsStandStill DEF HubSafe, HubInv
<1>9. Hub!OnlineIffConnected'
  <2>1. \A u \in Clients : Hub!SocketsOf(u)' = {}
    BY <1>4 DEF Hub!SocketsOf
  <2> QED  BY <1>1, <2>1 DEF Hub!OnlineIffConnected
<1>10. Hub!NothingMissed'
  BY <1>3 DEF Hub!NothingMissed
<1> QED
  BY <1>1, <1>8, <1>9, <1>10, RowsStandStill DEF HubSafe

-----------------------------------------------------------------------------
(* Rows: the sockets stand still, but for what Send() shows them *)

LEMMA StoreKeepsHub ==
  ASSUME HubSafe, NEW i \in Items, NEW u \in Clients, Hub!Store(i, u)
  PROVE  HubSafe'
<1> DEFINE row == [user |-> u, isRead |-> FALSE]
<1>1. /\ create[i] = "none" /\ create' = [create EXCEPT ![i] = "stored"]
      /\ items' = [items EXCEPT ![i] = row]
      /\ UNCHANGED <<socket, connectedUsers, mark, marked, restarts>>
  BY DEF Hub!Store
<1>2. /\ items \in [Items -> Hub!Item \cup {NoItem}] /\ items[i] = NoItem
      /\ create \in [Items -> {"none", "stored", "sent", "cut"}]
  BY <1>1 DEF HubSafe, HubInv
<1>3. row \in Hub!Item /\ row # NoItem /\ row.user = u /\ row.isRead = FALSE
  <2>1. row \in Hub!Item /\ row.user = u /\ row.isRead = FALSE
    BY DEF Hub!Item
  <2> HIDE DEF row
  <2> QED  BY <2>1
<1> HIDE DEF row
<1>4. /\ items' \in [Items -> Hub!Item \cup {NoItem}] /\ items'[i] = row
      /\ \A z \in Items : z # i => items'[z] = items[z] /\ create'[z] = create[z]
      /\ create' \in [Items -> {"none", "stored", "sent", "cut"}] /\ create'[i] = "stored"
  BY <1>1, <1>2, <1>3
<1>5. \A z \in Sockets : /\ Hub!Live(z)' <=> Hub!Live(z)
                         /\ Hub!Live(z) => socket'[z].user = socket[z].user
  BY <1>1 DEF Hub!Live
<1>6. IsFiniteSet({z \in Items : items'[z] # NoItem})
  <2>1. {z \in Items : items'[z] # NoItem} = {z \in Items : items[z] # NoItem} \cup {i}
    BY <1>3, <1>4
  <2>2. IsFiniteSet({z \in Items : items[z] # NoItem} \cup {i})
    BY FS_AddElement DEF HubSafe, HubInv
  <2> QED  BY <2>1, <2>2
<1>7. IsRead' = IsRead
  BY <1>2, <1>3, <1>4 DEF IsRead
<1>8. \A m \in Marks : mark'[m] # NoItem => items'[mark'[m]] # NoItem
  BY <1>1, <1>3, <1>4 DEF HubSafe, HubInv
<1>9. HubInv' /\ Hub!OnlineIffConnected'
  BY <1>1, <1>3, <1>4, <1>5, <1>6, <1>8, OnlineStands DEF HubSafe, HubInv
<1>10. Hub!NothingMissed'
  BY <1>1, <1>4 DEF HubSafe, Hub!NothingMissed, Hub!Of
<1> QED
  BY <1>1, <1>7, <1>9, <1>10 DEF HubSafe

LEMMA SendKeepsHub ==
  ASSUME HubSafe, NEW i \in Items, Hub!Send(i)
  PROVE  HubSafe'
<1> DEFINE u == items[i].user
<1>1. /\ socket' = [s \in Sockets |-> IF s \in Hub!SocketsOf(u)
                                      THEN [socket[s] EXCEPT !.seen = @ \cup {i}]
                                      ELSE socket[s]]
      /\ create[i] = "stored" /\ create' = [create EXCEPT ![i] = "sent"]
      /\ UNCHANGED <<connectedUsers, items, mark, marked, restarts>>
  BY DEF Hub!Send, Hub!Deliver
<1>2. /\ socket \in [Sockets -> Hub!SocketState]
      /\ create \in [Items -> {"none", "stored", "sent", "cut"}]
  BY DEF HubSafe, HubInv
<1> HIDE DEF u
<1>3. \A s \in Sockets :
        /\ socket'[s] \in Hub!SocketState /\ socket'[s].step = socket[s].step
        /\ socket'[s].user = socket[s].user /\ socket[s].seen \subseteq socket'[s].seen
        /\ s \in Hub!SocketsOf(u) => i \in socket'[s].seen
  <2> SUFFICES ASSUME NEW s \in Sockets
               PROVE  /\ socket'[s] \in Hub!SocketState /\ socket'[s].step = socket[s].step
                      /\ socket'[s].user = socket[s].user
                      /\ socket[s].seen \subseteq socket'[s].seen
                      /\ s \in Hub!SocketsOf(u) => i \in socket'[s].seen
    OBVIOUS
  <2>1. CASE s \in Hub!SocketsOf(u)
    BY <1>1, <1>2, <2>1 DEF Hub!SocketState
  <2>2. CASE s \notin Hub!SocketsOf(u)
    BY <1>1, <1>2, <2>2
  <2> QED  BY <2>1, <2>2
<1>4. socket' \in [Sockets -> Hub!SocketState]
  BY <1>1, <1>3
<1>5. /\ create' \in [Items -> {"none", "stored", "sent", "cut"}]
      /\ \A z \in Items : z # i => create'[z] = create[z]
      /\ create'[i] = "sent"
  BY <1>1, <1>2
<1>6. \A z \in Sockets : /\ Hub!Live(z)' <=> Hub!Live(z)
                         /\ Hub!Live(z) => socket'[z].user = socket[z].user
  BY <1>3 DEF Hub!Live
<1>7. HubInv' /\ Hub!OnlineIffConnected'
  BY <1>1, <1>4, <1>5, <1>6, OnlineStands, RowsStandStill DEF HubSafe, HubInv
<1>8. Hub!NothingMissed'
  <2> SUFFICES ASSUME NEW s \in Sockets, socket'[s].step = "listed",
                      NEW z \in Items, items[z] # NoItem, items[z].user = socket[s].user,
                      create'[z] # "stored"
               PROVE  z \in socket'[s].seen
    BY <1>1, <1>3 DEF Hub!NothingMissed, Hub!Of
  <2>1. CASE z = i
    BY <1>3, <2>1 DEF Hub!SocketsOf, Hub!Live, u
  <2>2. CASE z # i
    BY <1>3, <1>5, <2>2 DEF HubSafe, Hub!NothingMissed, Hub!Of
  <2> QED  BY <2>1, <2>2
<1> QED
  BY <1>1, <1>7, <1>8, RowsStandStill DEF HubSafe

LEMMA FindItemKeepsHub ==
  ASSUME HubSafe, NEW m \in Marks, NEW u \in Clients, NEW i \in Items, Hub!FindItem(m, u, i)
  PROVE  HubSafe'
<1>1. /\ items[i] # NoItem /\ mark' = [mark EXCEPT ![m] = i]
      /\ UNCHANGED <<socket, connectedUsers, items, create, marked, restarts>>
  BY DEF Hub!FindItem, Hub!Of
<1>2. mark \in [Marks -> Items \cup {NoItem}]
  BY DEF HubSafe, HubInv
<1>3. /\ mark' \in [Marks -> Items \cup {NoItem}]
      /\ \A n \in Marks : mark'[n] # NoItem => items'[mark'[n]] # NoItem
  BY <1>1, <1>2 DEF HubSafe, HubInv
<1>4. \A z \in Sockets : /\ Hub!Live(z)' <=> Hub!Live(z)
                         /\ Hub!Live(z) => socket'[z].user = socket[z].user
  BY <1>1 DEF Hub!Live
<1>5. HubInv' /\ Hub!OnlineIffConnected'
  BY <1>1, <1>3, <1>4, OnlineStands, RowsStandStill DEF HubSafe, HubInv
<1>6. Hub!NothingMissed'
  BY <1>1 DEF HubSafe, Hub!NothingMissed, Hub!Of
<1> QED
  BY <1>1, <1>5, <1>6, RowsStandStill DEF HubSafe

\* Rows that only become read: none appears or goes, and none changes hands.
LEMMA OnlyRead ==
  ASSUME HubSafe, items' \in [Items -> Hub!Item \cup {NoItem}],
         \A i \in Items : /\ items'[i] # NoItem <=> items[i] # NoItem
                          /\ items[i] # NoItem => items'[i].user = items[i].user,
         mark' \in [Marks -> Items \cup {NoItem}],
         \A m \in Marks : mark'[m] # NoItem => mark'[m] = mark[m],
         UNCHANGED <<socket, connectedUsers, create, restarts>>, marked' \in Nat
  PROVE  HubInv' /\ Hub!OnlineIffConnected' /\ Hub!NothingMissed'
<1>1. \A z \in Sockets : /\ Hub!Live(z)' <=> Hub!Live(z)
                         /\ Hub!Live(z) => socket'[z].user = socket[z].user
  BY DEF Hub!Live
<1>2. {i \in Items : items'[i] # NoItem} = {i \in Items : items[i] # NoItem}
  OBVIOUS
<1>3. \A m \in Marks : mark'[m] # NoItem => items'[mark'[m]] # NoItem
  BY DEF HubSafe, HubInv
<1>4. HubInv' /\ Hub!OnlineIffConnected'
  BY <1>1, <1>2, <1>3, OnlineStands DEF HubSafe, HubInv
<1>5. Hub!NothingMissed'
  BY DEF HubSafe, Hub!NothingMissed, Hub!Of
<1> QED
  BY <1>4, <1>5

LEMMA MarkAsReadKeepsHub ==
  ASSUME HubSafe, NEW m \in Marks, Hub!MarkAsRead(m)
  PROVE  HubSafe'
<1>1. /\ mark[m] # NoItem /\ mark' = [mark EXCEPT ![m] = NoItem]
      /\ items' = [items EXCEPT ![mark[m]].isRead = TRUE]
      /\ UNCHANGED <<socket, connectedUsers, create, marked, restarts>>
  BY DEF Hub!MarkAsRead
<1>2. /\ mark \in [Marks -> Items \cup {NoItem}] /\ items[mark[m]] # NoItem
      /\ items \in [Items -> Hub!Item \cup {NoItem}] /\ marked \in Nat
  BY <1>1 DEF HubSafe, HubInv
<1>3. PICK i \in Items : i = mark[m]
  BY <1>1, <1>2
<1> DEFINE row == [items[i] EXCEPT !.isRead = TRUE]
<1>4. row \in Hub!Item /\ row # NoItem /\ row.user = items[i].user /\ row.isRead
  BY <1>2, <1>3 DEF Hub!Item
<1>5. items' = [items EXCEPT ![i] = row]
  BY <1>1, <1>3
<1> HIDE DEF row
<1>6. /\ items' \in [Items -> Hub!Item \cup {NoItem}] /\ items'[i] = row
      /\ \A z \in Items : z # i => items'[z] = items[z]
      /\ mark' \in [Marks -> Items \cup {NoItem}]
      /\ \A n \in Marks : mark'[n] # NoItem => mark'[n] = mark[n]
  BY <1>1, <1>2, <1>4, <1>5
<1>7. HubInv' /\ Hub!OnlineIffConnected' /\ Hub!NothingMissed'
  BY <1>1, <1>2, <1>3, <1>4, <1>6, OnlyRead
<1>8. IsRead \subseteq IsRead'
  BY <1>4, <1>6 DEF IsRead
<1>9. IsFiniteSet(IsRead') /\ Cardinality(IsRead') \in Nat
  <2>1. IsRead' \subseteq {z \in Items : items'[z] # NoItem}
    BY DEF IsRead
  <2> QED  BY <1>7, <2>1, FS_Subset, FS_CardinalityType DEF HubInv
<1>10. Cardinality(IsRead) <= Cardinality(IsRead') /\ Cardinality(IsRead) \in Nat
  BY <1>8, <1>9, FS_Subset, FS_CardinalityType
<1>11. marked' <= Cardinality(IsRead')
  BY <1>1, <1>2, <1>9, <1>10 DEF HubSafe
<1> QED
  BY <1>7, <1>11 DEF HubSafe

LEMMA MarkAllKeepsHub ==
  ASSUME HubSafe, NEW u \in Clients, Hub!MarkAllAsRead(u)
  PROVE  HubSafe'
<1> DEFINE fresh == Hub!Unread(u)
<1>1. /\ items' = [i \in Items |-> IF i \in fresh THEN [items[i] EXCEPT !.isRead = TRUE]
                                   ELSE items[i]]
      /\ marked' = marked + Cardinality(fresh)
      /\ UNCHANGED <<socket, connectedUsers, create, mark, restarts>>
  BY SameCardinality DEF Hub!MarkAllAsRead
<1>2. /\ items \in [Items -> Hub!Item \cup {NoItem}] /\ marked \in Nat
      /\ IsFiniteSet({i \in Items : items[i] # NoItem})
      /\ mark \in [Marks -> Items \cup {NoItem}] /\ marked <= Cardinality(IsRead)
  BY DEF HubSafe, HubInv
<1>3. /\ fresh \subseteq {i \in Items : items[i] # NoItem}
      /\ \A i \in fresh : ~items[i].isRead
  BY DEF Hub!Unread, Hub!Of
<1> HIDE DEF fresh
<1>4. \A i \in Items : /\ items'[i] \in Hub!Item \cup {NoItem}
                       /\ items'[i] # NoItem <=> items[i] # NoItem
                       /\ items[i] # NoItem => /\ items'[i].user = items[i].user
                                               /\ items'[i].isRead <=> items[i].isRead \/ i \in fresh
  <2> SUFFICES ASSUME NEW i \in Items
               PROVE  /\ items'[i] \in Hub!Item \cup {NoItem}
                      /\ items'[i] # NoItem <=> items[i] # NoItem
                      /\ items[i] # NoItem => /\ items'[i].user = items[i].user
                                              /\ items'[i].isRead <=> items[i].isRead \/ i \in fresh
    OBVIOUS
  <2>1. CASE i \in fresh
    <3> DEFINE row == [items[i] EXCEPT !.isRead = TRUE]
    <3>1. items[i] \in Hub!Item
      BY <1>2, <1>3, <2>1
    <3>2. row \in Hub!Item /\ row # NoItem /\ row.user = items[i].user /\ row.isRead
      BY <3>1 DEF Hub!Item
    <3>3. items'[i] = row
      BY <1>1, <2>1
    <3> HIDE DEF row
    <3> QED  BY <1>3, <2>1, <3>2, <3>3
  <2>2. CASE i \notin fresh
    BY <1>1, <1>2, <2>2
  <2> QED  BY <2>1, <2>2
<1>5. items' \in [Items -> Hub!Item \cup {NoItem}]
  BY <1>1, <1>4
<1>6. /\ IsFiniteSet(fresh) /\ Cardinality(fresh) \in Nat
      /\ IsFiniteSet(IsRead) /\ Cardinality(IsRead) \in Nat
  BY <1>2, <1>3, FS_Subset, FS_CardinalityType, ReadIsFinite
<1>7. marked' \in Nat
  BY <1>1, <1>2, <1>6
<1>8. HubInv' /\ Hub!OnlineIffConnected' /\ Hub!NothingMissed'
  BY <1>1, <1>2, <1>4, <1>5, <1>7, OnlyRead
<1>9. IsRead' = IsRead \cup fresh /\ IsRead \cap fresh = {}
  BY <1>3, <1>4 DEF IsRead
<1>10. Cardinality(IsRead') = Cardinality(IsRead) + Cardinality(fresh)
  <2>1. Cardinality(IsRead \cup fresh)
          = Cardinality(IsRead) + Cardinality(fresh) - Cardinality(IsRead \cap fresh)
    BY <1>6, FS_Union
  <2>2. Cardinality(IsRead \cap fresh) = 0
    BY <1>9, FS_EmptySet
  <2>3. Cardinality(IsRead \cup fresh) = Cardinality(IsRead) + Cardinality(fresh)
    BY <1>6, <2>1, <2>2
  <2> QED  BY <1>9, <2>3
<1>11. marked' <= Cardinality(IsRead')
  BY <1>1, <1>2, <1>6, <1>10
<1> QED
  BY <1>8, <1>11 DEF HubSafe

LEMMA HubStep ==
  ASSUME HubSafe, [Hub!Next]_Hub!vars
  PROVE  HubSafe'
<1>1. CASE UNCHANGED Hub!vars
  BY <1>1
  DEF Hub!vars, HubSafe, HubInv, IsRead, Hub!Live, Hub!SocketsOf, Hub!Of,
      Hub!OnlineIffConnected, Hub!NothingMissed
<1>2. CASE Hub!Next
  BY <1>2, ConnectKeepsHub, RefuseKeepsHub, DisconnectKeepsHub, ListKeepsHub, StoreKeepsHub,
     SendKeepsHub, MarkAsReadKeepsHub, FindItemKeepsHub, MarkAllKeepsHub, RestartKeepsHub
  DEF Hub!Next
<1> QED
  BY <1>1, <1>2

LEMMA HubHolds == Hub!Spec => []HubSafe
  BY HubStarts, HubStep, PTL DEF Hub!Spec

\* NotificationsGateway: a user is in the map exactly while one of its sockets is
\* open, and with all of them, for any number of sockets and users.
THEOREM OnlineAreConnected == Hub!Spec => []OnlineIffConnected
<1>1. HubSafe => OnlineIffConnected
  BY DEF HubSafe, OnlineIffConnected
<1> QED
  BY <1>1, HubHolds, PTL

\* create(), findAllForUser(): a connected client that asked for its list has
\* seen every notification of its user whose create() is not under way.
THEOREM NothingIsMissed == Hub!Spec => []NothingMissed
<1>1. HubSafe => NothingMissed
  BY DEF HubSafe, NothingMissed
<1> QED
  BY <1>1, HubHolds, PTL

\* markAllAsRead(): no notification is counted twice, however many calls overlap.
THEOREM ReadsAreCountedOnce == Hub!Spec => []CountedOnce
<1>1. HubSafe => CountedOnce
  BY SameCardinality DEF HubSafe, IsRead, CountedOnce, Hub!CountedOnce
<1> QED
  BY <1>1, HubHolds, PTL

\* Sockets, the map, rows and handlers keep their types.
THEOREM HubTypeCorrect == Hub!Spec => []Hub!TypeOK
<1>1. HubSafe => Hub!TypeOK
  <2> SUFFICES ASSUME HubSafe PROVE Hub!TypeOK
    OBVIOUS
  <2>1. DOMAIN connectedUsers \in SUBSET Clients
        /\ connectedUsers \in [DOMAIN connectedUsers -> SUBSET Sockets]
    <3>1. connectedUsers = [u \in DOMAIN connectedUsers |-> connectedUsers[u]]
      BY DEF HubSafe, HubInv
    <3>2. \A u \in DOMAIN connectedUsers : connectedUsers[u] \in SUBSET Sockets
      BY DEF HubSafe, Hub!OnlineIffConnected, Hub!SocketsOf
    <3>3. DOMAIN connectedUsers \in SUBSET Clients
      BY DEF HubSafe, Hub!OnlineIffConnected
    <3> QED  BY <3>1, <3>2, <3>3
  <2> QED  BY <2>1 DEF HubSafe, HubInv, Hub!TypeOK
<1> QED
  BY <1>1, HubHolds, PTL
-----------------------------------------------------------------------------
(* Webhooks *)

\* What a delivery, its rows in the log and its traffic say of each other.  Each
\* approval but the last was followed by something that failed; what was logged
\* was answered; and only a delivery that gave up is refused.
GoodDelivery(r, log, got) ==
  /\ got.approved <= got.received /\ r.attempt <= MaxRetries + 1
  /\ r.step = "none" => /\ r.attempt = 0 /\ got.received = 0
                        /\ log.approved = 0 /\ log.refused = 0 /\ log.gaveUp = 0
  /\ r.step \in {"send", "answered", "approved"} => r.attempt <= MaxRetries
  /\ r.step \in {"send", "exhausted", "refused"} => got.received <= r.attempt
  /\ r.step \in {"answered", "approved"} => got.received <= r.attempt + 1
  /\ got.received <= MaxRetries + 1
  /\ got.approved <= r.upset + 1
  /\ r.step \in {"send", "exhausted", "refused"} => got.approved <= r.upset
  /\ r.step = "answered" /\ ~r.ok => got.approved <= r.upset
  /\ log.approved <= got.approved /\ log.refused <= got.received - got.approved
  /\ r.step = "answered" /\ r.ok => log.approved + 1 <= got.approved
  /\ r.step = "answered" /\ ~r.ok => log.refused + 1 <= got.received - got.approved
  /\ log.approved > 0 => r.step \in {"approved", "done", "lost"} \/ r.upset > 0
  /\ log.gaveUp > 0 => r.step \in {"refused", "done", "lost"}
  /\ log.approved > 0 /\ log.gaveUp > 0 => r.upset > 0
  /\ r.step = "refused" => log.gaveUp > 0

DeliveriesInv ==
  /\ hooks \in [Hooks -> Webhooks!Hook] /\ delivery \in [Webhooks!Pairs -> Webhooks!Delivery]
  /\ logs \in [Webhooks!Pairs -> Webhooks!LogRows]
  /\ sent \in [Webhooks!Pairs -> Webhooks!Traffic] /\ faults \in Nat
  /\ triggered \subseteq Events /\ IsFiniteSet(triggered)
  /\ \A d \in Webhooks!Pairs : /\ GoodDelivery(delivery[d], logs[d], sent[d])
                               /\ delivery[d].step # "none" => d[1] \in triggered
\* The deliveries whose failure was counted, or never will be.
Charged(h) == {e \in Events : logs[<<e, h>>].gaveUp > 0 /\ delivery[<<e, h>>].step # "refused"}
ChargesInv == \A h \in Hooks : hooks[h].failureCount <= Cardinality(Charged(h))
WebhooksInv == DeliveriesInv /\ ChargesInv /\ Webhooks!LossIsExplained

LEMMA WebhooksStart == ASSUME Webhooks!Init PROVE WebhooksInv
<1> DEFINE log == [approved |-> 0, refused |-> 0, gaveUp |-> 0]
<1> DEFINE got == [received |-> 0, approved |-> 0]
<1>1. /\ hooks = InitialHooks /\ delivery = [d \in Webhooks!Pairs |-> Webhooks!Idle]
      /\ triggered = {} /\ logs = [d \in Webhooks!Pairs |-> log]
      /\ sent = [d \in Webhooks!Pairs |-> got] /\ faults = 0
  BY DEF Webhooks!Init
<1>2. /\ Webhooks!Idle \in Webhooks!Delivery /\ log \in Webhooks!LogRows
      /\ got \in Webhooks!Traffic /\ Webhooks!Idle.step = "none"
      /\ Webhooks!Idle.attempt = 0 /\ Webhooks!Idle.upset = 0
      /\ got.received = 0 /\ got.approved = 0
      /\ log.approved = 0 /\ log.refused = 0 /\ log.gaveUp = 0
  BY DEF Webhooks!Idle, Webhooks!Delivery, Webhooks!LogRows, Webhooks!Traffic
<1> HIDE DEF log, got
<1>3. GoodDelivery(Webhooks!Idle, log, got)
  BY <1>2 DEF GoodDelivery
<1>4. DeliveriesInv
  BY <1>1, <1>2, <1>3, FS_EmptySet DEF DeliveriesInv
<1>5. ChargesInv
  <2> SUFFICES ASSUME NEW h \in Hooks PROVE hooks[h].failureCount <= Cardinality(Charged(h))
    BY DEF ChargesInv
  <2>1. Charged(h) = {}
    BY <1>1, <1>2 DEF Charged, Webhooks!Pairs
  <2>2. Cardinality(Charged(h)) = 0
    BY <2>1, FS_EmptySet
  <2> QED  BY <1>1, <2>2
<1>6. Webhooks!LossIsExplained
  BY <1>1, <1>2 DEF Webhooks!LossIsExplained
<1> QED
  BY <1>4, <1>5, <1>6 DEF WebhooksInv

-----------------------------------------------------------------------------
(* What a step owes: the deliveries, the charges, the losses *)

LEMMA OneDelivery ==
  ASSUME DeliveriesInv, NEW d \in Webhooks!Pairs,
         delivery' \in [Webhooks!Pairs -> Webhooks!Delivery],
         logs' \in [Webhooks!Pairs -> Webhooks!LogRows],
         sent' \in [Webhooks!Pairs -> Webhooks!Traffic],
         \A e \in Webhooks!Pairs : e # d => /\ delivery'[e] = delivery[e]
                                            /\ logs'[e] = logs[e] /\ sent'[e] = sent[e],
         GoodDelivery(delivery'[d], logs'[d], sent'[d]), delivery[d].step # "none",
         UNCHANGED triggered, hooks' \in [Hooks -> Webhooks!Hook], faults' \in Nat
  PROVE  DeliveriesInv'
<1>1. \A e \in Webhooks!Pairs : /\ GoodDelivery(delivery'[e], logs'[e], sent'[e])
                                /\ delivery'[e].step # "none" => e[1] \in triggered
  BY DEF DeliveriesInv
<1> QED
  BY <1>1 DEF DeliveriesInv

\* Finitely many deliveries were charged: all were triggered.
LEMMA ChargedIsFinite ==
  ASSUME DeliveriesInv, NEW h \in Hooks
  PROVE  IsFiniteSet(Charged(h)) /\ Cardinality(Charged(h)) \in Nat
<1>1. Charged(h) \subseteq triggered
  <2> SUFFICES ASSUME NEW e \in Charged(h) PROVE e \in triggered
    OBVIOUS
  <2>1. e \in Events /\ <<e, h>> \in Webhooks!Pairs /\ logs[<<e, h>>].gaveUp > 0
    BY DEF Charged, Webhooks!Pairs
  <2>2. delivery[<<e, h>>].step # "none"
    BY <2>1 DEF DeliveriesInv, GoodDelivery
  <2>3. <<e, h>>[1] \in triggered
    BY <2>1, <2>2 DEF DeliveriesInv
  <2> QED  BY <2>3
<1> QED
  BY <1>1, FS_Subset, FS_CardinalityType DEF DeliveriesInv

ChargesFinite == \A h \in Hooks : IsFiniteSet(Charged(h))
LEMMA ChargesAreFinite == DeliveriesInv => ChargesFinite
  BY ChargedIsFinite DEF ChargesFinite

\* Steps that count no failure and take no delivery off the charged ones.
LEMMA ChargesStand ==
  ASSUME WebhooksInv, DeliveriesInv',
         \A h \in Hooks : /\ Charged(h) \subseteq Charged(h)'
                          /\ hooks'[h].failureCount <= hooks[h].failureCount
  PROVE  ChargesInv'
<1> SUFFICES ASSUME NEW h \in Hooks
             PROVE  hooks'[h].failureCount <= Cardinality(Charged(h)')
  BY DEF ChargesInv
<1>1. /\ IsFiniteSet(Charged(h)) /\ Cardinality(Charged(h)) \in Nat
      /\ hooks[h].failureCount <= Cardinality(Charged(h))
  BY ChargedIsFinite DEF WebhooksInv, ChargesInv
<1>2. IsFiniteSet(Charged(h)')
  <2>1. ChargesFinite'
    BY ChargesAreFinite, PTL
  <2> QED  BY <2>1 DEF ChargesFinite
<1>3. Cardinality(Charged(h)) <= Cardinality(Charged(h)') /\ Cardinality(Charged(h)') \in Nat
  BY <1>2, FS_Subset, FS_CardinalityType
<1>4. hooks[h] \in Webhooks!Hook /\ hooks'[h] \in Webhooks!Hook
  BY DEF WebhooksInv, DeliveriesInv
<1>5. hooks[h].failureCount \in Nat /\ hooks'[h].failureCount \in Nat
  BY <1>4 DEF Webhooks!Hook
<1> QED
  BY <1>1, <1>3, <1>5

LEMMA LossStands ==
  ASSUME WebhooksInv, faults' \in Nat, faults <= faults',
         \A d \in Webhooks!Pairs : delivery'[d].step = "lost" =>
           delivery[d].step = "lost" \/ faults' > 0 \/ \E h \in Hooks : hooks'[h].status = "gone",
         \A h \in Hooks : hooks[h].status = "gone" => hooks'[h].status = "gone"
  PROVE  Webhooks!LossIsExplained'
<1>1. faults \in Nat
  BY DEF WebhooksInv, DeliveriesInv
<1>2. faults > 0 => faults' > 0
  BY <1>1
<1> QED
  BY <1>2 DEF WebhooksInv, Webhooks!LossIsExplained

-----------------------------------------------------------------------------
(* The steps of a delivery *)

LEMMA RoundFields ==
  ASSUME NEW r \in Webhooks!Delivery
  PROVE  /\ Webhooks!NextRound(r) \in Webhooks!Delivery
         /\ Webhooks!Upset(Webhooks!NextRound(r)) \in Webhooks!Delivery
         /\ Webhooks!NextRound(r).attempt = r.attempt + 1
         /\ Webhooks!NextRound(r).step = IF r.attempt < MaxRetries THEN "send" ELSE "exhausted"
         /\ Webhooks!NextRound(r).ok = r.ok /\ Webhooks!NextRound(r).upset = r.upset
         /\ Webhooks!Upset(Webhooks!NextRound(r)).attempt = r.attempt + 1
         /\ Webhooks!Upset(Webhooks!NextRound(r)).step
              = IF r.attempt < MaxRetries THEN "send" ELSE "exhausted"
         /\ Webhooks!Upset(Webhooks!NextRound(r)).ok = r.ok
         /\ Webhooks!Upset(Webhooks!NextRound(r)).upset = r.upset + 1
<1>1. r.attempt + 1 \in Nat /\ r.upset + 1 \in Nat
  BY DEF Webhooks!Delivery
<1> QED
  BY <1>1 DEF Webhooks!NextRound, Webhooks!Upset, Webhooks!Delivery

\* What is known of a delivery before its step.
LEMMA Before ==
  ASSUME DeliveriesInv, NEW d \in Webhooks!Pairs
  PROVE  /\ delivery[d] \in Webhooks!Delivery /\ logs[d] \in Webhooks!LogRows
         /\ sent[d] \in Webhooks!Traffic /\ GoodDelivery(delivery[d], logs[d], sent[d])
         /\ d[1] \in Events /\ d[2] \in Hooks
         /\ delivery[d].attempt \in Nat /\ delivery[d].upset \in Nat
         /\ delivery[d].ok \in BOOLEAN
         /\ logs[d].approved \in Nat /\ logs[d].refused \in Nat /\ logs[d].gaveUp \in Nat
         /\ sent[d].received \in Nat /\ sent[d].approved \in Nat
         /\ hooks[d[2]] \in Webhooks!Hook /\ hooks[d[2]].failureCount \in Nat
<1>1. /\ delivery[d] \in Webhooks!Delivery /\ logs[d] \in Webhooks!LogRows
      /\ sent[d] \in Webhooks!Traffic /\ GoodDelivery(delivery[d], logs[d], sent[d])
  BY DEF DeliveriesInv
<1>2. d[1] \in Events /\ d[2] \in Hooks
  BY DEF Webhooks!Pairs
<1>3. hooks[d[2]] \in Webhooks!Hook
  BY <1>2 DEF DeliveriesInv
<1> QED
  BY <1>1, <1>2, <1>3
  DEF Webhooks!Delivery, Webhooks!LogRows, Webhooks!Traffic, Webhooks!Hook

\* Steps of one delivery that charge nobody.
LEMMA NobodyCharged ==
  ASSUME WebhooksInv, DeliveriesInv', NEW d \in Webhooks!Pairs,
         \A e \in Webhooks!Pairs : e # d => delivery'[e] = delivery[e] /\ logs'[e] = logs[e],
         logs'[d].gaveUp = logs[d].gaveUp \/ delivery[d].step = "exhausted",
         delivery[d].step # "refused" \/ delivery'[d].step # "refused",
         delivery'[d].step = "refused" => logs[d].gaveUp = 0,
         \A h \in Hooks : hooks'[h].failureCount <= hooks[h].failureCount
  PROVE  ChargesInv'
<1>1. ASSUME NEW h \in Hooks, NEW e \in Charged(h)
      PROVE  e \in Charged(h)'
  <2>1. /\ e \in Events /\ <<e, h>> \in Webhooks!Pairs /\ logs[<<e, h>>].gaveUp > 0
        /\ delivery[<<e, h>>].step # "refused"
    BY <1>1 DEF Charged, Webhooks!Pairs
  <2>2. logs'[<<e, h>>].gaveUp > 0 /\ delivery'[<<e, h>>].step # "refused"
    <3>1. CASE <<e, h>> = d
      <4>1. logs[d].gaveUp > 0 /\ delivery[d].step # "exhausted"
        BY <2>1, <3>1 DEF WebhooksInv, DeliveriesInv, GoodDelivery
      <4>2. logs[d].gaveUp # 0
        BY <4>1, Before DEF WebhooksInv
      <4> QED  BY <2>1, <3>1, <4>1, <4>2
    <3>2. CASE <<e, h>> # d
      BY <2>1, <3>2
    <3> QED  BY <3>1, <3>2
  <2> QED  BY <2>1, <2>2 DEF Charged
<1>2. \A h \in Hooks : Charged(h) \subseteq Charged(h)'
  BY <1>1
<1> QED
  BY <1>2, ChargesStand

LEMMA CountsStand ==
  ASSUME WebhooksInv, UNCHANGED hooks
  PROVE  \A h \in Hooks : hooks'[h].failureCount <= hooks[h].failureCount
  BY DEF WebhooksInv, DeliveriesInv, Webhooks!Hook

LEMMA AttemptStep ==
  ASSUME WebhooksInv, NEW d \in Webhooks!Pairs, NEW reached \in BOOLEAN,
         NEW answered \in BOOLEAN, NEW ok \in BOOLEAN,
         Webhooks!Attempt(d, reached, answered, ok)
  PROVE  WebhooksInv'
<1> DEFINE r == delivery[d]
<1> DEFINE got == sent[d]
<1> DEFINE newGot == [got EXCEPT !.received = IF reached THEN @ + 1 ELSE @,
                                 !.approved = IF reached /\ ok THEN @ + 1 ELSE @]
<1> DEFINE newRow == IF answered THEN [r EXCEPT !.step = "answered", !.ok = ok]
                     ELSE Webhooks!Upset(Webhooks!NextRound(r))
<1>1. /\ r.step = "send" /\ (answered => reached) /\ sent' = [sent EXCEPT ![d] = newGot]
      /\ delivery' = [delivery EXCEPT ![d] = newRow]
      /\ UNCHANGED <<hooks, triggered, logs, faults>>
      /\ delivery \in [Webhooks!Pairs -> Webhooks!Delivery]
      /\ sent \in [Webhooks!Pairs -> Webhooks!Traffic]
  BY DEF Webhooks!Attempt, WebhooksInv, DeliveriesInv
<1>2. /\ r \in Webhooks!Delivery /\ got \in Webhooks!Traffic /\ GoodDelivery(r, logs[d], got)
      /\ r.attempt \in Nat /\ r.upset \in Nat /\ logs[d].approved \in Nat
      /\ logs[d].refused \in Nat /\ logs[d].gaveUp \in Nat
      /\ got.received \in Nat /\ got.approved \in Nat
  BY Before DEF WebhooksInv
<1>3. /\ newGot \in Webhooks!Traffic
      /\ newGot.received = IF reached THEN got.received + 1 ELSE got.received
      /\ newGot.approved = IF reached /\ ok THEN got.approved + 1 ELSE got.approved
  <2>1. got.received + 1 \in Nat /\ got.approved + 1 \in Nat
    BY <1>2
  <2> QED  BY <1>2, <2>1 DEF Webhooks!Traffic
<1>4. /\ newRow \in Webhooks!Delivery
      /\ answered => /\ newRow.step = "answered" /\ newRow.ok = ok
                     /\ newRow.attempt = r.attempt /\ newRow.upset = r.upset
      /\ ~answered => /\ newRow.step = IF r.attempt < MaxRetries THEN "send" ELSE "exhausted"
                      /\ newRow.attempt = r.attempt + 1 /\ newRow.upset = r.upset + 1
  <2>1. CASE answered
    BY <1>2, <2>1 DEF Webhooks!Delivery
  <2>2. CASE ~answered
    BY <1>2, <2>2, RoundFields
  <2> QED  BY <2>1, <2>2
<1> HIDE DEF newGot, newRow
<1>5. GoodDelivery(newRow, logs[d], newGot)
  <2>1. CASE answered
    BY <1>1, <1>2, <1>3, <1>4, <2>1 DEF GoodDelivery
  <2>2. CASE ~answered /\ r.attempt < MaxRetries
    BY <1>1, <1>2, <1>3, <1>4, <2>2 DEF GoodDelivery
  <2>3. CASE ~answered /\ ~(r.attempt < MaxRetries)
    BY <1>1, <1>2, <1>3, <1>4, <2>3 DEF GoodDelivery
  <2> QED  BY <2>1, <2>2, <2>3
<1>6. /\ delivery' \in [Webhooks!Pairs -> Webhooks!Delivery] /\ delivery'[d] = newRow
      /\ sent' \in [Webhooks!Pairs -> Webhooks!Traffic] /\ sent'[d] = newGot
      /\ \A e \in Webhooks!Pairs : e # d => delivery'[e] = delivery[e] /\ sent'[e] = sent[e]
  BY <1>1, <1>3, <1>4
<1>7. DeliveriesInv'
  BY <1>1, <1>5, <1>6, OneDelivery DEF WebhooksInv, DeliveriesInv
<1>8. newRow.step \notin {"refused", "lost"}
  BY <1>4
<1>9. ChargesInv'
  <2>1. \A h \in Hooks : hooks'[h].failureCount <= hooks[h].failureCount
    BY <1>1, CountsStand
  <2> QED  BY <1>1, <1>6, <1>7, <1>8, <2>1, NobodyCharged
<1>10. Webhooks!LossIsExplained'
  BY <1>1, <1>6, <1>8, LossStands DEF WebhooksInv, DeliveriesInv
<1> QED
  BY <1>7, <1>9, <1>10 DEF WebhooksInv

LEMMA LogAnswerStep ==
  ASSUME WebhooksInv, NEW d \in Webhooks!Pairs, Webhooks!LogAnswer(d)
  PROVE  WebhooksInv'
<1> DEFINE r == delivery[d]
<1> DEFINE log == logs[d]
<1> DEFINE newLog == [log EXCEPT !.approved = IF r.ok THEN @ + 1 ELSE @,
                                 !.refused = IF r.ok THEN @ ELSE @ + 1]
<1> DEFINE newRow == IF r.ok THEN [r EXCEPT !.step = "approved"] ELSE Webhooks!NextRound(r)
<1>1. /\ r.step = "answered" /\ logs' = [logs EXCEPT ![d] = newLog]
      /\ delivery' = [delivery EXCEPT ![d] = newRow]
      /\ UNCHANGED <<hooks, triggered, sent, faults>>
      /\ delivery \in [Webhooks!Pairs -> Webhooks!Delivery]
      /\ logs \in [Webhooks!Pairs -> Webhooks!LogRows]
  BY DEF Webhooks!LogAnswer, WebhooksInv, DeliveriesInv
<1>2. /\ r \in Webhooks!Delivery /\ log \in Webhooks!LogRows /\ GoodDelivery(r, log, sent[d])
      /\ r.attempt \in Nat /\ r.upset \in Nat /\ r.ok \in BOOLEAN
      /\ log.approved \in Nat /\ log.refused \in Nat /\ log.gaveUp \in Nat
      /\ sent[d].received \in Nat /\ sent[d].approved \in Nat
  BY Before DEF WebhooksInv
<1>3. /\ newLog \in Webhooks!LogRows /\ newLog.gaveUp = log.gaveUp
      /\ newLog.approved = IF r.ok THEN log.approved + 1 ELSE log.approved
      /\ newLog.refused = IF r.ok THEN log.refused ELSE log.refused + 1
  <2>1. log.approved + 1 \in Nat /\ log.refused + 1 \in Nat
    BY <1>2
  <2> QED  BY <1>2, <2>1 DEF Webhooks!LogRows
<1>4. /\ newRow \in Webhooks!Delivery /\ newRow.upset = r.upset
      /\ r.ok => newRow.step = "approved" /\ newRow.attempt = r.attempt
      /\ ~r.ok => /\ newRow.step = IF r.attempt < MaxRetries THEN "send" ELSE "exhausted"
                  /\ newRow.attempt = r.attempt + 1
  <2>1. CASE r.ok
    BY <1>2, <2>1 DEF Webhooks!Delivery
  <2>2. CASE ~r.ok
    BY <1>2, <2>2, RoundFields
  <2> QED  BY <2>1, <2>2
<1> HIDE DEF newLog, newRow
<1>5. GoodDelivery(newRow, newLog, sent[d])
  <2>1. CASE r.ok
    BY <1>1, <1>2, <1>3, <1>4, <2>1 DEF GoodDelivery
  <2>2. CASE ~r.ok /\ r.attempt < MaxRetries
    BY <1>1, <1>2, <1>3, <1>4, <2>2 DEF GoodDelivery
  <2>3. CASE ~r.ok /\ ~(r.attempt < MaxRetries)
    BY <1>1, <1>2, <1>3, <1>4, <2>3 DEF GoodDelivery
  <2> QED  BY <2>1, <2>2, <2>3
<1>6. /\ delivery' \in [Webhooks!Pairs -> Webhooks!Delivery] /\ delivery'[d] = newRow
      /\ logs' \in [Webhooks!Pairs -> Webhooks!LogRows] /\ logs'[d] = newLog
      /\ \A e \in Webhooks!Pairs : e # d => delivery'[e] = delivery[e] /\ logs'[e] = logs[e]
  BY <1>1, <1>3, <1>4
<1>7. DeliveriesInv'
  BY <1>1, <1>5, <1>6, OneDelivery DEF WebhooksInv, DeliveriesInv
<1>8. newRow.step \notin {"refused", "lost"}
  BY <1>4
<1>9. ChargesInv'
  <2>1. \A h \in Hooks : hooks'[h].failureCount <= hooks[h].failureCount
    BY <1>1, CountsStand
  <2> QED  BY <1>1, <1>3, <1>6, <1>7, <1>8, <2>1, NobodyCharged
<1>10. Webhooks!LossIsExplained'
  BY <1>1, <1>6, <1>8, LossStands DEF WebhooksInv, DeliveriesInv
<1> QED
  BY <1>7, <1>9, <1>10 DEF WebhooksInv

LEMMA SucceedStep ==
  ASSUME WebhooksInv, NEW d \in Webhooks!Pairs, Webhooks!Succeed(d)
  PROVE  WebhooksInv'
<1> DEFINE r == delivery[d]
<1> DEFINE newRow == [r EXCEPT !.step = "done"]
<1>1. /\ r.step = "approved" /\ hooks' = [hooks EXCEPT ![d[2]].failureCount = 0]
      /\ delivery' = [delivery EXCEPT ![d] = newRow]
      /\ UNCHANGED <<triggered, logs, sent, faults>>
      /\ delivery \in [Webhooks!Pairs -> Webhooks!Delivery]
      /\ hooks \in [Hooks -> Webhooks!Hook]
  BY DEF Webhooks!Succeed, WebhooksInv, DeliveriesInv
<1>2. /\ r \in Webhooks!Delivery /\ GoodDelivery(r, logs[d], sent[d]) /\ d[2] \in Hooks
      /\ r.attempt \in Nat /\ r.upset \in Nat
      /\ logs[d].approved \in Nat /\ logs[d].refused \in Nat /\ logs[d].gaveUp \in Nat
      /\ sent[d].received \in Nat /\ sent[d].approved \in Nat
  BY Before DEF WebhooksInv
<1>3. /\ newRow \in Webhooks!Delivery /\ newRow.step = "done"
      /\ newRow.attempt = r.attempt /\ newRow.upset = r.upset
  BY <1>2 DEF Webhooks!Delivery
<1> HIDE DEF newRow
<1>4. GoodDelivery(newRow, logs[d], sent[d])
  BY <1>1, <1>2, <1>3 DEF GoodDelivery
<1>5. /\ delivery' \in [Webhooks!Pairs -> Webhooks!Delivery] /\ delivery'[d] = newRow
      /\ \A e \in Webhooks!Pairs : e # d => delivery'[e] = delivery[e]
  BY <1>1, <1>3
<1>6. /\ hooks' \in [Hooks -> Webhooks!Hook]
      /\ \A h \in Hooks : /\ hooks'[h].status = hooks[h].status
                          /\ hooks'[h].failureCount <= hooks[h].failureCount
  BY <1>1, <1>2 DEF Webhooks!Hook
<1>7. DeliveriesInv'
  BY <1>1, <1>4, <1>5, <1>6, OneDelivery DEF WebhooksInv, DeliveriesInv
<1>8. ChargesInv'
  BY <1>1, <1>3, <1>5, <1>6, <1>7, NobodyCharged
<1>9. Webhooks!LossIsExplained'
  BY <1>1, <1>3, <1>5, <1>6, LossStands DEF WebhooksInv, DeliveriesInv
<1> QED
  BY <1>7, <1>8, <1>9 DEF WebhooksInv

LEMMA WebhookCallFailsStep ==
  ASSUME WebhooksInv, NEW d \in Webhooks!Pairs, Webhooks!CallFails(d)
  PROVE  WebhooksInv'
<1> DEFINE r == delivery[d]
<1> DEFINE newRow == Webhooks!Upset(Webhooks!NextRound(r))
<1>1. /\ r.step \in {"answered", "approved"} /\ (faults' = faults + 1 \/ faults' = faults)
      /\ delivery' = [delivery EXCEPT ![d] = newRow]
      /\ UNCHANGED <<hooks, triggered, logs, sent>>
      /\ delivery \in [Webhooks!Pairs -> Webhooks!Delivery] /\ faults \in Nat
  BY DEF Webhooks!CallFails, Webhooks!Fault, WebhooksInv, DeliveriesInv
<1>2. /\ r \in Webhooks!Delivery /\ GoodDelivery(r, logs[d], sent[d])
      /\ r.attempt \in Nat /\ r.upset \in Nat
      /\ logs[d].approved \in Nat /\ logs[d].refused \in Nat /\ logs[d].gaveUp \in Nat
      /\ sent[d].received \in Nat /\ sent[d].approved \in Nat
  BY Before DEF WebhooksInv
<1>3. /\ newRow \in Webhooks!Delivery /\ newRow.upset = r.upset + 1
      /\ newRow.step = IF r.attempt < MaxRetries THEN "send" ELSE "exhausted"
      /\ newRow.attempt = r.attempt + 1
  BY <1>2, RoundFields
<1> HIDE DEF newRow
<1>4. GoodDelivery(newRow, logs[d], sent[d])
  <2>1. CASE r.attempt < MaxRetries
    BY <1>1, <1>2, <1>3, <2>1 DEF GoodDelivery
  <2>2. CASE ~(r.attempt < MaxRetries)
    BY <1>1, <1>2, <1>3, <2>2 DEF GoodDelivery
  <2> QED  BY <2>1, <2>2
<1>5. /\ delivery' \in [Webhooks!Pairs -> Webhooks!Delivery] /\ delivery'[d] = newRow
      /\ \A e \in Webhooks!Pairs : e # d => delivery'[e] = delivery[e]
      /\ faults' \in Nat /\ faults <= faults'
  BY <1>1, <1>3
<1>6. DeliveriesInv'
  BY <1>1, <1>4, <1>5, OneDelivery DEF WebhooksInv, DeliveriesInv
<1>7. newRow.step \notin {"refused", "lost"}
  BY <1>3
<1>8. ChargesInv'
  <2>1. \A h \in Hooks : hooks'[h].failureCount <= hooks[h].failureCount
    BY <1>1, CountsStand
  <2> QED  BY <1>1, <1>5, <1>6, <1>7, <2>1, NobodyCharged
<1>9. Webhooks!LossIsExplained'
  BY <1>1, <1>5, <1>7, LossStands
<1> QED
  BY <1>6, <1>8, <1>9 DEF WebhooksInv

LEMMA GiveUpStep ==
  ASSUME WebhooksInv, NEW d \in Webhooks!Pairs, Webhooks!GiveUp(d)
  PROVE  WebhooksInv'
<1> DEFINE r == delivery[d]
<1> DEFINE log == logs[d]
<1> DEFINE newLog == [log EXCEPT !.gaveUp = @ + 1]
<1> DEFINE newRow == [r EXCEPT !.step = "refused"]
<1>1. /\ r.step = "exhausted" /\ logs' = [logs EXCEPT ![d] = newLog]
      /\ delivery' = [delivery EXCEPT ![d] = newRow]
      /\ UNCHANGED <<hooks, triggered, sent, faults>>
      /\ delivery \in [Webhooks!Pairs -> Webhooks!Delivery]
      /\ logs \in [Webhooks!Pairs -> Webhooks!LogRows]
  BY DEF Webhooks!GiveUp, WebhooksInv, DeliveriesInv
<1>2. /\ r \in Webhooks!Delivery /\ log \in Webhooks!LogRows /\ GoodDelivery(r, log, sent[d])
      /\ r.attempt \in Nat /\ r.upset \in Nat
      /\ log.approved \in Nat /\ log.refused \in Nat /\ log.gaveUp \in Nat
      /\ sent[d].received \in Nat /\ sent[d].approved \in Nat
  BY Before DEF WebhooksInv
<1>3. /\ newLog \in Webhooks!LogRows /\ newLog.gaveUp = log.gaveUp + 1
      /\ newLog.approved = log.approved /\ newLog.refused = log.refused
  <2>1. log.gaveUp + 1 \in Nat
    BY <1>2
  <2> QED  BY <1>2, <2>1 DEF Webhooks!LogRows
<1>4. /\ newRow \in Webhooks!Delivery /\ newRow.step = "refused"
      /\ newRow.attempt = r.attempt /\ newRow.upset = r.upset
  BY <1>2 DEF Webhooks!Delivery
<1> HIDE DEF newLog, newRow
<1>5. GoodDelivery(newRow, newLog, sent[d])
  BY <1>1, <1>2, <1>3, <1>4 DEF GoodDelivery
<1>6. /\ delivery' \in [Webhooks!Pairs -> Webhooks!Delivery] /\ delivery'[d] = newRow
      /\ logs' \in [Webhooks!Pairs -> Webhooks!LogRows] /\ logs'[d] = newLog
      /\ \A e \in Webhooks!Pairs : e # d => delivery'[e] = delivery[e] /\ logs'[e] = logs[e]
  BY <1>1, <1>3, <1>4
<1>7. DeliveriesInv'
  BY <1>1, <1>5, <1>6, OneDelivery DEF WebhooksInv, DeliveriesInv
<1>8. ChargesInv'
  <2>1. \A h \in Hooks : hooks'[h].failureCount <= hooks[h].failureCount
    BY <1>1, CountsStand
  <2>2. log.gaveUp = 0
    BY <1>1, <1>2 DEF GoodDelivery
  <2> QED  BY <1>1, <1>6, <1>7, <2>1, <2>2, NobodyCharged
<1>9. Webhooks!LossIsExplained'
  BY <1>1, <1>4, <1>6, LossStands DEF WebhooksInv, DeliveriesInv
<1> QED
  BY <1>7, <1>8, <1>9 DEF WebhooksInv

\* The one step that charges a webhook, for the delivery that it ends.
LEMMA CountFailureStep ==
  ASSUME WebhooksInv, NEW d \in Webhooks!Pairs, Webhooks!CountFailure(d)
  PROVE  WebhooksInv'
<1> DEFINE r == delivery[d]
<1> DEFINE newRow == [r EXCEPT !.step = "done"]
<1>1. /\ r.step = "refused" /\ hooks' = [hooks EXCEPT ![d[2]].failureCount = @ + 1]
      /\ delivery' = [delivery EXCEPT ![d] = newRow]
      /\ UNCHANGED <<triggered, logs, sent, faults>>
      /\ delivery \in [Webhooks!Pairs -> Webhooks!Delivery]
      /\ hooks \in [Hooks -> Webhooks!Hook]
  BY DEF Webhooks!CountFailure, WebhooksInv, DeliveriesInv
<1>2. /\ r \in Webhooks!Delivery /\ GoodDelivery(r, logs[d], sent[d])
      /\ d[1] \in Events /\ d[2] \in Hooks
      /\ r.attempt \in Nat /\ r.upset \in Nat
      /\ logs[d].approved \in Nat /\ logs[d].refused \in Nat /\ logs[d].gaveUp \in Nat
      /\ sent[d].received \in Nat /\ sent[d].approved \in Nat
      /\ hooks[d[2]] \in Webhooks!Hook /\ hooks[d[2]].failureCount \in Nat
  BY Before DEF WebhooksInv
<1>3. /\ newRow \in Webhooks!Delivery /\ newRow.step = "done"
      /\ newRow.attempt = r.attempt /\ newRow.upset = r.upset
  BY <1>2 DEF Webhooks!Delivery
<1> HIDE DEF newRow
<1>4. GoodDelivery(newRow, logs[d], sent[d])
  BY <1>1, <1>2, <1>3 DEF GoodDelivery
<1>5. /\ delivery' \in [Webhooks!Pairs -> Webhooks!Delivery] /\ delivery'[d] = newRow
      /\ \A e \in Webhooks!Pairs : e # d => delivery'[e] = delivery[e]
  BY <1>1, <1>3
<1>6. /\ hooks' \in [Hooks -> Webhooks!Hook]
      /\ \A h \in Hooks : hooks'[h].status = hooks[h].status
      /\ hooks'[d[2]].failureCount = hooks[d[2]].failureCount + 1
      /\ \A h \in Hooks : h # d[2] => hooks'[h] = hooks[h]
  <2>1. hooks[d[2]].failureCount + 1 \in Nat
    BY <1>2
  <2>2. [hooks[d[2]] EXCEPT !.failureCount = @ + 1] \in Webhooks!Hook
    BY <1>2, <2>1 DEF Webhooks!Hook
  <2> QED  BY <1>1, <1>2, <2>2 DEF Webhooks!Hook
<1>7. DeliveriesInv'
  BY <1>1, <1>4, <1>5, <1>6, OneDelivery DEF WebhooksInv, DeliveriesInv
<1>8. d = <<d[1], d[2]>> /\ logs[d].gaveUp > 0
  BY <1>1, <1>2 DEF GoodDelivery, Webhooks!Pairs
<1>9. \A h \in Hooks : Charged(h)' = IF h = d[2] THEN Charged(h) \cup {d[1]} ELSE Charged(h)
  <2> SUFFICES ASSUME NEW h \in Hooks, NEW e \in Events
               PROVE  e \in Charged(h)' <=>
                        e \in Charged(h) \/ (h = d[2] /\ e = d[1])
    BY <1>2 DEF Charged
  <2>1. <<e, h>> \in Webhooks!Pairs /\ (<<e, h>> = d <=> (h = d[2] /\ e = d[1]))
    BY <1>8 DEF Webhooks!Pairs
  <2>2. CASE <<e, h>> = d
    BY <1>1, <1>3, <1>5, <1>8, <2>1, <2>2 DEF Charged
  <2>3. CASE <<e, h>> # d
    BY <1>1, <1>5, <2>1, <2>3 DEF Charged
  <2> QED  BY <2>2, <2>3
<1>10. ChargesInv'
  <2> SUFFICES ASSUME NEW h \in Hooks
               PROVE  hooks'[h].failureCount <= Cardinality(Charged(h)')
    BY DEF ChargesInv
  <2>1. /\ IsFiniteSet(Charged(h)) /\ Cardinality(Charged(h)) \in Nat
        /\ hooks[h].failureCount <= Cardinality(Charged(h))
    BY ChargedIsFinite DEF WebhooksInv, ChargesInv
  <2>2. CASE h = d[2]
    <3>1. d[1] \notin Charged(h)
      BY <1>1, <1>8, <2>2 DEF Charged
    <3>2. Cardinality(Charged(h) \cup {d[1]}) = Cardinality(Charged(h)) + 1
      BY <2>1, <3>1, FS_AddElement
    <3>3. Cardinality(Charged(h)') = Cardinality(Charged(h)) + 1
      BY <1>9, <2>2, <3>2
    <3>4. /\ hooks'[h].failureCount = hooks[h].failureCount + 1
          /\ hooks[h].failureCount \in Nat
      BY <1>2, <1>6, <2>2
    <3> QED  BY <2>1, <3>3, <3>4
  <2>3. CASE h # d[2]
    BY <1>6, <1>9, <2>1, <2>3
  <2> QED  BY <2>2, <2>3
<1>11. Webhooks!LossIsExplained'
  BY <1>1, <1>3, <1>5, <1>6, LossStands DEF WebhooksInv, DeliveriesInv
<1> QED
  BY <1>7, <1>10, <1>11 DEF WebhooksInv

\* The step that may take the other deliveries with it.
LEMMA RejectedStep ==
  ASSUME WebhooksInv, NEW d \in Webhooks!Pairs, NEW ends \in BOOLEAN, Webhooks!Rejected(d, ends)
  PROVE  WebhooksInv'
<1>1. /\ delivery[d].step \in {"exhausted", "refused"}
      /\ \/ faults' = faults + 1
         \/ hooks[d[2]].status = "gone" /\ faults' = faults
      /\ delivery' = [i \in Webhooks!Pairs |->
           IF i = d \/ (ends /\ Webhooks!Running(i)) THEN [delivery[i] EXCEPT !.step = "lost"]
           ELSE delivery[i]]
      /\ UNCHANGED <<hooks, triggered, logs, sent>>
      /\ faults \in Nat /\ d[2] \in Hooks
  BY Before DEF Webhooks!Rejected, Webhooks!Fault, Webhooks!HookOf, WebhooksInv, DeliveriesInv
<1>2. \A i \in Webhooks!Pairs :
        /\ delivery'[i] \in Webhooks!Delivery
        /\ GoodDelivery(delivery'[i], logs[i], sent[i])
        /\ delivery'[i].step # "none" => i[1] \in triggered
        /\ delivery'[i].step = "lost" \/ delivery'[i] = delivery[i]
  <2> SUFFICES ASSUME NEW i \in Webhooks!Pairs
               PROVE  /\ delivery'[i] \in Webhooks!Delivery
                      /\ GoodDelivery(delivery'[i], logs[i], sent[i])
                      /\ delivery'[i].step # "none" => i[1] \in triggered
                      /\ delivery'[i].step = "lost" \/ delivery'[i] = delivery[i]
    OBVIOUS
  <2> DEFINE r == delivery[i]
  <2>1. /\ r \in Webhooks!Delivery /\ GoodDelivery(r, logs[i], sent[i])
        /\ r.attempt \in Nat /\ r.upset \in Nat
        /\ logs[i].approved \in Nat /\ logs[i].refused \in Nat /\ logs[i].gaveUp \in Nat
        /\ sent[i].received \in Nat /\ sent[i].approved \in Nat
        /\ r.step # "none" => i[1] \in triggered
    BY Before DEF WebhooksInv, DeliveriesInv
  <2>2. CASE i = d \/ (ends /\ Webhooks!Running(i))
    <3> DEFINE newRow == [r EXCEPT !.step = "lost"]
    <3>1. delivery'[i] = newRow
      BY <1>1, <2>2
    <3>2. r.step # "none"
      BY <1>1, <2>2 DEF Webhooks!Running
    <3>3. /\ newRow \in Webhooks!Delivery /\ newRow.step = "lost"
          /\ newRow.attempt = r.attempt /\ newRow.upset = r.upset
      BY <2>1 DEF Webhooks!Delivery
    <3> HIDE DEF newRow
    <3>4. GoodDelivery(newRow, logs[i], sent[i])
      BY <2>1, <3>2, <3>3 DEF GoodDelivery
    <3> QED  BY <2>1, <3>1, <3>2, <3>3, <3>4
  <2>3. CASE ~(i = d \/ (ends /\ Webhooks!Running(i)))
    <3>1. delivery'[i] = delivery[i]
      BY <1>1, <2>3
    <3> QED  BY <2>1, <3>1
  <2> QED  BY <2>2, <2>3
<1>3. faults' \in Nat /\ faults <= faults'
  BY <1>1
<1>4. DeliveriesInv'
  BY <1>1, <1>2, <1>3 DEF WebhooksInv, DeliveriesInv
<1>5. ChargesInv'
  <2>1. \A h \in Hooks : hooks'[h].failureCount <= hooks[h].failureCount
    BY <1>1, CountsStand
  <2>2. ASSUME NEW h \in Hooks
        PROVE  Charged(h) \subseteq Charged(h)'
    <3> SUFFICES ASSUME NEW e \in Charged(h) PROVE e \in Charged(h)'
      OBVIOUS
    <3>1. /\ e \in Events /\ <<e, h>> \in Webhooks!Pairs /\ logs[<<e, h>>].gaveUp > 0
          /\ delivery[<<e, h>>].step # "refused"
      BY DEF Charged, Webhooks!Pairs
    <3>2. delivery'[<<e, h>>].step # "refused"
      BY <1>2, <3>1
    <3> QED  BY <1>1, <3>1, <3>2 DEF Charged
  <2> QED  BY <1>4, <2>1, <2>2, ChargesStand
<1>6. Webhooks!LossIsExplained'
  <2>1. faults' > 0 \/ hooks'[d[2]].status = "gone"
    BY <1>1
  <2> QED  BY <1>1, <1>3, <2>1, LossStands
<1> QED
  BY <1>4, <1>5, <1>6 DEF WebhooksInv

LEMMA TriggerStep ==
  ASSUME WebhooksInv, NEW e \in Events, Webhooks!Trigger(e)
  PROVE  WebhooksInv'
<1> DEFINE newRow == [Webhooks!Idle EXCEPT !.step = "send"]
<1>1. /\ e \notin triggered /\ triggered' = triggered \cup {e}
      /\ UNCHANGED <<hooks, logs, sent, faults>>
      /\ \A d \in Webhooks!Pairs : \/ d[1] = e /\ delivery'[d] = newRow
                                   \/ delivery'[d] = delivery[d]
      /\ delivery' = [d \in Webhooks!Pairs |-> delivery'[d]]
  BY DEF Webhooks!Trigger
<1>2. /\ newRow \in Webhooks!Delivery /\ newRow.step = "send" /\ newRow.attempt = 0
      /\ newRow.upset = 0
  BY DEF Webhooks!Idle, Webhooks!Delivery
<1> HIDE DEF newRow
<1>3. \A d \in Webhooks!Pairs :
        /\ delivery'[d] \in Webhooks!Delivery
        /\ GoodDelivery(delivery'[d], logs[d], sent[d])
        /\ delivery'[d].step # "none" => d[1] \in triggered'
        /\ delivery'[d] = delivery[d] \/ (delivery'[d].step = "send" /\ logs[d].gaveUp = 0)
  <2> SUFFICES ASSUME NEW d \in Webhooks!Pairs
               PROVE  /\ delivery'[d] \in Webhooks!Delivery
                      /\ GoodDelivery(delivery'[d], logs[d], sent[d])
                      /\ delivery'[d].step # "none" => d[1] \in triggered'
                      /\ delivery'[d] = delivery[d]
                         \/ (delivery'[d].step = "send" /\ logs[d].gaveUp = 0)
    OBVIOUS
  <2> DEFINE r == delivery[d]
  <2>1. /\ r \in Webhooks!Delivery /\ GoodDelivery(r, logs[d], sent[d])
        /\ logs[d].approved \in Nat /\ logs[d].refused \in Nat /\ logs[d].gaveUp \in Nat
        /\ sent[d].received \in Nat /\ sent[d].approved \in Nat
        /\ r.step # "none" => d[1] \in triggered
    BY Before DEF WebhooksInv, DeliveriesInv
  <2>2. CASE delivery'[d] = delivery[d]
    BY <1>1, <2>1, <2>2
  <2>3. CASE d[1] = e /\ delivery'[d] = newRow
    <3>1. r.step = "none"
      BY <1>1, <2>1, <2>3
    <3>2. /\ sent[d].received = 0 /\ sent[d].approved = 0 /\ logs[d].approved = 0
          /\ logs[d].refused = 0 /\ logs[d].gaveUp = 0
      BY <2>1, <3>1 DEF GoodDelivery
    <3>3. GoodDelivery(newRow, logs[d], sent[d])
      BY <1>2, <3>2 DEF GoodDelivery
    <3> QED  BY <1>1, <1>2, <2>3, <3>2, <3>3
  <2> QED  BY <1>1, <2>2, <2>3
<1>4. DeliveriesInv'
  <2>1. IsFiniteSet(triggered') /\ triggered' \subseteq Events
    BY <1>1, FS_AddElement DEF WebhooksInv, DeliveriesInv
  <2>2. delivery' \in [Webhooks!Pairs -> Webhooks!Delivery]
    BY <1>1, <1>3
  <2> QED  BY <1>1, <1>3, <2>1, <2>2 DEF WebhooksInv, DeliveriesInv
<1>5. ChargesInv'
  <2>1. \A h \in Hooks : hooks'[h].failureCount <= hooks[h].failureCount
    BY <1>1, CountsStand
  <2>2. ASSUME NEW h \in Hooks
        PROVE  Charged(h) \subseteq Charged(h)'
    <3> SUFFICES ASSUME NEW i \in Charged(h) PROVE i \in Charged(h)'
      OBVIOUS
    <3>1. /\ i \in Events /\ <<i, h>> \in Webhooks!Pairs /\ logs[<<i, h>>].gaveUp > 0
          /\ delivery[<<i, h>>].step # "refused"
      BY DEF Charged, Webhooks!Pairs
    <3>2. delivery'[<<i, h>>].step # "refused"
      BY <1>3, <3>1
    <3> QED  BY <1>1, <3>1, <3>2 DEF Charged
  <2> QED  BY <1>4, <2>1, <2>2, ChargesStand
<1>6. Webhooks!LossIsExplained'
  <2>1. \A d \in Webhooks!Pairs : delivery'[d].step = "lost" => delivery[d].step = "lost"
    BY <1>3
  <2> QED  BY <1>1, <2>1, LossStands DEF WebhooksInv, DeliveriesInv
<1> QED
  BY <1>4, <1>5, <1>6 DEF WebhooksInv

LEMMA AdministerStep ==
  ASSUME WebhooksInv, Webhooks!Administer
  PROVE  WebhooksInv'
<1>0. hooks \in [Hooks -> Webhooks!Hook]
  BY DEF WebhooksInv, DeliveriesInv
<1>1. UNCHANGED <<delivery, triggered, logs, sent, faults>>
  BY DEF Webhooks!Administer, Webhooks!Create, Webhooks!Update, Webhooks!Remove,
         Webhooks!AdminFrame
<1>2. /\ hooks' \in [Hooks -> Webhooks!Hook]
      /\ \A h \in Hooks : /\ hooks'[h].failureCount <= hooks[h].failureCount
                          /\ hooks[h].status = "gone" => hooks'[h].status = "gone"
  <2>1. ASSUME NEW h \in Hooks, NEW row \in Webhooks!Hook, hooks' = [hooks EXCEPT ![h] = row],
               row.failureCount <= hooks[h].failureCount,
               hooks[h].status = "gone" => row.status = "gone"
        PROVE  /\ hooks' \in [Hooks -> Webhooks!Hook]
               /\ \A g \in Hooks : /\ hooks'[g].failureCount <= hooks[g].failureCount
                                   /\ hooks[g].status = "gone" => hooks'[g].status = "gone"
    BY <1>0, <2>1 DEF Webhooks!Hook
  <2>2. ASSUME NEW h \in Hooks, NEW events \in SUBSET Events, Webhooks!Create(h, events)
        PROVE  /\ hooks' \in [Hooks -> Webhooks!Hook]
               /\ \A g \in Hooks : /\ hooks'[g].failureCount <= hooks[g].failureCount
                                   /\ hooks[g].status = "gone" => hooks'[g].status = "gone"
    <3> DEFINE row == [status |-> "stored", isActive |-> TRUE, events |-> events,
                       failureCount |-> 0]
    <3>1. /\ hooks' = [hooks EXCEPT ![h] = row] /\ hooks[h].status = "unborn"
      BY <2>2 DEF Webhooks!Create
    <3>2. row \in Webhooks!Hook /\ row.failureCount <= hooks[h].failureCount
      BY <1>0 DEF Webhooks!Hook
    <3> HIDE DEF row
    <3> QED  BY <2>1, <3>1, <3>2
  <2>3. ASSUME NEW h \in Hooks, NEW events \in SUBSET Events, NEW isActive \in BOOLEAN,
               Webhooks!Update(h, events, isActive)
        PROVE  /\ hooks' \in [Hooks -> Webhooks!Hook]
               /\ \A g \in Hooks : /\ hooks'[g].failureCount <= hooks[g].failureCount
                                   /\ hooks[g].status = "gone" => hooks'[g].status = "gone"
    <3> DEFINE row == [hooks[h] EXCEPT !.events = events, !.isActive = isActive]
    <3>1. hooks' = [hooks EXCEPT ![h] = row]
      BY <1>0, <2>3 DEF Webhooks!Update
    <3>2. hooks[h] \in Webhooks!Hook
      BY <1>0
    <3>3. /\ row \in Webhooks!Hook /\ row.failureCount = hooks[h].failureCount
          /\ row.status = hooks[h].status /\ row.failureCount \in Nat
      BY <3>2 DEF Webhooks!Hook
    <3> HIDE DEF row
    <3>4. row.failureCount <= hooks[h].failureCount
      BY <3>3
    <3> QED  BY <2>1, <3>1, <3>3, <3>4
  <2>4. ASSUME NEW h \in Hooks, Webhooks!Remove(h)
        PROVE  /\ hooks' \in [Hooks -> Webhooks!Hook]
               /\ \A g \in Hooks : /\ hooks'[g].failureCount <= hooks[g].failureCount
                                   /\ hooks[g].status = "gone" => hooks'[g].status = "gone"
    <3> DEFINE row == [hooks[h] EXCEPT !.status = "gone"]
    <3>1. hooks' = [hooks EXCEPT ![h] = row]
      BY <2>4 DEF Webhooks!Remove
    <3>2. /\ row \in Webhooks!Hook /\ row.failureCount <= hooks[h].failureCount
          /\ row.status = "gone"
      BY <1>0 DEF Webhooks!Hook
    <3> HIDE DEF row
    <3> QED  BY <2>1, <3>1, <3>2
  <2> QED  BY <2>2, <2>3, <2>4 DEF Webhooks!Administer
<1>3. DeliveriesInv'
  BY <1>1, <1>2 DEF WebhooksInv, DeliveriesInv
<1>4. ChargesInv'
  <2>1. \A h \in Hooks : Charged(h) \subseteq Charged(h)'
    BY <1>1 DEF Charged
  <2> QED  BY <1>2, <1>3, <2>1, ChargesStand
<1>5. Webhooks!LossIsExplained'
  BY <1>1, <1>2, LossStands DEF WebhooksInv, DeliveriesInv
<1> QED
  BY <1>3, <1>4, <1>5 DEF WebhooksInv

LEMMA WebhooksStep ==
  ASSUME WebhooksInv, [Webhooks!Next]_Webhooks!vars
  PROVE  WebhooksInv'
<1>1. ASSUME NEW d \in Webhooks!Pairs, Webhooks!Deliver(d)
      PROVE  WebhooksInv'
  <2>1. ASSUME NEW ends \in RejectionEndsProcess, Webhooks!Rejected(d, ends)
        PROVE  WebhooksInv'
    <3>1. ends \in BOOLEAN
      OBVIOUS
    <3> QED  BY <2>1, <3>1, RejectedStep
  <2> QED
    BY <1>1, <2>1, AttemptStep, LogAnswerStep, SucceedStep, WebhookCallFailsStep, GiveUpStep,
       CountFailureStep
    DEF Webhooks!Deliver
<1>2. CASE UNCHANGED Webhooks!vars
  BY <1>2
  DEF Webhooks!vars, WebhooksInv, DeliveriesInv, ChargesInv, Charged, Webhooks!LossIsExplained
<1> QED
  BY <1>1, <1>2, TriggerStep, AdministerStep DEF Webhooks!Next

LEMMA WebhooksHold == Webhooks!Spec => []WebhooksInv
  BY WebhooksStart, WebhooksStep, PTL DEF Webhooks!Spec

\* deliverWebhook(): a receiver that approved a call is called again only after
\* an answer that was lost or a database call that failed, once for each, for
\* any number of retries.
THEOREM DuplicatesHaveCauses == Webhooks!Spec => []DuplicatesExplained
<1>1. WebhooksInv => DuplicatesExplained
  <2> SUFFICES ASSUME WebhooksInv, NEW d \in Webhooks!Pairs
               PROVE  sent[d].approved <= 1 + delivery[d].upset
    BY DEF DuplicatesExplained, Webhooks!DuplicatesExplained
  <2>1. /\ sent[d].approved <= delivery[d].upset + 1
        /\ sent[d].approved \in Nat /\ delivery[d].upset \in Nat
    BY Before DEF WebhooksInv, GoodDelivery
  <2> QED  BY <2>1
<1> QED
  BY <1>1, WebhooksHold, PTL

\* What webhook_logs and failureCount say of a delivery is what came of it, and
\* one that disappears needs a failing call or a deleted webhook.
THEOREM OutcomesHaveCauses == Webhooks!Spec => []OutcomesExplained
<1>1. WebhooksInv => OutcomesExplained
  <2> SUFFICES ASSUME WebhooksInv PROVE OutcomesExplained
    OBVIOUS
  <2>1. Webhooks!VerdictsAgree
    BY DEF Webhooks!VerdictsAgree, WebhooksInv, DeliveriesInv, GoodDelivery
  <2>2. ASSUME NEW h \in Hooks
        PROVE  hooks[h].failureCount
                 <= Webhooks!Cardinality({e \in Events : logs[<<e, h>>].gaveUp > 0})
    <3> DEFINE gaveUp == {e \in Events : logs[<<e, h>>].gaveUp > 0}
    <3>1. gaveUp \subseteq triggered
      <4> SUFFICES ASSUME NEW e \in gaveUp PROVE e \in triggered
        OBVIOUS
      <4>1. <<e, h>> \in Webhooks!Pairs /\ logs[<<e, h>>].gaveUp > 0
        BY DEF Webhooks!Pairs
      <4>2. delivery[<<e, h>>].step # "none"
        BY <4>1 DEF WebhooksInv, DeliveriesInv, GoodDelivery
      <4>3. <<e, h>>[1] \in triggered
        BY <4>1, <4>2 DEF WebhooksInv, DeliveriesInv
      <4> QED  BY <4>3
    <3>2. IsFiniteSet(gaveUp)
      BY <3>1, FS_Subset DEF WebhooksInv, DeliveriesInv
    <3>3. Charged(h) \subseteq gaveUp
      BY DEF Charged
    <3> HIDE DEF gaveUp
    <3>4. /\ Cardinality(Charged(h)) <= Cardinality(gaveUp)
          /\ Cardinality(gaveUp) \in Nat /\ Cardinality(Charged(h)) \in Nat
      BY <3>2, <3>3, FS_Subset, FS_CardinalityType
    <3>5. hooks[h].failureCount <= Cardinality(Charged(h)) /\ hooks[h].failureCount \in Nat
      BY DEF WebhooksInv, DeliveriesInv, ChargesInv, Webhooks!Hook
    <3>6. hooks[h].failureCount <= Cardinality(gaveUp)
      BY <3>4, <3>5
    <3> QED  BY <3>6, SameCardinality DEF gaveUp
  <2>3. Webhooks!FailuresAreLogged
    BY <2>2 DEF Webhooks!FailuresAreLogged
  <2> QED
    BY <2>1, <2>3 DEF WebhooksInv, OutcomesExplained, Webhooks!OutcomesExplained
<1> QED
  BY <1>1, WebhooksHold, PTL

\* Webhooks, deliveries, logs and counters keep their types, and no delivery
\* makes more than MAX_RETRIES + 1 attempts.
THEOREM WebhooksTypeCorrect == Webhooks!Spec => []Webhooks!TypeOK
<1>1. WebhooksInv => Webhooks!TypeOK
  BY DEF WebhooksInv, DeliveriesInv, GoodDelivery, Webhooks!TypeOK
<1> QED
  BY <1>1, WebhooksHold, PTL

-----------------------------------------------------------------------------
(* All of them *)

\* The services keep their types side by side, whatever the order of their
\* steps: none writes what another one reads.
THEOREM ServicesTypeCorrect ==
  Spec /\ Hub!Spec /\ Flagging!Spec /\ Filing!Spec /\ Webhooks!Spec => []ServicesTypeOK
<1>1. TypeOK /\ Hub!TypeOK /\ Flagging!TypeOK /\ Filing!TypeOK /\ Webhooks!TypeOK
      => ServicesTypeOK
  BY DEF ServicesTypeOK
<1> QED
  BY <1>1, MembershipTypeCorrect, HubTypeCorrect, FlagsTypeCorrect, UploadsTypeCorrect,
     WebhooksTypeCorrect, PTL
=============================================================================
