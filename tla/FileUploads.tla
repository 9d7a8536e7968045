------------------------------ MODULE FileUploads ------------------------------
(***************************************************************************)
(* FileUploadService and StorageService: an upload writes the file, under  *)
(* a new random key, and then its row; a removal unlinks the file and then *)
(* deletes the row.  Requests overlap, and any of them may stop half-way.  *)
(***************************************************************************)
EXTENDS Naturals, FiniteSets

CONSTANTS
  Items,      \* uploads: the file, by its key, and its row
  Allowed,    \* those of an allowed type and size
  Requests,   \* handlers that may run at the same time
  MaxFaults,  \* bound on the database calls that fail or never end
  NoRequest

VARIABLES
  files,    \* the items whose file is in the store
  rows,     \* the items with a row in file_uploads
  known,    \* the items uploaded so far
  request,  \* Requests -> running handler, or NoRequest
  faults

vars == <<files, rows, known, request, faults>>

Request == [step : {"stored", "found", "unlinked"}, item : Items]

Init == /\ files = {} /\ rows = {} /\ known = {}
        /\ request = [r \in Requests |-> NoRequest] /\ faults = 0

At(r, step) == request[r] # NoRequest /\ request[r].step = step
Go(r, step, i) == request' = [request EXCEPT ![r] = [step |-> step, item |-> i]]
Leave(r) == request' = [request EXCEPT ![r] = NoRequest]

\* store(): validated, then written; a refused file leaves nothing behind.
\* Variant: written, then validated.
StoreBeforeValidation(r, i) ==
  /\ request[r] = NoRequest /\ i \notin known
  /\ known' = known \cup {i} /\ files' = files \cup {i}
  /\ IF i \in Allowed THEN Go(r, "stored", i) ELSE UNCHANGED request
  /\ UNCHANGED <<rows, faults>>
Store(r, i) ==
  /\ request[r] = NoRequest /\ i \in Allowed \ known
  /\ known' = known \cup {i} /\ files' = files \cup {i}
  /\ Go(r, "stored", i)
  /\ UNCHANGED <<rows, faults>>
CreateRow(r) ==
  /\ At(r, "stored") /\ rows' = rows \cup {request[r].item}
  /\ Leave(r) /\ UNCHANGED <<files, known, faults>>

\* remove(): findOne(), delete() of the file, which may be gone, and the row.
Find(r, i) ==
  /\ request[r] = NoRequest /\ i \in rows /\ Go(r, "found", i)
  /\ UNCHANGED <<files, rows, known, faults>>
\* Variant: the row goes with the lookup, before the file.
UnlinkAfterRow(r) ==
  /\ At(r, "found") /\ rows' = rows \ {request[r].item}
  /\ Go(r, "unlinked", request[r].item) /\ UNCHANGED <<files, known, faults>>
Unlink(r) ==
  /\ At(r, "found") /\ files' = files \ {request[r].item}
  /\ Go(r, "unlinked", request[r].item) /\ UNCHANGED <<rows, known, faults>>
\* Deleting a row that another removal deleted fails, and leaves it deleted.
DeleteRow(r) ==
  /\ At(r, "unlinked") /\ rows' = rows \ {request[r].item}
  /\ Leave(r) /\ UNCHANGED <<files, known, faults>>

\* A database call fails, or the process dies before it.
RequestFails(r) ==
  /\ request[r] # NoRequest
  /\ faults < MaxFaults /\ faults' = faults + 1
  /\ Leave(r) /\ UNCHANGED <<files, rows, known>>

Handle(r) == CreateRow(r) \/ Unlink(r) \/ DeleteRow(r)
Next == \E r \in Requests :
          \/ \E i \in Items : Store(r, i) \/ Find(r, i)
          \/ Handle(r) \/ RequestFails(r)
Spec == Init /\ [][Next]_vars

-----------------------------------------------------------------------------
\* Sets and handlers keep their types, and what is handled was uploaded.
TypeOK ==
  /\ files \subseteq known /\ rows \subseteq known /\ known \subseteq Items
  /\ request \in [Requests -> Request \cup {NoRequest}]
  /\ \A r \in Requests : request[r] # NoRequest => request[r].item \in known
  /\ faults \in 0 .. MaxFaults

\* upload() and remove() touch the store and the table in two steps: a file
\* without a row, or a row without a file, is in some handler's hands or was
\* left by a call that failed, one for each.
OrphansExplained ==
  LET held == {i \in Items : \E r \in Requests :
                 request[r] # NoRequest /\ request[r].item = i}
      orphans == (files \ rows) \cup (rows \ files)
  IN Cardinality(orphans \ held) <= faults

\* The file before the row, both ways, and neither comes back.
StageOf(i) ==
  CASE i \notin known -> "none"
    [] i \in files \ rows -> "stored"
    [] i \in files \cap rows -> "listed"
    [] i \in rows \ files -> "unlinked"
    [] OTHER -> "removed"
Files == INSTANCE FileLedger WITH stage <- [i \in Items |-> StageOf(i)]
FilesSpec == Files!Spec
=============================================================================
