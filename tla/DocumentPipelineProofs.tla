------------------------ MODULE DocumentPipelineProofs ------------------------
(***************************************************************************)
(* The documents of RagService, for any sets of documents and handlers and *)
(* any bounds: types, who is at work on an unsettled document, what a      *)
(* completed one holds, and the order of files and rows (FileLedger); what *)
(* a search over them finds (RagChat); and how a text is cut (Chunking).   *)
(***************************************************************************)
EXTENDS MCDocuments, TLAPS, FiniteSetTheorems, SequenceTheorems, WellFoundedInduction

-----------------------------------------------------------------------------
(* The inductive invariant *)

Types == TypeOK /\ chunks \in [Docs -> SUBSET ChunkRow]

\* Jobs and runs are numbered without a gap.
Gapless(f, n, none) ==
  \A i, j \in 1 .. n : i < j /\ f[j] # none => f[i] # none
Numbered == Gapless(jobs, MaxJobs, NoJob) /\ Gapless(runs, MaxRuns, NoRun)

\* Whatever names a document names one that was uploaded.
NamesKnown ==
  /\ \A d \in Docs : Exists(d) => d \in known
  /\ \A r \in Requests : request[r] # NoRequest => request[r].doc \in known
  /\ \A j \in JobIds : jobs[j] # NoJob => jobs[j].doc \in known
  /\ \A x \in RunIds : runs[x] # NoRun => runs[x].doc \in known

\* An upload that has stored its file is alone with the document; any other
\* handler finds no file without its row, and none that it has unlinked.
HandlerInv(r) ==
  LET d == request[r].doc IN
  IF At(r, "upload", "stored")
  THEN /\ d \in files /\ ~Exists(d)
       /\ \A q \in Requests \ {r} :
            request[q] # NoRequest => request[q].doc # d
       /\ \A j \in JobIds : jobs[j] # NoJob => jobs[j].doc # d
       /\ \A x \in RunIds : runs[x] # NoRun => runs[x].doc # d
  ELSE /\ d \in files => Exists(d)
       /\ At(r, "delete", "unlinked") => d \notin files
HandlersInv == \A r \in Requests : request[r] # NoRequest => HandlerInv(r)

\* A run for a job is about the document of that job, and the only one at work
\* on it, while the job is active.
JobInv(x) ==
  LET j == runs[x].job IN
  /\ jobs[j] # NoJob /\ jobs[j].doc = runs[x].doc
  /\ Running(x) =>
       /\ jobs[j].state = "active"
       /\ \A y \in RunIds : Running(y) /\ runs[y].job = j => y = x
JobsInv ==
  \A x \in RunIds : runs[x] # NoRun /\ runs[x].job # NoJob => JobInv(x)

\* The rows that run x creates first, in the order of their index.
RowsOf(x, n) == {[chunkIndex |-> i, run |-> x] : i \in 0 .. n - 1}
Own(rows, x) == {c \in rows : c.run = x}
Written(h) == IF h.step = "embed" THEN h.index + 1 ELSE h.index

\* A run h that still creates chunks has created each index up to its own among
\* the rows of its document, while the document is listed, unless they were
\* removed.
Progress(h, x, row, rows) ==
  /\ h.step \in {"start", "load"} => h.index = 0
  /\ /\ h.step \in {"start", "load", "chunk", "embed"}
     /\ row # NoDoc /\ ~h.cleared
     => Own(rows, x) = RowsOf(x, Written(h))

\* A chunk was created by a run of its document.
ChunksInv ==
  /\ \A d \in Docs : \A c \in chunks[d] :
       runs[c.run] # NoRun /\ runs[c.run].doc = d
  /\ \A x \in RunIds :
       runs[x] # NoRun =>
         Progress(runs[x], x, docs[runs[x].doc], chunks[runs[x].doc])

\* A completed document was completed by a run of its own, which has ended.
CompletedInv ==
  \A d \in Docs : Searchable(d) =>
    LET x == docs[d].by IN
    /\ x \in RunIds /\ runs[x] # NoRun
    /\ runs[x].doc = d /\ runs[x].step = "ended"
    /\ ~runs[x].cleared => Own(chunks[d], x) = RowsOf(x, docs[d].totalChunks)

DocumentsInv == /\ Types /\ Numbered /\ NamesKnown /\ HandlersInv /\ JobsInv
                /\ ChunksInv /\ CompletedInv /\ StuckIsExplained

LEMMA InitIsGood == ASSUME Init PROVE DocumentsInv
<1>1. Types
  BY PipelineAssumption DEF Init, Types, TypeOK, Exists
<1>2. Numbered
  BY DEF Init, Numbered, Gapless, JobIds, RunIds
<1>3. NamesKnown /\ HandlersInv /\ JobsInv
  BY DEF Init, NamesKnown, HandlersInv, HandlerInv, JobsInv, JobInv, Exists
<1>4. ChunksInv /\ CompletedInv /\ StuckIsExplained
  BY DEF Init, ChunksInv, CompletedInv, StuckIsExplained, Searchable,
     Unsettled, Exists
<1> QED
  BY <1>1, <1>2, <1>3, <1>4 DEF DocumentsInv

-----------------------------------------------------------------------------
(* Jobs and runs begin *)

\* The number of a job or run that begins is the first that is free.
LEMMA NextNumber ==
  ASSUME NEW n \in Nat, NEW f, NEW none, Gapless(f, n, none),
         NEW i \in 1 .. n, i = Begun(1 .. n, f, none) + 1
  PROVE  f[i] = none /\ \A k \in 1 .. n : k < i => f[k] # none
<1> DEFINE Used == {k \in 1 .. n : f[k] # none}
<1>1. IsFiniteSet(1 .. n)
  BY FS_Interval
<1>2. IsFiniteSet(Used) /\ Cardinality(Used) \in Nat
  BY <1>1, FS_Subset, FS_CardinalityType
<1>3. i = Cardinality(Used) + 1
  BY DEF Begun
<1>4. ASSUME f[i] # none PROVE FALSE
  <2>1. 1 .. i \subseteq Used
    BY <1>4 DEF Gapless
  <2>2. Cardinality(1 .. i) = i
    BY FS_Interval
  <2> QED
    BY <1>2, <1>3, <2>1, <2>2, FS_Subset
<1>5. ASSUME NEW k \in 1 .. n, k < i, f[k] = none PROVE FALSE
  <2>1. Used \subseteq 1 .. (k - 1)
    BY <1>5 DEF Gapless
  <2>2. IsFiniteSet(1 .. (k - 1)) /\ Cardinality(1 .. (k - 1)) = k - 1
    <3>1. PICK m \in Nat : m = k - 1
      OBVIOUS
    <3>2. /\ IsFiniteSet(1 .. m)
          /\ Cardinality(1 .. m) = IF 1 > m THEN 0 ELSE m - 1 + 1
      <4>1. 1 \in Int /\ m \in Int
        OBVIOUS
      <4> QED
        BY <4>1, FS_Interval, Zenon
    <3> QED
      BY <3>1, <3>2
  <2> QED
    BY <1>2, <1>3, <1>5, <2>1, <2>2, FS_Subset
<1> QED
  BY <1>4, <1>5

\* The job that AddJob(d) adds.
Added(d) == [doc |-> d, state |-> "waiting", failures |-> 0, stalls |-> 0]
LEMMA AddedJob ==
  ASSUME DocumentsInv, NEW d \in Docs, AddJob(d)
  PROVE  /\ \E j \in JobIds : jobs[j] = NoJob
                              /\ jobs' = [jobs EXCEPT ![j] = Added(d)]
         /\ Added(d) \in Job /\ Added(d) # NoJob
         /\ Gapless(jobs', MaxJobs, NoJob)
<1>1. PICK j \in JobIds : /\ j = Begun(JobIds, jobs, NoJob) + 1
                          /\ jobs' = [jobs EXCEPT ![j] = Added(d)]
  BY DEF AddJob, Added
<1>2. jobs[j] = NoJob /\ \A k \in JobIds : k < j => jobs[k] # NoJob
  BY <1>1, NextNumber, PipelineAssumption DEF DocumentsInv, Numbered, JobIds
<1>3. Added(d) \in Job /\ Added(d) # NoJob
  BY AbsenceAssumption DEF Added, Job
<1>4. jobs \in [JobIds -> Job \cup {NoJob}]
  BY DEF DocumentsInv, Types, TypeOK
<1>5. Gapless(jobs', MaxJobs, NoJob)
  BY <1>1, <1>2, <1>3, <1>4, PipelineAssumption
  DEF DocumentsInv, Numbered, Gapless, JobIds
<1> QED
  BY <1>1, <1>2, <1>3, <1>5

\* The run that BeginRun(d, j) begins.
Fresh(d, j) ==
  [doc |-> d, job |-> j, index |-> 0, step |-> "start", cleared |-> FALSE]
LEMMA BegunRun ==
  ASSUME DocumentsInv, NEW d \in Docs, NEW j \in JobIds \cup {NoJob},
         BeginRun(d, j)
  PROVE  /\ \E x \in RunIds : runs[x] = NoRun
                              /\ runs' = [runs EXCEPT ![x] = Fresh(d, j)]
         /\ Fresh(d, j) \in Run /\ Fresh(d, j) # NoRun
         /\ Gapless(runs', MaxRuns, NoRun)
<1>1. PICK x \in RunIds : /\ x = Begun(RunIds, runs, NoRun) + 1
                          /\ runs' = [runs EXCEPT ![x] = Fresh(d, j)]
  BY DEF BeginRun, Fresh
<1>2. runs[x] = NoRun /\ \A k \in RunIds : k < x => runs[k] # NoRun
  BY <1>1, NextNumber, PipelineAssumption DEF DocumentsInv, Numbered, RunIds
<1>3. Fresh(d, j) \in Run /\ Fresh(d, j) # NoRun
  <2>1. Fresh(d, j) \in Run
    BY DEF Fresh, Run
  <2> QED
    BY <2>1, AbsenceAssumption
<1>4. runs \in [RunIds -> Run \cup {NoRun}]
  BY DEF DocumentsInv, Types, TypeOK
<1>5. Gapless(runs', MaxRuns, NoRun)
  BY <1>1, <1>2, <1>3, <1>4, PipelineAssumption
  DEF DocumentsInv, Numbered, Gapless, RunIds
<1> QED
  BY <1>1, <1>2, <1>3, <1>5

-----------------------------------------------------------------------------
(* Requests *)

\* What a step that leaves the jobs and runs, or the rows and the runs, keeps.
LEMMA JobsStand ==
  ASSUME DocumentsInv, UNCHANGED <<jobs, runs>>
  PROVE  Numbered' /\ JobsInv'
  BY DEF DocumentsInv, Numbered, Gapless, JobsInv, JobInv, Running

LEMMA RowsStand ==
  ASSUME DocumentsInv, UNCHANGED <<docs, chunks, runs>>
  PROVE  ChunksInv' /\ CompletedInv'
<1>1. ChunksInv'
  BY DEF DocumentsInv, ChunksInv
<1>2. CompletedInv'
  BY DEF DocumentsInv, CompletedInv, Searchable, Exists, Own, RowsOf
<1> QED
  BY <1>1, <1>2

\* What a run has created is not asked of a document that is gone, nor while it
\* is not listed.
LEMMA ProgressKept ==
  ASSUME NEW h, NEW x, NEW row, NEW newRow, NEW rows,
         Progress(h, x, row, rows), newRow # NoDoc => row # NoDoc
  PROVE  Progress(h, x, newRow, rows)
  BY DEF Progress

LEMMA ChunksKept ==
  ASSUME DocumentsInv, UNCHANGED <<runs, chunks>>,
         \A e \in Docs : docs'[e] # NoDoc =>
           \/ docs[e] # NoDoc
           \/ \A x \in RunIds : runs[x] # NoRun => runs[x].doc # e
  PROVE  ChunksInv'
<1>1. ASSUME NEW x \in RunIds, runs[x] # NoRun
      PROVE  Progress(runs[x], x, docs'[runs[x].doc], chunks[runs[x].doc])
  <2>1. Progress(runs[x], x, docs[runs[x].doc], chunks[runs[x].doc])
    BY <1>1 DEF DocumentsInv, ChunksInv
  <2>2. runs[x].doc \in Docs
    BY <1>1 DEF DocumentsInv, Types, TypeOK, Run
  <2>3. docs'[runs[x].doc] # NoDoc => docs[runs[x].doc] # NoDoc
    BY <1>1, <2>2
  <2> QED
    BY <2>1, <2>3, ProgressKept
<1> QED
  BY <1>1 DEF DocumentsInv, ChunksInv

\* A handler that moves on stays with its operation and its document.
LEMMA RequestGoes ==
  ASSUME DocumentsInv, NEW r \in Requests, request[r] # NoRequest,
         NEW step \in {"created", "unlinked", "cleared", "pending"}, Go(r, step)
  PROVE  /\ request'[r] \in Request /\ request'[r] # NoRequest
         /\ request'[r].op = request[r].op /\ request'[r].doc = request[r].doc
         /\ request'[r].step = step
         /\ \A q \in Requests \ {r} : request'[q] = request[q]
<1>1. request[r] \in Request /\ request \in [Requests -> Request \cup {NoRequest}]
  BY DEF DocumentsInv, Types, TypeOK
<1>2. [request[r] EXCEPT !.step = step] \in Request
  BY <1>1 DEF Request
<1> QED
  BY <1>1, <1>2, AbsenceAssumption DEF Go, Request

LEMMA UploadStep ==
  ASSUME DocumentsInv, NEW r \in Requests, NEW d \in Docs, Upload(r, d)
  PROVE  DocumentsInv'
<1> USE DEF Upload, DocumentsInv
<1>1. Types'
  BY DEF Types, TypeOK, Exists, Request
<1>2. NamesKnown'
  BY DEF Types, TypeOK, NamesKnown, Exists
<1>3. HandlersInv'
  BY DEF Types, TypeOK, NamesKnown, HandlersInv, HandlerInv, At, Exists
<1>4. StuckIsExplained'
  BY DEF Types, TypeOK, StuckIsExplained, Unsettled, Exists, Queueing, At, Running
<1> QED
  BY <1>1, <1>2, <1>3, <1>4, JobsStand, RowsStand

LEMMA FindStep ==
  ASSUME DocumentsInv, NEW r \in Requests, NEW d \in Docs,
         NEW op \in {"delete", "reprocess"}, Find(r, op, d)
  PROVE  DocumentsInv'
<1> USE DEF Find, tables, DocumentsInv
<1>1. Types'
  BY DEF Types, TypeOK, Exists, Request
<1>2. NamesKnown'
  BY DEF Types, TypeOK, NamesKnown, Exists
<1>3. HandlersInv'
  BY DEF Types, TypeOK, NamesKnown, HandlersInv, HandlerInv, At, Exists
<1>4. StuckIsExplained'
  BY DEF Types, TypeOK, StuckIsExplained, Unsettled, Exists, Queueing, At, Running
<1> QED
  BY <1>1, <1>2, <1>3, <1>4, JobsStand, RowsStand

LEMMA RequestFailsStep ==
  ASSUME DocumentsInv, NEW r \in Requests, RequestFails(r)
  PROVE  DocumentsInv'
<1> USE DEF RequestFails, Fault, Leave, tables, DocumentsInv
<1>1. Types'
  BY PipelineAssumption DEF Types, TypeOK, Exists, Request
<1>2. NamesKnown'
  BY DEF Types, TypeOK, NamesKnown, Exists
<1>3. HandlersInv'
  BY DEF Types, TypeOK, NamesKnown, HandlersInv, HandlerInv, At, Exists
<1>4. StuckIsExplained'
  BY DEF Types, TypeOK, StuckIsExplained, Unsettled, Exists, Queueing, At, Running
<1> QED
  BY <1>1, <1>2, <1>3, <1>4, JobsStand, RowsStand

LEMMA UnlinkFileStep ==
  ASSUME DocumentsInv, NEW r \in Requests, UnlinkFile(r)
  PROVE  DocumentsInv'
<1> USE DEF UnlinkFile, DocumentsInv
<1>i. PICK d \in Docs : d = request[r].doc
  BY DEF Types, TypeOK, At, Request
<1>1. Types'
  BY DEF Types, TypeOK, Exists, Request, At, Go
<1>2. NamesKnown'
  BY DEF Types, TypeOK, NamesKnown, Exists, Go, At, Request
<1>3. HandlersInv'
  BY <1>i DEF Types, TypeOK, NamesKnown, HandlersInv, HandlerInv, At, Exists, Go, Request
<1>4. StuckIsExplained'
  BY DEF Types, TypeOK, StuckIsExplained, Unsettled, Exists, Queueing, At,
     Running, Go, Request
<1> QED
  BY <1>1, <1>2, <1>3, <1>4, JobsStand, RowsStand

LEMMA CreateDocumentStep ==
  ASSUME DocumentsInv, NEW r \in Requests, CreateDocument(r)
  PROVE  DocumentsInv'
<1> USE DEF CreateDocument, DocumentsInv
<1>i. PICK d \in Docs : d = request[r].doc
  BY DEF Types, TypeOK, At, Request
<1> DEFINE row == [status |-> "PENDING", totalChunks |-> 0, by |-> NoRun]
<1>r. row \in DocRow /\ row # NoDoc
  BY AbsenceAssumption DEF DocRow
<1>d. /\ docs \in [Docs -> DocRow \cup {NoDoc}]
      /\ docs' = [docs EXCEPT ![d] = row]
  BY <1>i DEF Types, TypeOK
<1>0. /\ d \in files /\ ~Exists(d)
      /\ \A x \in RunIds : runs[x] # NoRun => runs[x].doc # d
  BY <1>i DEF HandlersInv, HandlerInv, At
<1>1. Types'
  BY <1>i, <1>r, <1>d DEF Types, TypeOK, Exists, Request, At, Go
<1>2. NamesKnown'
  BY <1>i, <1>r, <1>d DEF Types, TypeOK, NamesKnown, Exists, Go, At, Request
<1>3. HandlersInv'
  BY <1>i, <1>r, <1>d, <1>0
  DEF Types, TypeOK, NamesKnown, HandlersInv, HandlerInv, At, Exists, Go, Request
<1>4. ChunksInv'
  BY <1>0, <1>d, ChunksKept
<1>5. CompletedInv'
  <2>1. \A e \in Docs : Searchable(e)' => Searchable(e) /\ e # d
    BY <1>d, <1>r DEF Searchable, Exists
  <2> QED
    BY <1>d, <2>1 DEF CompletedInv, Own, RowsOf
<1>6. StuckIsExplained'
  <2>1. \A e \in Docs : Unsettled(e)' => Unsettled(e) \/ e = d
    BY <1>d DEF Unsettled, Exists
  <2>2. Queueing(r)' /\ request'[r].doc = d
    BY <1>i, RequestGoes DEF Queueing, At
  <2>3. \A q \in Requests : Queueing(q) => Queueing(q)' /\ request'[q] = request[q]
    BY RequestGoes DEF Queueing, At
  <2> QED
    BY <2>1, <2>2, <2>3 DEF StuckIsExplained, Running
<1> QED
  BY <1>1, <1>2, <1>3, <1>4, <1>5, <1>6, JobsStand

LEMMA MarkPendingStep ==
  ASSUME DocumentsInv, NEW r \in Requests, MarkPending(r)
  PROVE  DocumentsInv'
<1> USE DEF MarkPending, DocumentsInv
<1>i. PICK d \in Docs : d = request[r].doc
  BY DEF Types, TypeOK, At, Request
<1> DEFINE row == [docs[d] EXCEPT !.status = "PENDING", !.totalChunks = 0]
<1>1. CASE Exists(d)
  <2>r. row \in DocRow /\ row # NoDoc /\ row.status = "PENDING"
    <3>1. docs[d] \in DocRow
      BY <1>1 DEF Types, TypeOK, Exists
    <3>2. row \in DocRow /\ row.status = "PENDING"
      BY <3>1 DEF DocRow
    <3> QED
      BY <3>2, AbsenceAssumption
  <2>d. /\ docs \in [Docs -> DocRow \cup {NoDoc}]
        /\ docs' = [docs EXCEPT ![d] = row]
    BY <1>1, <1>i DEF Types, TypeOK
  <2>e. \A e \in Docs : Exists(e)' <=> Exists(e)
    BY <1>1, <2>r, <2>d DEF Exists
  <2> HIDE DEF row
  <2>1. Types'
    BY <1>1, <1>i, <2>r, <2>d, <2>e DEF Types, TypeOK, Request, At, Go
  <2>2. NamesKnown'
    BY <1>1, <1>i, <2>e DEF Types, TypeOK, NamesKnown, Go, At, Request
  <2>3. HandlersInv'
    BY <1>1, <1>i, <2>e
    DEF Types, TypeOK, NamesKnown, HandlersInv, HandlerInv, At, Go, Request
  <2>4. ChunksInv'
    BY <2>e, ChunksKept DEF Exists
  <2>5. CompletedInv'
    <3>1. \A e \in Docs : Searchable(e)' => Searchable(e) /\ e # d
      BY <2>d, <2>r, <2>e DEF Searchable
    <3> QED
      BY <2>d, <3>1 DEF CompletedInv, Own, RowsOf
  <2>6. StuckIsExplained'
    <3>1. \A e \in Docs : Unsettled(e)' => Unsettled(e) \/ e = d
      BY <2>d, <2>e DEF Unsettled
    <3>2. Queueing(r)' /\ request'[r].doc = d
      BY <1>1, <1>i, RequestGoes DEF Queueing, At
    <3>3. \A q \in Requests :
            Queueing(q) => Queueing(q)' /\ request'[q] = request[q]
      BY <1>1, <1>i, RequestGoes DEF Queueing, At
    <3> QED
      BY <3>1, <3>2, <3>3 DEF StuckIsExplained, Running
  <2> QED
    BY <2>1, <2>2, <2>3, <2>4, <2>5, <2>6, JobsStand, <1>1, <1>i
<1>2. CASE ~Exists(d)
  <2> USE <1>2, <1>i
  <2>1. Types'
    BY DEF Types, TypeOK, Exists, Request, At, Leave
  <2>2. NamesKnown'
    BY DEF Types, TypeOK, NamesKnown, Exists, Leave
  <2>3. HandlersInv'
    BY DEF Types, TypeOK, NamesKnown, HandlersInv, HandlerInv, At, Exists, Leave
  <2>4. StuckIsExplained'
    BY DEF Types, TypeOK, StuckIsExplained, Unsettled, Exists, Queueing, At,
       Running, Leave
  <2> QED
    BY <2>1, <2>2, <2>3, <2>4, JobsStand, RowsStand
<1> QED
  BY <1>1, <1>2

LEMMA DeleteRowStep ==
  ASSUME DocumentsInv, NEW r \in Requests, DeleteRow(r)
  PROVE  DocumentsInv'
<1> USE DEF DeleteRow, DocumentsInv
<1>i. PICK d \in Docs : d = request[r].doc
  BY DEF Types, TypeOK, At, Request
<1>0. /\ d \notin files
      /\ docs \in [Docs -> DocRow \cup {NoDoc}]
      /\ docs' = [docs EXCEPT ![d] = NoDoc]
      /\ chunks \in [Docs -> SUBSET ChunkRow]
      /\ chunks' = [chunks EXCEPT ![d] = {}]
  BY <1>i DEF Types, TypeOK, HandlersInv, HandlerInv, At
<1>e. \A e \in Docs : Exists(e)' <=> Exists(e) /\ e # d
  BY <1>0 DEF Exists
<1>1. Types'
  BY <1>i, <1>0, <1>e DEF Types, TypeOK, Request, At, Leave
<1>2. NamesKnown'
  BY <1>e DEF Types, TypeOK, NamesKnown, Leave
<1>3. HandlersInv'
  BY <1>0, <1>e DEF Types, TypeOK, NamesKnown, HandlersInv, HandlerInv, At, Leave, Request
<1>4. ChunksInv'
  BY <1>0, <1>e DEF Types, TypeOK, Run, ChunksInv, Progress, Own, RowsOf, Written
<1>5. CompletedInv'
  <2>1. \A e \in Docs : Searchable(e)' => Searchable(e) /\ e # d
    BY <1>0, <1>e DEF Searchable
  <2> QED
    BY <1>0, <2>1 DEF CompletedInv, Own, RowsOf
<1>6. StuckIsExplained'
  <2>1. \A e \in Docs : Unsettled(e)' => Unsettled(e) /\ e # d
    BY <1>0, <1>e DEF Unsettled
  <2> QED
    BY <1>i, <2>1 DEF Types, TypeOK, StuckIsExplained, Queueing, At, Running,
       Leave
<1> QED
  BY <1>1, <1>2, <1>3, <1>4, <1>5, <1>6, JobsStand

LEMMA ClearChunksStep ==
  ASSUME DocumentsInv, NEW r \in Requests, ClearChunks(r)
  PROVE  DocumentsInv'
<1> USE DEF ClearChunks, DocumentsInv
<1>i. PICK d \in Docs : d = request[r].doc
  BY DEF Types, TypeOK, At, Request
<1>0. /\ chunks \in [Docs -> SUBSET ChunkRow]
      /\ chunks' = [chunks EXCEPT ![d] = {}]
      /\ UNCHANGED <<files, docs, jobs, known, abandoned, faults, crashes>>
      /\ request[r] # NoRequest /\ Go(r, "cleared")
  BY <1>i DEF Types, At
<1>x. \A x \in RunIds :
        /\ runs'[x] # NoRun <=> runs[x] # NoRun
        /\ runs[x] # NoRun =>
             /\ runs'[x] \in Run
             /\ runs'[x].doc = runs[x].doc /\ runs'[x].job = runs[x].job
             /\ runs'[x].step = runs[x].step /\ runs'[x].index = runs[x].index
             /\ runs'[x].cleared = (runs[x].cleared \/ runs[x].doc = d)
  <2> TAKE x \in RunIds
  <2>1. CASE runs[x] # NoRun /\ runs[x].doc = d
    <3> DEFINE h == [runs[x] EXCEPT !.cleared = TRUE]
    <3>1. runs[x] \in Run
      BY <2>1 DEF Types, TypeOK
    <3>2. /\ h \in Run /\ h.doc = runs[x].doc /\ h.job = runs[x].job
          /\ h.step = runs[x].step /\ h.index = runs[x].index /\ h.cleared
      BY <3>1 DEF Run
    <3>3. runs'[x] = h
      BY <1>i, <2>1
    <3> QED
      BY <2>1, <3>2, <3>3, AbsenceAssumption
  <2>2. CASE ~(runs[x] # NoRun /\ runs[x].doc = d)
    <3>1. runs'[x] = runs[x]
      BY <1>i, <2>2
    <3>2. runs[x] # NoRun => runs[x] \in Run /\ runs[x].cleared \in BOOLEAN
      BY DEF Types, TypeOK, Run
    <3> QED
      BY <2>2, <3>1, <3>2
  <2> QED
    BY <2>1, <2>2
<1>y. runs' \in [RunIds -> Run \cup {NoRun}]
  BY <1>x
<1>e. \A e \in Docs : Exists(e)' <=> Exists(e)
  BY DEF Exists
<1>u. \A x \in RunIds : Running(x)' <=> Running(x)
  BY <1>x DEF Running
<1>g. /\ request'[r] \in Request
      /\ request'[r] # NoRequest /\ request'[r].op = "reprocess"
      /\ request'[r].step = "cleared" /\ request'[r].doc = d
      /\ \A q \in Requests \ {r} : request'[q] = request[q]
  BY <1>i, <1>0, RequestGoes DEF At
<1>h. request' \in [Requests -> Request \cup {NoRequest}]
  BY <1>0, <1>g DEF Types, TypeOK, Go
<1>f. /\ request[r] # NoRequest /\ ~At(r, "upload", "stored")
      /\ ~Queueing(r)
  BY DEF At, Queueing
<1> HIDE DEF ClearChunks
<1>1. Types'
  <2>1. /\ chunks' \in [Docs -> SUBSET ChunkRow]
        /\ \A e \in Docs : chunks'[e] \subseteq chunks[e]
    BY <1>0
  <2> QED
    BY <1>0, <1>y, <1>e, <1>h, <2>1 DEF Types, TypeOK
<1>2. Numbered'
  BY <1>0, <1>x DEF Numbered, Gapless, RunIds
<1>3. NamesKnown'
  BY <1>i, <1>0, <1>x, <1>e, <1>g DEF NamesKnown
<1>4. HandlersInv'
  <2> SUFFICES ASSUME NEW q \in Requests, (request[q] # NoRequest)'
               PROVE  HandlerInv(q)'
    BY DEF HandlersInv, HandlerInv
  <2>1. CASE q = r
    BY <1>i, <1>0, <1>e, <1>g, <1>f, <2>1 DEF HandlersInv, HandlerInv, At
  <2>2. CASE q # r
    <3>1. request'[q] = request[q] /\ request[q] # NoRequest /\ HandlerInv(q)
      BY <1>g, <2>2 DEF HandlersInv
    <3>2. request'[r].doc = request[r].doc
      BY <1>i, <1>g
    <3> QED
      BY <1>0, <1>x, <1>g, <2>2, <3>1, <3>2 DEF HandlerInv, At, Exists
  <2> QED
    BY <2>1, <2>2
<1>5. JobsInv'
  BY <1>0, <1>x, <1>u DEF JobsInv, JobInv
<1>6. ChunksInv'
  <2>1. \A e \in Docs : /\ chunks'[e] \subseteq chunks[e]
                         /\ e # d => chunks'[e] = chunks[e]
    BY <1>0
  <2>2. \A e \in Docs : \A c \in chunks'[e] :
          runs'[c.run] # NoRun /\ runs'[c.run].doc = e
    BY <1>0, <1>x, <2>1 DEF ChunksInv, ChunkRow
  <2>3. ASSUME NEW x \in RunIds, runs'[x] # NoRun
        PROVE  Progress(runs'[x], x, docs'[runs'[x].doc],
                        chunks'[runs'[x].doc])
    <3>1. /\ runs[x] # NoRun /\ runs[x].doc \in Docs
          /\ runs'[x].cleared \/ runs[x].doc # d
      BY <1>x, <2>3 DEF Types, TypeOK, Run
    <3>2. Written(runs'[x]) = Written(runs[x])
      BY <1>x, <3>1 DEF Written
    <3>3. Progress(runs[x], x, docs[runs[x].doc], chunks[runs[x].doc])
      BY <3>1 DEF ChunksInv
    <3>4. /\ runs'[x].doc = runs[x].doc /\ docs' = docs
          /\ runs[x].doc # d => chunks'[runs[x].doc] = chunks[runs[x].doc]
      BY <1>0, <1>x, <2>1, <3>1
    <3> QED
      BY <1>x, <3>1, <3>2, <3>3, <3>4 DEF Progress
  <2> QED
    BY <2>2, <2>3 DEF ChunksInv
<1>7. CompletedInv'
  BY <1>0, <1>x, <1>e DEF Types, TypeOK, Run, CompletedInv, Searchable, Own, RowsOf
<1>8. StuckIsExplained'
  <2>1. \A e \in Docs : Unsettled(e)' <=> Unsettled(e)
    BY <1>0, <1>e DEF Unsettled
  <2>2. \A q \in Requests :
          Queueing(q) => Queueing(q)' /\ request'[q] = request[q]
    BY <1>0, RequestGoes DEF Queueing, At, ClearChunks
  <2> QED
    BY <1>0, <1>x, <1>u, <2>1, <2>2 DEF StuckIsExplained, Running
<1> QED
  BY <1>1, <1>2, <1>3, <1>4, <1>5, <1>6, <1>7, <1>8

LEMMA EnqueueStep ==
  ASSUME DocumentsInv, NEW r \in Requests, Enqueue(r)
  PROVE  DocumentsInv'
<1> USE DEF Enqueue, tables, DocumentsInv
<1>i. PICK d \in Docs : d = request[r].doc
  BY DEF Types, TypeOK, Queueing, At, Request
<1>a. /\ Added(d) \in Job /\ Added(d) # NoJob
      /\ Gapless(jobs', MaxJobs, NoJob)
  BY <1>i, AddedJob
<1>j. PICK j \in JobIds : /\ jobs[j] = NoJob
                          /\ jobs' = [jobs EXCEPT ![j] = Added(d)]
  BY <1>i, AddedJob
<1>0. /\ jobs \in [JobIds -> Job \cup {NoJob}]
      /\ \A i \in JobIds : jobs[i] # NoJob => jobs'[i] = jobs[i]
      /\ jobs'[j] = Added(d)
      /\ Added(d).doc = d /\ Added(d).state = "waiting"
      /\ request[r] # NoRequest /\ d \in known
  BY <1>i, <1>j DEF Types, TypeOK, Added, Queueing, At, NamesKnown
<1>s. \A q \in Requests :
        At(q, "upload", "stored") => q # r /\ request[q].doc # d
  BY <1>i, <1>0 DEF HandlersInv, HandlerInv, Queueing, At
<1>1. Types'
  BY <1>a, <1>j, <1>0 DEF Types, TypeOK, Leave, Exists
<1>2. Numbered'
  BY <1>a DEF Numbered, Gapless
<1>3. NamesKnown'
  BY <1>a, <1>j, <1>0 DEF Types, TypeOK, NamesKnown, Leave, Exists
<1>4. HandlersInv'
  BY <1>a, <1>j, <1>0, <1>s DEF Types, TypeOK, HandlersInv, HandlerInv, At, Leave, Exists
<1>5. JobsInv'
  BY <1>j, <1>0 DEF Types, TypeOK, Run, JobsInv, JobInv, Running
<1>6. StuckIsExplained'
  BY <1>i, <1>a, <1>j, <1>0 DEF Types, TypeOK, StuckIsExplained, Unsettled,
     Exists, Queueing, At, Running, Leave
<1> QED
  BY <1>1, <1>2, <1>3, <1>4, <1>5, <1>6, RowsStand

\* A run that begins has created nothing, and nobody knows of it.
LEMMA RunBegins ==
  ASSUME DocumentsInv, UNCHANGED <<docs, chunks>>,
         NEW x \in RunIds, NEW h \in Run, runs[x] = NoRun, h # NoRun,
         h.step = "start", h.index = 0, runs' = [runs EXCEPT ![x] = h]
  PROVE  ChunksInv' /\ CompletedInv'
<1>0. /\ runs'[x] = h
      /\ \A y \in RunIds \ {x} : runs'[y] = runs[y]
      /\ \A y \in RunIds : runs[y] # NoRun => y # x
  BY DEF DocumentsInv, Types, TypeOK
<1>c. \A d \in Docs : \A c \in chunks[d] :
        c.run \in RunIds /\ runs[c.run] # NoRun /\ runs[c.run].doc = d
  BY DEF DocumentsInv, Types, TypeOK, ChunksInv, ChunkRow
<1>1. ChunksInv'
  <2>1. \A d \in Docs : \A c \in chunks[d] :
          runs'[c.run] # NoRun /\ runs'[c.run].doc = d
    BY <1>0, <1>c
  <2>2. Progress(h, x, docs[h.doc], chunks[h.doc])
    <3>1. h.doc \in Docs
      BY DEF Run
    <3>2. Own(chunks[h.doc], x) = {}
      BY <1>c, <3>1 DEF Own
    <3>3. RowsOf(x, Written(h)) = {}
      BY DEF RowsOf, Written
    <3> QED
      BY <3>2, <3>3 DEF Progress
  <2>3. \A y \in RunIds : runs'[y] # NoRun =>
          Progress(runs'[y], y, docs[runs'[y].doc], chunks[runs'[y].doc])
    BY <1>0, <2>2 DEF DocumentsInv, ChunksInv
  <2> QED
    BY <2>1, <2>3 DEF ChunksInv
<1>2. CompletedInv'
  BY <1>0 DEF DocumentsInv, CompletedInv, Searchable, Exists, Own, RowsOf
<1> QED
  BY <1>1, <1>2

LEMMA EnqueueFailsStep ==
  ASSUME DocumentsInv, NEW r \in Requests, EnqueueFails(r)
  PROVE  DocumentsInv'
<1> USE DEF EnqueueFails, Fault, tables, DocumentsInv
<1>i. PICK d \in Docs : d = request[r].doc
  BY DEF Types, TypeOK, Queueing, At, Request
<1>x. PICK x \in RunIds : /\ runs[x] = NoRun
                          /\ runs' = [runs EXCEPT ![x] = Fresh(d, NoJob)]
  BY <1>i, BegunRun
<1>b. /\ Fresh(d, NoJob) \in Run /\ Fresh(d, NoJob) # NoRun
      /\ Gapless(runs', MaxRuns, NoRun)
  BY <1>i, BegunRun
<1>j. /\ jobs' \in [JobIds -> Job \cup {NoJob}]
      /\ \A i \in JobIds : jobs[i] # NoJob => jobs'[i] = jobs[i]
      /\ \A i \in JobIds : jobs'[i] # NoJob =>
           jobs'[i] = jobs[i] \/ jobs'[i].doc = d
      /\ Gapless(jobs', MaxJobs, NoJob)
  <2>1. CASE UNCHANGED jobs
    BY <2>1 DEF Types, TypeOK, Numbered, Gapless
  <2>2. CASE AddJob(d)
    <3>1. PICK j \in JobIds : jobs[j] = NoJob /\ jobs' = [jobs EXCEPT ![j] = Added(d)]
      BY <2>2, AddedJob
    <3>2. Added(d) \in Job /\ Added(d).doc = d /\ Gapless(jobs', MaxJobs, NoJob)
      BY <2>2, AddedJob DEF Added
    <3> QED
      BY <3>1, <3>2 DEF Types, TypeOK
  <2> QED
    BY <1>i, <2>1, <2>2
<1>0. /\ runs \in [RunIds -> Run \cup {NoRun}]
      /\ \A y \in RunIds : runs[y] # NoRun => runs'[y] = runs[y] /\ y # x
      /\ runs'[x] = Fresh(d, NoJob)
      /\ Fresh(d, NoJob).doc = d /\ Fresh(d, NoJob).job = NoJob
      /\ Fresh(d, NoJob).step = "start" /\ Fresh(d, NoJob).index = 0
      /\ request[r] # NoRequest /\ d \in known
      /\ request' = [request EXCEPT ![r] = NoRequest]
  BY <1>i, <1>x DEF Types, TypeOK, Fresh, Queueing, At, NamesKnown, Leave
<1>s. \A q \in Requests :
        At(q, "upload", "stored") => q # r /\ request[q].doc # d
  BY <1>i, <1>0 DEF HandlersInv, HandlerInv, Queueing, At
<1>1. Types'
  BY <1>b, <1>x, <1>j, <1>0, PipelineAssumption DEF Types, TypeOK, Exists
<1>2. Numbered'
  BY <1>b, <1>j DEF Numbered, Gapless
<1>3. NamesKnown'
  BY <1>x, <1>j, <1>0 DEF Types, TypeOK, NamesKnown, Exists
<1>4. HandlersInv'
  <2> SUFFICES ASSUME NEW q \in Requests, (request[q] # NoRequest)'
               PROVE  HandlerInv(q)'
    BY DEF HandlersInv
  <2>1. q # r /\ request'[q] = request[q] /\ request[q] # NoRequest
        /\ HandlerInv(q)
    BY <1>0 DEF Types, TypeOK, HandlersInv
  <2>2. CASE At(q, "upload", "stored")
    BY <1>x, <1>j, <1>0, <1>s, <2>1, <2>2 DEF Types, TypeOK, HandlerInv, At, Exists
  <2>3. CASE ~At(q, "upload", "stored")
    BY <2>1, <2>3 DEF HandlerInv, At, Exists
  <2> QED
    BY <2>2, <2>3
<1>5. JobsInv'
  <2>1. \A y \in RunIds : Running(y)' /\ runs'[y].job # NoJob =>
          Running(y) /\ runs'[y] = runs[y]
    BY <1>x, <1>0 DEF Running
  <2> QED
    BY <1>x, <1>j, <1>0, <2>1 DEF Types, TypeOK, Run, JobsInv, JobInv, Running
<1>6. ChunksInv' /\ CompletedInv'
  BY <1>x, <1>b, <1>0, RunBegins
<1>7. StuckIsExplained'
  <2>1. Running(x)' /\ runs'[x].doc = d
    BY <1>0, <1>b DEF Running
  <2> QED
    BY <1>i, <1>x, <1>j, <1>0, <2>1 DEF Types, TypeOK, StuckIsExplained,
       Unsettled, Exists, Queueing, At, Running
<1> QED
  BY <1>1, <1>2, <1>3, <1>4, <1>5, <1>6, <1>7

LEMMA TakeJobStep ==
  ASSUME DocumentsInv, NEW j \in JobIds, TakeJob(j)
  PROVE  DocumentsInv'
<1> USE DEF TakeJob, tables, DocumentsInv
<1>j. /\ jobs \in [JobIds -> Job \cup {NoJob}] /\ jobs[j] \in Job
      /\ jobs[j].state = "waiting"
  BY DEF Types, TypeOK
<1>i. PICK d \in Docs : d = jobs[j].doc
  BY <1>j DEF Job
<1> DEFINE taken == [jobs[j] EXCEPT !.state = "active"]
<1>t. /\ taken \in Job /\ taken # NoJob /\ taken.doc = d
      /\ taken.state = "active" /\ jobs' = [jobs EXCEPT ![j] = taken]
  <2>1. taken \in Job /\ taken.doc = d /\ taken.state = "active"
    BY <1>i, <1>j DEF Job
  <2> QED
    BY <2>1, AbsenceAssumption
<1> HIDE DEF taken
<1>x. PICK x \in RunIds : /\ runs[x] = NoRun
                          /\ runs' = [runs EXCEPT ![x] = Fresh(d, j)]
  BY <1>i, BegunRun
<1>b. /\ Fresh(d, j) \in Run /\ Fresh(d, j) # NoRun
      /\ Gapless(runs', MaxRuns, NoRun)
  BY <1>i, BegunRun
<1>0. /\ runs \in [RunIds -> Run \cup {NoRun}]
      /\ \A y \in RunIds : runs[y] # NoRun => runs'[y] = runs[y] /\ y # x
      /\ runs'[x] = Fresh(d, j)
      /\ Fresh(d, j).doc = d /\ Fresh(d, j).job = j
      /\ Fresh(d, j).step = "start" /\ Fresh(d, j).index = 0
  BY <1>x DEF Types, TypeOK, Fresh
<1>1. Types'
  BY <1>b, <1>x, <1>t, <1>0 DEF Types, TypeOK, Exists
<1>2. Numbered'
  BY <1>b, <1>t, <1>j DEF Numbered, Gapless, JobIds
<1>3. NamesKnown'
  BY <1>i, <1>x, <1>j, <1>t, <1>0 DEF Types, TypeOK, NamesKnown, Exists
<1>4. HandlersInv'
  BY <1>i, <1>x, <1>j, <1>t, <1>0 DEF HandlersInv, HandlerInv, At, Exists
<1>5. JobsInv'
  <2>1. \A y \in RunIds : Running(y) => runs[y].job # j
    BY <1>j, AbsenceAssumption DEF JobsInv, JobInv, Running
  <2> SUFFICES ASSUME NEW y \in RunIds, runs'[y] # NoRun, runs'[y].job # NoJob
               PROVE  JobInv(y)'
    BY DEF JobsInv
  <2>2. CASE y = x
    <3>1. \A z \in RunIds : Running(z)' /\ runs'[z].job = j => z = x
      BY <1>x, <1>0, <2>1 DEF Running
    <3>2. jobs'[j] = taken /\ runs'[x].job = j /\ runs'[x].doc = d
      BY <1>j, <1>t, <1>0
    <3> QED
      BY <1>t, <2>2, <3>1, <3>2 DEF JobInv
  <2>3. CASE y # x
    <3>1. runs'[y] = runs[y] /\ runs[y] # NoRun /\ JobInv(y)
      BY <1>x, <1>0, <2>3 DEF JobsInv
    <3>2. PICK k \in JobIds : k = runs[y].job
      BY <1>0, <2>3, <3>1 DEF Run
    <3>3. CASE k = j
      <4>1. ~Running(y)'
        BY <2>1, <3>1, <3>2, <3>3 DEF Running
      <4> QED
        BY <1>i, <1>j, <1>t, <3>1, <3>2, <3>3, <4>1 DEF JobInv
    <3>4. CASE k # j
      <4>1. jobs'[k] = jobs[k]
        BY <1>j, <1>t, <3>4
      <4>2. \A z \in RunIds : Running(z)' /\ runs'[z].job = k =>
              Running(z) /\ runs[z].job = k
        BY <1>x, <1>0, <3>4 DEF Running
      <4>3. Running(y)' => Running(y)
        BY <3>1 DEF Running
      <4> QED
        BY <3>1, <3>2, <4>1, <4>2, <4>3 DEF JobInv
    <3> QED
      BY <3>3, <3>4
  <2> QED
    BY <2>2, <2>3
<1>6. ChunksInv' /\ CompletedInv'
  BY <1>x, <1>b, <1>0, RunBegins
<1>7. StuckIsExplained'
  BY <1>x, <1>j, <1>t, <1>0 DEF Types, TypeOK, StuckIsExplained,
     Unsettled, Exists, Queueing, At, Running
<1> QED
  BY <1>1, <1>2, <1>3, <1>4, <1>5, <1>6, <1>7

-----------------------------------------------------------------------------
(* Runs *)

\* Run x, at work, moves on as h.
Moves(x, h) ==
  /\ Running(x) /\ h \in Run /\ h # NoRun
  /\ h.doc = runs[x].doc /\ h.job = runs[x].job /\ h.cleared = runs[x].cleared
  /\ runs' = [runs EXCEPT ![x] = h]

\* The job of run x follows it, once it has ended; no other does.
Follows(x, h) ==
  /\ jobs' \in [JobIds -> Job \cup {NoJob}]
  /\ \A i \in JobIds :
       /\ jobs'[i] # NoJob <=> jobs[i] # NoJob
       /\ jobs[i] # NoJob => jobs'[i].doc = jobs[i].doc
       /\ i # runs[x].job \/ h.step # "ended" => jobs'[i] = jobs[i]

\* Rows of documents change, but none comes or goes.
KeepsListed == \A d \in Docs : docs'[d] # NoDoc <=> docs[d] # NoDoc

LEMMA MovesFacts ==
  ASSUME DocumentsInv, NEW x \in RunIds, NEW h, Moves(x, h)
  PROVE  /\ runs[x] \in Run /\ runs[x] # NoRun /\ h.doc \in Docs
         /\ runs'[x] = h /\ \A y \in RunIds \ {x} : runs'[y] = runs[y]
         /\ runs' \in [RunIds -> Run \cup {NoRun}]
         /\ runs[x].job \in JobIds =>
              /\ jobs[runs[x].job] \in Job /\ jobs[runs[x].job] # NoJob
              /\ jobs[runs[x].job].doc = h.doc
              /\ jobs[runs[x].job].state = "active"
<1>1. /\ runs[x] \in Run /\ runs[x] # NoRun
      /\ runs \in [RunIds -> Run \cup {NoRun}]
  BY DEF DocumentsInv, Types, TypeOK, Moves, Running
<1>2. /\ runs'[x] = h /\ \A y \in RunIds \ {x} : runs'[y] = runs[y]
      /\ runs' \in [RunIds -> Run \cup {NoRun}] /\ h.doc \in Docs
  BY <1>1 DEF Moves, Run
<1>3. ASSUME runs[x].job \in JobIds
      PROVE  /\ jobs[runs[x].job] \in Job /\ jobs[runs[x].job] # NoJob
             /\ jobs[runs[x].job].doc = h.doc
             /\ jobs[runs[x].job].state = "active"
  <2>1. JobInv(x)
    BY <1>1, <1>3, AbsenceAssumption DEF DocumentsInv, JobsInv
  <2> QED
    BY <1>3, <2>1 DEF DocumentsInv, Types, TypeOK, JobInv, Moves
<1> QED
  BY <1>1, <1>2, <1>3

LEMMA StepMoves ==
  ASSUME DocumentsInv, NEW x \in RunIds, Running(x),
         NEW step \in {"load", "chunk", "embed", "fail", "ended"},
         Step(x, step)
  PROVE  \E h \in Run : Moves(x, h) /\ h.step = step /\ h.index = runs[x].index
<1> DEFINE h == [runs[x] EXCEPT !.step = step]
<1>1. /\ runs[x] \in Run /\ runs[x] # NoRun
      /\ runs \in [RunIds -> Run \cup {NoRun}]
  BY DEF DocumentsInv, Types, TypeOK, Running
<1>2. /\ h \in Run /\ h.doc = runs[x].doc /\ h.job = runs[x].job
      /\ h.cleared = runs[x].cleared /\ h.step = step
      /\ h.index = runs[x].index
  BY <1>1 DEF Run
<1>3. h # NoRun
  BY <1>2, AbsenceAssumption
<1>4. runs' = [runs EXCEPT ![x] = h]
  BY <1>1 DEF Step
<1> QED
  BY <1>2, <1>3, <1>4 DEF Moves

LEMMA MovesNames ==
  ASSUME DocumentsInv, NEW x \in RunIds, NEW h, Moves(x, h), Follows(x, h),
         KeepsListed, UNCHANGED <<files, request, known>>
  PROVE  Numbered' /\ NamesKnown' /\ HandlersInv' /\ JobsInv'
<1>0. /\ runs[x] # NoRun /\ runs'[x] = h
      /\ \A y \in RunIds \ {x} : runs'[y] = runs[y]
      /\ \A y \in RunIds : /\ runs'[y] # NoRun <=> runs[y] # NoRun
                           /\ runs'[y].doc = runs[y].doc
                           /\ runs'[y].job = runs[y].job
                           /\ Running(y)' => Running(y)
  BY MovesFacts DEF Moves, Running
<1>1. Numbered'
  BY <1>0 DEF DocumentsInv, Numbered, Gapless, Follows, JobIds, RunIds
<1>2. NamesKnown'
  BY <1>0 DEF DocumentsInv, NamesKnown, Follows, KeepsListed, Exists
<1>3. HandlersInv'
  <2> SUFFICES ASSUME NEW q \in Requests, (request[q] # NoRequest)'
               PROVE  HandlerInv(q)'
    BY DEF HandlersInv
  <2>1. HandlerInv(q) /\ request[q].doc \in Docs
    BY DEF DocumentsInv, HandlersInv, Types, TypeOK, Request
  <2>2. At(q, "upload", "stored")' <=> At(q, "upload", "stored")
    BY DEF At
  <2>3. At(q, "delete", "unlinked")' <=> At(q, "delete", "unlinked")
    BY DEF At
  <2>4. Exists(request[q].doc)' <=> Exists(request[q].doc)
    BY <2>1 DEF KeepsListed, Exists
  <2> QED
    BY <1>0, <2>1, <2>2, <2>3, <2>4 DEF HandlerInv, Follows
<1>4. JobsInv'
  <2> SUFFICES ASSUME NEW y \in RunIds, runs'[y] # NoRun, runs'[y].job # NoJob
               PROVE  JobInv(y)'
    BY DEF JobsInv
  <2>1. JobInv(y) /\ runs[y].job \in JobIds
    BY <1>0 DEF DocumentsInv, JobsInv, Types, TypeOK, Run
  <2>2. ASSUME Running(y)'
        PROVE  jobs'[runs[y].job] = jobs[runs[y].job]
    <3>1. CASE y = x
      BY <1>0, <2>1, <2>2, <3>1 DEF Follows, Running
    <3>2. CASE y # x
      <4>1. runs[x].job # runs[y].job
        BY <1>0, <2>1, <2>2, <3>2 DEF JobInv, Moves
      <4> QED
        BY <2>1, <4>1 DEF Follows
    <3> QED
      BY <3>1, <3>2
  <2> QED
    BY <1>0, <2>1, <2>2 DEF JobInv, Follows
<1> QED
  BY <1>1, <1>2, <1>3, <1>4

\* Only run x adds rows, to its document and under its own number.
OnlyAdds(x, d) ==
  /\ chunks' \in [Docs -> SUBSET ChunkRow]
  /\ \A e \in Docs : chunks[e] \subseteq chunks'[e]
  /\ \A e \in Docs : \A c \in chunks'[e] :
       c \in chunks[e] \/ (c.run = x /\ e = d)

LEMMA OthersOwn ==
  ASSUME NEW x, NEW d, OnlyAdds(x, d), NEW e \in Docs, NEW y, y # x \/ e # d
  PROVE  Own(chunks'[e], y) = Own(chunks[e], y)
  BY DEF OnlyAdds, Own

LEMMA MovesChunks ==
  ASSUME DocumentsInv, NEW x \in RunIds, NEW h, Moves(x, h), KeepsListed,
         OnlyAdds(x, h.doc),
         Progress(h, x, docs'[h.doc], chunks'[h.doc])
  PROVE  ChunksInv'
<1>0. /\ runs[x] # NoRun /\ runs'[x] = h /\ h # NoRun /\ h.doc = runs[x].doc
      /\ \A y \in RunIds \ {x} : runs'[y] = runs[y]
  BY MovesFacts DEF Moves
<1>1. ASSUME NEW d \in Docs, NEW c \in chunks'[d]
      PROVE  runs'[c.run] # NoRun /\ runs'[c.run].doc = d
  <2>1. c.run \in RunIds
    BY DEF OnlyAdds, ChunkRow
  <2>2. CASE c \in chunks[d]
    <3>1. runs[c.run] # NoRun /\ runs[c.run].doc = d
      BY <2>2 DEF DocumentsInv, ChunksInv
    <3> QED
      BY <1>0, <2>1, <3>1
  <2>3. CASE c.run = x /\ d = h.doc
    BY <1>0, <2>3
  <2> QED
    BY <2>2, <2>3 DEF OnlyAdds
<1>2. ASSUME NEW y \in RunIds, runs'[y] # NoRun
      PROVE  Progress(runs'[y], y, docs'[runs'[y].doc], chunks'[runs'[y].doc])
  <2>1. CASE y = x
    BY <1>0, <2>1
  <2>2. CASE y # x
    <3>1. runs'[y] = runs[y] /\ runs[y] # NoRun
      BY <1>0, <1>2, <2>2
    <3>2. /\ Progress(runs[y], y, docs[runs[y].doc], chunks[runs[y].doc])
          /\ runs[y].doc \in Docs
      BY <3>1 DEF DocumentsInv, ChunksInv, Types, TypeOK, Run
    <3>3. Own(chunks'[runs[y].doc], y) = Own(chunks[runs[y].doc], y)
      BY <2>2, <3>2, OthersOwn
    <3>4. docs'[runs[y].doc] # NoDoc => docs[runs[y].doc] # NoDoc
      BY <3>2 DEF KeepsListed
    <3> QED
      BY <3>1, <3>2, <3>3, <3>4 DEF Progress
  <2> QED
    BY <2>1, <2>2
<1> QED
  BY <1>1, <1>2 DEF ChunksInv

\* The document of a run at work may have been completed by another only.
LEMMA MovesCompleted ==
  ASSUME DocumentsInv, NEW x \in RunIds, NEW h, Moves(x, h),
         OnlyAdds(x, h.doc),
         \A d \in Docs : Searchable(d)' =>
           \/ Searchable(d) /\ docs'[d] = docs[d]
           \/ /\ docs'[d].by = x /\ h.doc = d /\ h.step = "ended"
              /\ ~h.cleared => Own(chunks'[d], x) = RowsOf(x, docs'[d].totalChunks)
  PROVE  CompletedInv'
<1>0. /\ runs'[x] = h /\ h # NoRun /\ runs[x].step # "ended"
      /\ \A y \in RunIds \ {x} : runs'[y] = runs[y]
  BY MovesFacts DEF Moves, Running
<1> SUFFICES ASSUME NEW d \in Docs, Searchable(d)'
             PROVE  LET y == docs'[d].by IN
                    /\ y \in RunIds /\ runs'[y] # NoRun
                    /\ runs'[y].doc = d /\ runs'[y].step = "ended"
                    /\ ~runs'[y].cleared =>
                         Own(chunks'[d], y) = RowsOf(y, docs'[d].totalChunks)
  BY DEF CompletedInv, Own, RowsOf
<1>1. CASE Searchable(d) /\ docs'[d] = docs[d]
  <2> DEFINE y == docs[d].by
  <2>1. /\ y \in RunIds /\ runs[y] # NoRun
        /\ runs[y].doc = d /\ runs[y].step = "ended"
        /\ ~runs[y].cleared => Own(chunks[d], y) = RowsOf(y, docs[d].totalChunks)
    BY <1>1 DEF DocumentsInv, CompletedInv
  <2>2. y # x
    BY <1>0, <2>1
  <2>3. Own(chunks'[d], y) = Own(chunks[d], y)
    BY <2>2, OthersOwn
  <2> QED
    BY <1>0, <1>1, <2>1, <2>2, <2>3
<1>2. CASE /\ docs'[d].by = x /\ h.doc = d /\ h.step = "ended"
           /\ ~h.cleared => Own(chunks'[d], x) = RowsOf(x, docs'[d].totalChunks)
  BY <1>0, <1>2
<1> QED
  BY <1>1, <1>2

\* What run x ends without settling is given up or waits for another attempt.
LEMMA MovesExplained ==
  ASSUME DocumentsInv, NEW x \in RunIds, NEW h, Moves(x, h), Follows(x, h),
         UNCHANGED request, abandoned \subseteq abandoned',
         \A d \in Docs : Unsettled(d)' =>
           \/ Unsettled(d) /\ d # h.doc
           \/ /\ d = h.doc
              /\ \/ h.step # "ended"
                 \/ d \in abandoned'
                 \/ h.job \in JobIds /\ jobs'[h.job].state = "waiting"
  PROVE  StuckIsExplained'
<1>0. /\ runs[x] # NoRun /\ runs'[x] = h /\ h # NoRun
      /\ h.doc = runs[x].doc /\ h.job = runs[x].job
      /\ \A y \in RunIds \ {x} : runs'[y] = runs[y]
      /\ h.job \in JobIds =>
           jobs[h.job] # NoJob /\ jobs[h.job].doc = h.doc
  BY MovesFacts DEF Moves
<1> SUFFICES ASSUME NEW d \in Docs, Unsettled(d)',
                    d \notin abandoned',
                    ~\E r \in Requests : Queueing(r)' /\ request'[r].doc = d,
                    ~\E y \in RunIds : Running(y)' /\ runs'[y].doc = d
             PROVE  \E j \in JobIds : /\ jobs'[j] # NoJob /\ jobs'[j].doc = d
                                      /\ jobs'[j].state \in {"waiting", "active"}
  BY DEF StuckIsExplained
<1>1. CASE Unsettled(d) /\ d # h.doc
  <2>1. \A r \in Requests : Queueing(r) => Queueing(r)'
    BY DEF Queueing, At
  <2>2. \A y \in RunIds : Running(y) /\ runs[y].doc = d =>
          Running(y)' /\ runs'[y].doc = d
    BY <1>0, <1>1 DEF Running
  <2>3. PICK j \in JobIds : /\ jobs[j] # NoJob /\ jobs[j].doc = d
                            /\ jobs[j].state \in {"waiting", "active"}
    BY <1>1, <2>1, <2>2 DEF DocumentsInv, StuckIsExplained
  <2>4. jobs'[j] = jobs[j]
    BY <1>0, <1>1, <2>3 DEF Follows
  <2> QED
    BY <2>3, <2>4
<1>2. CASE d = h.doc
  <2>1. h.step = "ended"
    BY <1>0, <1>2 DEF Running
  <2>2. h.job \in JobIds /\ jobs'[h.job].state = "waiting"
    BY <1>2, <2>1
  <2> QED
    BY <1>0, <1>2, <2>2 DEF Follows
<1> QED
  BY <1>1, <1>2

\* processDocument() ends: its job follows.
LEMMA Resolved ==
  ASSUME DocumentsInv, NEW x \in RunIds, Running(x), Resolve(x)
  PROVE  /\ \E h \in Run : Moves(x, h) /\ h.step = "ended" /\ Follows(x, h)
         /\ abandoned' = abandoned
<1>1. PICK h \in Run : Moves(x, h) /\ h.step = "ended"
  BY StepMoves DEF Resolve
<1>2. CASE runs[x].job = NoJob
  BY <1>1, <1>2 DEF Resolve, Follows, DocumentsInv, Types, TypeOK
<1>3. CASE runs[x].job # NoJob
  <2>1. PICK j \in JobIds : j = runs[x].job
    BY <1>1, <1>3, MovesFacts DEF Run
  <2>2. jobs[j] \in Job /\ jobs[j] # NoJob
    BY <1>1, <2>1, MovesFacts
  <2> DEFINE ended == [jobs[j] EXCEPT !.state = "completed"]
  <2>3. ended \in Job /\ ended.doc = jobs[j].doc
    BY <2>2 DEF Job
  <2>4. ended # NoJob
    BY <2>3, AbsenceAssumption
  <2>5. jobs' = [jobs EXCEPT ![j] = ended]
    BY <1>3, <2>1 DEF Resolve
  <2> HIDE DEF ended
  <2>6. Follows(x, h)
    BY <1>1, <2>1, <2>2, <2>3, <2>4, <2>5
    DEF Follows, DocumentsInv, Types, TypeOK
  <2> QED
    BY <1>1, <2>6 DEF Resolve
<1> QED
  BY <1>2, <1>3

LEMMA Rejected ==
  ASSUME DocumentsInv, NEW x \in RunIds, Running(x), Reject(x)
  PROVE  /\ \E h \in Run : /\ Moves(x, h) /\ h.step = "ended" /\ Follows(x, h)
                           /\ \/ h.doc \in abandoned'
                              \/ h.job \in JobIds /\ jobs'[h.job].state = "waiting"
         /\ abandoned \subseteq abandoned' /\ abandoned' \subseteq Docs
<1>1. PICK h \in Run : Moves(x, h) /\ h.step = "ended"
  BY StepMoves DEF Reject
<1>0. h.doc \in Docs /\ h.doc = runs[x].doc /\ h.job = runs[x].job
  BY <1>1, MovesFacts DEF Moves
<1>t. abandoned \subseteq Docs /\ jobs \in [JobIds -> Job \cup {NoJob}]
  BY DEF DocumentsInv, Types, TypeOK
<1>2. CASE runs[x].job = NoJob
  BY <1>0, <1>1, <1>2, <1>t DEF Reject, Follows
<1>3. CASE runs[x].job # NoJob
  <2>1. PICK j \in JobIds : j = runs[x].job
    BY <1>1, <1>3, MovesFacts DEF Run
  <2>2. jobs[j] \in Job /\ jobs[j] # NoJob
    BY <1>1, <2>1, MovesFacts
  <2> DEFINE failed == jobs[j].failures + 1
             again == HasAttempts(failed)
             ended == [jobs[j] EXCEPT !.failures = failed,
                         !.state = IF again THEN "waiting" ELSE "failed"]
  <2>i. failed \in Nat
    BY <2>2 DEF Job
  <2> HIDE DEF failed
  <2>3. /\ ended \in Job /\ ended.doc = jobs[j].doc
        /\ again => ended.state = "waiting"
    BY <2>2, <2>i DEF Job, HasAttempts
  <2> USE DEF failed
  <2>4. ended # NoJob
    BY <2>3, AbsenceAssumption
  <2>5. /\ jobs' = [jobs EXCEPT ![j] = ended]
        /\ abandoned' = IF again THEN abandoned ELSE abandoned \cup {runs[x].doc}
    BY <1>3, <1>t, <2>1 DEF Reject
  <2> HIDE DEF ended, again
  <2>6. Follows(x, h)
    BY <1>1, <1>t, <2>1, <2>2, <2>3, <2>4, <2>5 DEF Follows
  <2> QED
    BY <1>0, <1>1, <1>t, <2>1, <2>3, <2>5, <2>6
<1> QED
  BY <1>2, <1>3

\* The status of a listed row changes.
LEMMA StatusSet ==
  ASSUME DocumentsInv, NEW d \in Docs, Exists(d), NEW row \in DocRow,
         docs' = [docs EXCEPT ![d] = row]
  PROVE  /\ KeepsListed /\ docs' \in [Docs -> DocRow \cup {NoDoc}]
         /\ docs'[d] = row /\ \A e \in Docs \ {d} : docs'[e] = docs[e]
  BY AbsenceAssumption DEF DocumentsInv, Types, TypeOK, KeepsListed, Exists

LEMMA ChunksStay ==
  ASSUME DocumentsInv, UNCHANGED chunks, NEW x, NEW d
  PROVE  OnlyAdds(x, d)
  BY DEF DocumentsInv, Types, OnlyAdds

LEMMA JobsStay ==
  ASSUME DocumentsInv, UNCHANGED jobs, NEW x, NEW h
  PROVE  Follows(x, h)
  BY DEF DocumentsInv, Types, TypeOK, Follows

\* Types after a step of a run.
LEMMA MovesTypes ==
  ASSUME DocumentsInv, NEW x \in RunIds, NEW h, Moves(x, h), Follows(x, h),
         KeepsListed, OnlyAdds(x, h.doc), docs[h.doc] # NoDoc \/ UNCHANGED chunks,
         docs' \in [Docs -> DocRow \cup {NoDoc}],
         abandoned' \subseteq Docs, faults' \in 0 .. MaxFaults,
         UNCHANGED <<files, request, known, crashes>>
  PROVE  Types'
<1>1. runs' \in [RunIds -> Run \cup {NoRun}]
  BY MovesFacts
<1>2. \A d \in Docs : docs'[d] = NoDoc => chunks'[d] = {}
  BY DEF DocumentsInv, Types, TypeOK, KeepsListed, OnlyAdds, Exists
<1> QED
  BY <1>1, <1>2 DEF DocumentsInv, Types, TypeOK, Follows, OnlyAdds, Exists

\* A run ends with an error that is not recorded.
LEMMA RejectStep ==
  ASSUME DocumentsInv, NEW x \in RunIds, Running(x), Reject(x),
         faults' \in 0 .. MaxFaults,
         UNCHANGED <<files, docs, chunks, request, known, crashes>>
  PROVE  DocumentsInv'
<1>1. PICK h \in Run : /\ Moves(x, h) /\ h.step = "ended" /\ Follows(x, h)
                       /\ \/ h.doc \in abandoned'
                          \/ h.job \in JobIds /\ jobs'[h.job].state = "waiting"
  BY Rejected
<1>2. abandoned \subseteq abandoned' /\ abandoned' \subseteq Docs
  BY Rejected
<1>3. KeepsListed /\ OnlyAdds(x, h.doc)
  BY ChunksStay DEF KeepsListed
<1>4. Types'
  BY <1>1, <1>2, <1>3, MovesTypes DEF DocumentsInv, Types, TypeOK
<1>5. Progress(h, x, docs'[h.doc], chunks'[h.doc])
  BY <1>1 DEF Progress
<1>6. StuckIsExplained'
  BY <1>1, <1>2, MovesExplained DEF Unsettled, Exists
<1>7. CompletedInv'
  BY <1>1, <1>3, MovesCompleted DEF Searchable, Exists
<1> QED
  BY <1>1, <1>3, <1>4, <1>5, <1>6, <1>7, MovesNames, MovesChunks
  DEF DocumentsInv

LEMMA LoadTextStep ==
  ASSUME DocumentsInv, NEW x \in RunIds, LoadText(x)
  PROVE  DocumentsInv'
<1>0. Running(x) /\ runs[x].step = "load"
  BY DEF LoadText, RunAt, Running
<1>1. PICK h \in Run : /\ Moves(x, h) /\ h.step \in {"chunk", "fail"}
                       /\ h.index = runs[x].index
  <2> DEFINE step == IF /\ Exists(runs[x].doc) /\ runs[x].doc \in files
                        /\ TextChunks[runs[x].doc] > 0
                     THEN "chunk" ELSE "fail"
  <2>1. Step(x, step) /\ step \in {"chunk", "fail"}
    BY DEF LoadText
  <2> HIDE DEF step
  <2> QED
    BY <1>0, <2>1, StepMoves
<1>2. UNCHANGED <<tables, jobs, request, known, abandoned, faults, crashes>>
  BY DEF LoadText
<1>3. KeepsListed /\ OnlyAdds(x, h.doc) /\ Follows(x, h)
  BY <1>2, ChunksStay, JobsStay DEF KeepsListed, tables
<1>4. Types'
  BY <1>1, <1>2, <1>3, MovesTypes DEF tables, DocumentsInv, Types, TypeOK
<1>5. Progress(h, x, docs'[h.doc], chunks'[h.doc])
  <2>1. Progress(runs[x], x, docs[h.doc], chunks[h.doc])
    BY <1>0, <1>1 DEF DocumentsInv, ChunksInv, Moves, Running
  <2> QED
    BY <1>0, <1>1, <1>2, <2>1 DEF Progress, Written, Moves, tables
<1>6. StuckIsExplained'
  BY <1>1, <1>2, <1>3, MovesExplained DEF Unsettled, Exists, tables
<1>7. CompletedInv'
  BY <1>1, <1>2, <1>3, MovesCompleted DEF Searchable, Exists, tables
<1> QED
  BY <1>1, <1>2, <1>3, <1>4, <1>5, <1>6, <1>7, MovesNames, MovesChunks
  DEF DocumentsInv, tables

LEMMA EmbedChunkStep ==
  ASSUME DocumentsInv, NEW x \in RunIds, EmbedChunk(x)
  PROVE  DocumentsInv'
<1>0. Running(x) /\ runs[x].step = "embed" /\ runs[x] # NoRun
  BY DEF EmbedChunk, RunAt, Running
<1>1. PICK h \in Run : /\ Moves(x, h) /\ h.step = "chunk"
                       /\ h.index = runs[x].index + 1
  <2> DEFINE h == [runs[x] EXCEPT !.step = "chunk", !.index = @ + 1]
  <2>1. /\ runs[x] \in Run /\ runs \in [RunIds -> Run \cup {NoRun}]
    BY <1>0 DEF DocumentsInv, Types, TypeOK
  <2>i. runs[x].index + 1 \in Nat
    BY <2>1 DEF Run
  <2>2. /\ h \in Run /\ h.doc = runs[x].doc /\ h.job = runs[x].job
        /\ h.cleared = runs[x].cleared /\ h.step = "chunk"
        /\ h.index = runs[x].index + 1
    BY <2>1, <2>i DEF Run
  <2>3. h # NoRun
    BY <2>2, AbsenceAssumption
  <2>4. runs' = [runs EXCEPT ![x] = h]
    BY <2>1 DEF EmbedChunk
  <2> QED
    BY <1>0, <2>2, <2>3, <2>4 DEF Moves
<1>2. UNCHANGED <<tables, jobs, request, known, abandoned, faults, crashes>>
  BY DEF EmbedChunk
<1>3. KeepsListed /\ OnlyAdds(x, h.doc) /\ Follows(x, h)
  BY <1>2, ChunksStay, JobsStay DEF KeepsListed, tables
<1>4. Types'
  BY <1>1, <1>2, <1>3, MovesTypes DEF tables, DocumentsInv, Types, TypeOK
<1>5. Progress(h, x, docs'[h.doc], chunks'[h.doc])
  <2>1. Progress(runs[x], x, docs[h.doc], chunks[h.doc])
    BY <1>0, <1>1 DEF DocumentsInv, ChunksInv, Moves
  <2> QED
    BY <1>0, <1>1, <1>2, <2>1 DEF Progress, Written, Moves, tables
<1>6. StuckIsExplained'
  BY <1>1, <1>2, <1>3, MovesExplained DEF Unsettled, Exists, tables
<1>7. CompletedInv'
  BY <1>1, <1>2, <1>3, MovesCompleted DEF Searchable, Exists, tables
<1> QED
  BY <1>1, <1>2, <1>3, <1>4, <1>5, <1>6, <1>7, MovesNames, MovesChunks
  DEF DocumentsInv, tables

LEMMA MarkProcessingStep ==
  ASSUME DocumentsInv, NEW x \in RunIds, MarkProcessing(x)
  PROVE  DocumentsInv'
<1>0. /\ Running(x) /\ runs[x].step = "start" /\ runs[x] # NoRun
      /\ runs[x] \in Run
  BY DEF MarkProcessing, RunAt, Running, DocumentsInv, Types, TypeOK
<1>d. PICK d \in Docs : d = runs[x].doc
  BY <1>0 DEF Run
<1>2. UNCHANGED <<files, chunks, request, known, faults, crashes>>
  BY DEF MarkProcessing
<1>t. faults' \in 0 .. MaxFaults /\ abandoned \subseteq Docs
  BY <1>2 DEF DocumentsInv, Types, TypeOK
<1>p. Progress(runs[x], x, docs[d], chunks[d])
  BY <1>0, <1>d DEF DocumentsInv, ChunksInv
<1>1. CASE Exists(d)
  <2> DEFINE row == [docs[d] EXCEPT !.status = "PROCESSING"]
  <2>1. row \in DocRow /\ row.status = "PROCESSING"
    BY <1>1 DEF DocumentsInv, Types, TypeOK, Exists, DocRow
  <2>2. docs' = [docs EXCEPT ![d] = row] /\ Step(x, "load")
        /\ UNCHANGED <<jobs, abandoned>>
    BY <1>1, <1>d DEF MarkProcessing, DocumentsInv, Types, TypeOK
  <2> HIDE DEF row
  <2>3. PICK h \in Run : /\ Moves(x, h) /\ h.step = "load"
                         /\ h.index = runs[x].index
    BY <1>0, <2>2, StepMoves
  <2>4. /\ KeepsListed /\ docs' \in [Docs -> DocRow \cup {NoDoc}]
        /\ docs'[d] = row /\ \A e \in Docs \ {d} : docs'[e] = docs[e]
    BY <1>1, <2>1, <2>2, StatusSet
  <2>5. OnlyAdds(x, h.doc) /\ Follows(x, h) /\ h.doc = d
    BY <1>2, <1>d, <2>2, <2>3, ChunksStay, JobsStay DEF Moves
  <2>6. Types'
    BY <1>2, <1>t, <2>2, <2>3, <2>4, <2>5, MovesTypes
  <2>7. Progress(h, x, docs'[h.doc], chunks'[h.doc])
    BY <1>0, <1>1, <1>2, <1>p, <2>3, <2>5 DEF Progress, Written, Moves, Exists
  <2>8. StuckIsExplained'
    BY <1>2, <2>2, <2>3, <2>4, <2>5, MovesExplained DEF Unsettled, Exists
  <2>9. CompletedInv'
    BY <1>2, <2>1, <2>3, <2>4, <2>5, MovesCompleted DEF Searchable, Exists
  <2> QED
    BY <1>2, <2>3, <2>4, <2>5, <2>6, <2>7, <2>8, <2>9, MovesNames, MovesChunks
    DEF DocumentsInv
<1>3. CASE ~Exists(d)
  <2>1. Reject(x) /\ UNCHANGED docs
    BY <1>3, <1>d DEF MarkProcessing
  <2> QED
    BY <1>0, <1>2, <1>t, <2>1, RejectStep
<1> QED
  BY <1>1, <1>3

\* A run turns to its catch block.
LEMMA FailStep ==
  ASSUME DocumentsInv, NEW x \in RunIds, Running(x), Step(x, "fail"),
         faults' \in 0 .. MaxFaults,
         UNCHANGED <<files, docs, chunks, jobs, request, known, abandoned, crashes>>
  PROVE  DocumentsInv'
<1>1. PICK h \in Run : Moves(x, h) /\ h.step = "fail"
  BY StepMoves
<1>2. KeepsListed /\ OnlyAdds(x, h.doc) /\ Follows(x, h)
  BY ChunksStay, JobsStay DEF KeepsListed
<1>3. Types'
  BY <1>1, <1>2, MovesTypes DEF DocumentsInv, Types, TypeOK
<1>4. Progress(h, x, docs'[h.doc], chunks'[h.doc])
  BY <1>1 DEF Progress
<1>5. StuckIsExplained'
  BY <1>1, <1>2, MovesExplained DEF Unsettled, Exists
<1>6. CompletedInv'
  BY <1>1, <1>2, MovesCompleted DEF Searchable, Exists
<1> QED
  BY <1>1, <1>2, <1>3, <1>4, <1>5, <1>6, MovesNames, MovesChunks
  DEF DocumentsInv

LEMMA RowsOfNext ==
  ASSUME NEW x, NEW n \in Nat
  PROVE  RowsOf(x, n + 1) = RowsOf(x, n) \cup {[chunkIndex |-> n, run |-> x]}
<1>1. 0 .. (n + 1) - 1 = (0 .. n - 1) \cup {n}
  OBVIOUS
<1> QED
  BY <1>1 DEF RowsOf

LEMMA CreateChunkStep ==
  ASSUME DocumentsInv, NEW x \in RunIds, CreateChunk(x)
  PROVE  DocumentsInv'
<1>0. /\ Running(x) /\ runs[x].step = "chunk" /\ runs[x] # NoRun
      /\ runs[x] \in Run
  BY DEF CreateChunk, RunAt, Running, DocumentsInv, Types, TypeOK
<1>d. PICK d \in Docs : d = runs[x].doc
  BY <1>0 DEF Run
<1>n. PICK n \in Nat : n = runs[x].index
  BY <1>0 DEF Run
<1>2. UNCHANGED <<files, docs, jobs, request, known, abandoned, faults, crashes>>
  BY DEF CreateChunk
<1>1. CASE Exists(d)
  <2> DEFINE c == [chunkIndex |-> n, run |-> x]
  <2>1. c \in ChunkRow /\ c.run = x
    BY DEF ChunkRow
  <2>2. /\ chunks \in [Docs -> SUBSET ChunkRow]
        /\ chunks' = [chunks EXCEPT ![d] = chunks[d] \cup {c}]
        /\ Step(x, "embed")
    BY <1>1, <1>d, <1>n DEF CreateChunk, DocumentsInv, Types
  <2>3. PICK h \in Run : /\ Moves(x, h) /\ h.step = "embed" /\ h.index = n
    BY <1>0, <1>n, <2>2, StepMoves
  <2>4. h.doc = d /\ h.cleared = runs[x].cleared
    BY <1>d, <2>3 DEF Moves
  <2>5. KeepsListed /\ OnlyAdds(x, h.doc) /\ Follows(x, h)
    BY <1>2, <2>1, <2>2, <2>4, JobsStay DEF KeepsListed, OnlyAdds
  <2>6. Types'
    BY <1>1, <1>2, <2>3, <2>4, <2>5, MovesTypes
    DEF DocumentsInv, Types, TypeOK, Exists
  <2>7. Progress(h, x, docs'[h.doc], chunks'[h.doc])
    <3>1. Progress(runs[x], x, docs[d], chunks[d])
      BY <1>0, <1>d DEF DocumentsInv, ChunksInv
    <3>2. ~h.cleared => Own(chunks[d], x) = RowsOf(x, n)
      BY <1>0, <1>1, <1>n, <2>4, <3>1 DEF Progress, Written, Exists
    <3>3. Own(chunks'[d], x) = Own(chunks[d], x) \cup {c}
      BY <2>1, <2>2 DEF Own
    <3>4. ~h.cleared => Own(chunks'[d], x) = RowsOf(x, n + 1)
      BY <3>2, <3>3, RowsOfNext
    <3> QED
      BY <2>3, <2>4, <3>4 DEF Progress, Written
  <2>8. StuckIsExplained'
    BY <1>2, <2>3, <2>5, MovesExplained DEF Unsettled, Exists
  <2>9. CompletedInv'
    BY <1>2, <2>3, <2>5, MovesCompleted DEF Searchable, Exists
  <2> QED
    BY <1>2, <2>3, <2>5, <2>6, <2>7, <2>8, <2>9, MovesNames, MovesChunks
    DEF DocumentsInv
<1>3. CASE ~Exists(d)
  <2>1. Step(x, "fail") /\ UNCHANGED chunks
    BY <1>3, <1>d DEF CreateChunk
  <2> QED
    BY <1>0, <1>2, <2>1, FailStep DEF DocumentsInv, Types, TypeOK
<1> QED
  BY <1>1, <1>3

LEMMA CompleteStep ==
  ASSUME DocumentsInv, NEW x \in RunIds, Complete(x)
  PROVE  DocumentsInv'
<1>0. /\ Running(x) /\ runs[x].step = "chunk" /\ runs[x] # NoRun
      /\ runs[x] \in Run
  BY DEF Complete, RunAt, Running, DocumentsInv, Types, TypeOK
<1>d. PICK d \in Docs : d = runs[x].doc
  BY <1>0 DEF Run
<1>n. TextChunks[d] \in Nat /\ runs[x].index = TextChunks[d]
  BY <1>d, PipelineAssumption DEF Complete
<1>2. UNCHANGED <<files, chunks, request, known, faults, crashes>>
  BY DEF Complete
<1>1. CASE Exists(d)
  <2> DEFINE row == [status |-> "COMPLETED", by |-> x,
                     totalChunks |-> TextChunks[d]]
  <2>1. /\ row \in DocRow /\ row.status = "COMPLETED" /\ row.by = x
        /\ row.totalChunks = TextChunks[d]
    BY <1>n DEF DocRow
  <2>2. docs' = [docs EXCEPT ![d] = row] /\ Resolve(x)
    BY <1>1, <1>d DEF Complete
  <2> HIDE DEF row
  <2>3. PICK h \in Run : Moves(x, h) /\ h.step = "ended" /\ Follows(x, h)
    BY <1>0, <2>2, Resolved
  <2>a. abandoned' = abandoned
    BY <1>0, <2>2, Resolved
  <2>4. /\ KeepsListed /\ docs' \in [Docs -> DocRow \cup {NoDoc}]
        /\ docs'[d] = row /\ \A e \in Docs \ {d} : docs'[e] = docs[e]
    BY <1>1, <2>1, <2>2, StatusSet
  <2>5. OnlyAdds(x, h.doc) /\ h.doc = d /\ h.cleared = runs[x].cleared
    BY <1>2, <1>d, <2>3, ChunksStay DEF Moves
  <2>6. Types'
    BY <1>2, <2>a, <2>3, <2>4, <2>5, MovesTypes DEF DocumentsInv, Types, TypeOK
  <2>7. Progress(h, x, docs'[h.doc], chunks'[h.doc])
    BY <2>3 DEF Progress
  <2>8. StuckIsExplained'
    BY <1>2, <2>a, <2>1, <2>3, <2>4, <2>5, MovesExplained DEF Unsettled, Exists
  <2>9. CompletedInv'
    <3>1. Progress(runs[x], x, docs[d], chunks[d])
      BY <1>0, <1>d DEF DocumentsInv, ChunksInv
    <3>2. ~h.cleared => Own(chunks'[d], x) = RowsOf(x, TextChunks[d])
      BY <1>0, <1>1, <1>2, <1>n, <2>5, <3>1 DEF Progress, Written, Exists
    <3>3. \A e \in Docs : Searchable(e)' =>
            \/ Searchable(e) /\ docs'[e] = docs[e]
            \/ /\ docs'[e].by = x /\ h.doc = e /\ h.step = "ended"
               /\ ~h.cleared =>
                    Own(chunks'[e], x) = RowsOf(x, docs'[e].totalChunks)
      BY <2>1, <2>3, <2>4, <2>5, <3>2 DEF Searchable, Exists
    <3> QED
      BY <2>3, <2>5, <3>3, MovesCompleted
  <2> QED
    BY <1>2, <2>3, <2>4, <2>5, <2>6, <2>7, <2>8, <2>9, MovesNames, MovesChunks
    DEF DocumentsInv
<1>3. CASE ~Exists(d)
  <2>1. Step(x, "fail") /\ UNCHANGED <<docs, jobs, abandoned>>
    BY <1>3, <1>d DEF Complete
  <2> QED
    BY <1>0, <1>2, <2>1, FailStep DEF DocumentsInv, Types, TypeOK
<1> QED
  BY <1>1, <1>3

LEMMA RecordFailureStep ==
  ASSUME DocumentsInv, NEW x \in RunIds, RecordFailure(x)
  PROVE  DocumentsInv'
<1>0. /\ Running(x) /\ runs[x].step = "fail" /\ runs[x] # NoRun
      /\ runs[x] \in Run
  BY DEF RecordFailure, RunAt, Running, DocumentsInv, Types, TypeOK
<1>d. PICK d \in Docs : d = runs[x].doc
  BY <1>0 DEF Run
<1>2. UNCHANGED <<files, chunks, request, known, faults, crashes>>
  BY DEF RecordFailure
<1>1. CASE Exists(d)
  <2> DEFINE row == [docs[d] EXCEPT !.status = "FAILED"]
  <2>1. row \in DocRow /\ row.status = "FAILED"
    BY <1>1 DEF DocumentsInv, Types, TypeOK, Exists, DocRow
  <2>2. docs' = [docs EXCEPT ![d] = row] /\ Resolve(x)
    BY <1>1, <1>d DEF RecordFailure, DocumentsInv, Types, TypeOK
  <2> HIDE DEF row
  <2>3. PICK h \in Run : Moves(x, h) /\ h.step = "ended" /\ Follows(x, h)
    BY <1>0, <2>2, Resolved
  <2>a. abandoned' = abandoned
    BY <1>0, <2>2, Resolved
  <2>4. /\ KeepsListed /\ docs' \in [Docs -> DocRow \cup {NoDoc}]
        /\ docs'[d] = row /\ \A e \in Docs \ {d} : docs'[e] = docs[e]
    BY <1>1, <2>1, <2>2, StatusSet
  <2>5. OnlyAdds(x, h.doc) /\ h.doc = d
    BY <1>2, <1>d, <2>3, ChunksStay DEF Moves
  <2>6. Types'
    BY <1>2, <2>a, <2>3, <2>4, <2>5, MovesTypes DEF DocumentsInv, Types, TypeOK
  <2>7. Progress(h, x, docs'[h.doc], chunks'[h.doc])
    BY <2>3 DEF Progress
  <2>8. StuckIsExplained'
    BY <1>2, <2>a, <2>1, <2>3, <2>4, <2>5, MovesExplained DEF Unsettled, Exists
  <2>9. CompletedInv'
    BY <2>1, <2>3, <2>4, <2>5, MovesCompleted DEF Searchable, Exists
  <2> QED
    BY <1>2, <2>3, <2>4, <2>5, <2>6, <2>7, <2>8, <2>9, MovesNames, MovesChunks
    DEF DocumentsInv
<1>3. CASE ~Exists(d)
  <2>1. Reject(x) /\ UNCHANGED docs
    BY <1>3, <1>d DEF RecordFailure
  <2> QED
    BY <1>0, <1>2, <2>1, RejectStep DEF DocumentsInv, Types, TypeOK
<1> QED
  BY <1>1, <1>3

LEMMA RunFailsStep ==
  ASSUME DocumentsInv, NEW x \in RunIds, RunFails(x)
  PROVE  DocumentsInv'
<1>1. Running(x)
  BY DEF RunFails, RunAt, Running
<1>2. /\ faults' \in 0 .. MaxFaults
      /\ UNCHANGED <<files, docs, chunks, request, known, crashes>>
  BY PipelineAssumption DEF RunFails, Fault, tables, DocumentsInv, Types, TypeOK
<1>3. \/ Step(x, "fail") /\ UNCHANGED <<jobs, abandoned>>
      \/ Reject(x)
  BY DEF RunFails
<1> QED
  BY <1>1, <1>2, <1>3, FailStep, RejectStep

-----------------------------------------------------------------------------
(* The crash *)

LEMMA CrashStep ==
  ASSUME DocumentsInv, Crash
  PROVE  DocumentsInv'
<1>c. crashes' \in 0 .. MaxCrashes
  <2>1. crashes \in 0 .. MaxCrashes
    BY DEF DocumentsInv, Types, TypeOK
  <2>2. crashes < MaxCrashes /\ crashes' = crashes + 1
    BY DEF Crash
  <2> QED
    BY <2>1, <2>2, PipelineAssumption
<1>0. /\ UNCHANGED <<files, docs, chunks, known, faults>>
      /\ crashes' \in 0 .. MaxCrashes
      /\ request' = [r \in Requests |-> NoRequest]
  BY <1>c DEF Crash, tables
<1>x. \A x \in RunIds :
        /\ runs'[x] # NoRun <=> runs[x] # NoRun
        /\ runs[x] # NoRun =>
             /\ runs'[x] \in Run /\ runs'[x].step = "ended"
             /\ runs'[x].doc = runs[x].doc /\ runs'[x].job = runs[x].job
             /\ runs'[x].cleared = runs[x].cleared
  <2> TAKE x \in RunIds
  <2>1. CASE Running(x)
    <3> DEFINE h == [runs[x] EXCEPT !.step = "ended"]
    <3>1. runs[x] \in Run /\ runs[x] # NoRun
      BY <2>1 DEF Running, DocumentsInv, Types, TypeOK
    <3>2. /\ h \in Run /\ h.step = "ended" /\ h.doc = runs[x].doc
          /\ h.job = runs[x].job /\ h.cleared = runs[x].cleared
      BY <3>1 DEF Run
    <3>3. runs'[x] = h
      BY <2>1 DEF Crash
    <3> QED
      BY <3>1, <3>2, <3>3, AbsenceAssumption
  <2>2. CASE ~Running(x)
    <3>1. runs'[x] = runs[x]
      BY <2>2 DEF Crash
    <3> QED
      BY <2>2, <3>1 DEF Running, DocumentsInv, Types, TypeOK
  <2> QED
    BY <2>1, <2>2
<1>y. runs' \in [RunIds -> Run \cup {NoRun}] /\ \A x \in RunIds : ~Running(x)'
  <2>1. runs' = [x \in RunIds |-> runs'[x]]
    BY DEF Crash
  <2> QED
    BY <1>x, <2>1 DEF Running
<1>j. \A j \in JobIds :
        /\ jobs'[j] # NoJob <=> jobs[j] # NoJob
        /\ jobs[j] # NoJob => jobs'[j] \in Job /\ jobs'[j].doc = jobs[j].doc
        /\ jobs[j] # NoJob /\ jobs[j].state = "waiting" => jobs'[j] = jobs[j]
        /\ jobs[j] # NoJob /\ jobs[j].state = "active" =>
             jobs'[j].state = "waiting" \/ jobs[j].doc \in abandoned'
  <2> TAKE j \in JobIds
  <2>1. CASE j \in Active
    <3> DEFINE again == jobs[j].stalls < MaxStalled
               job == [jobs[j] EXCEPT !.stalls = @ + 1,
                         !.state = IF again THEN "waiting" ELSE "failed"]
    <3>1. jobs[j] \in Job /\ jobs[j] # NoJob /\ jobs[j].state = "active"
      BY <2>1 DEF Active, DocumentsInv, Types, TypeOK
    <3>2. jobs[j].stalls \in Nat /\ jobs[j].stalls + 1 \in Nat
      BY <3>1 DEF Job
    <3>3. /\ job \in Job /\ job.doc = jobs[j].doc
          /\ again => job.state = "waiting"
      BY <3>1, <3>2 DEF Job
    <3>4. jobs'[j] = job
      BY <2>1 DEF Crash
    <3>5. ~again => jobs[j].doc \in abandoned'
      <4>1. ~again => jobs[j].stalls >= MaxStalled
        BY <3>2, PipelineAssumption
      <4> QED
        BY <2>1, <4>1 DEF Crash
    <3> HIDE DEF job
    <3> QED
      BY <3>1, <3>3, <3>4, <3>5, AbsenceAssumption
  <2>2. CASE j \notin Active
    <3>1. jobs'[j] = jobs[j]
      BY <2>2 DEF Crash
    <3> QED
      BY <2>2, <3>1 DEF Active, DocumentsInv, Types, TypeOK
  <2> QED
    BY <2>1, <2>2
<1>i. jobs' \in [JobIds -> Job \cup {NoJob}]
  <2>1. jobs' = [j \in JobIds |-> jobs'[j]]
    BY DEF Crash
  <2> QED
    BY <1>j, <2>1
<1>a. /\ abandoned \subseteq abandoned' /\ abandoned' \subseteq Docs
      /\ \A r \in Requests : Queueing(r) => request[r].doc \in abandoned'
      /\ \A x \in RunIds : Running(x) /\ runs[x].job = NoJob =>
           runs[x].doc \in abandoned'
  <2>1. \A r \in Requests : Queueing(r) => request[r].doc \in Docs
    BY DEF Queueing, At, Request, DocumentsInv, Types, TypeOK
  <2>2. \A x \in RunIds : Running(x) => runs[x].doc \in Docs
    BY DEF Running, Run, DocumentsInv, Types, TypeOK
  <2>3. \A j \in Active : jobs[j].doc \in Docs
    BY DEF Active, Job, DocumentsInv, Types, TypeOK
  <2>4. abandoned \subseteq Docs
    BY DEF DocumentsInv, Types, TypeOK
  <2> QED
    BY <2>1, <2>2, <2>3, <2>4 DEF Crash
<1>1. Types'
  BY <1>0, <1>y, <1>i, <1>a DEF DocumentsInv, Types, TypeOK, Exists
<1>2. Numbered'
  BY <1>x, <1>j DEF DocumentsInv, Numbered, Gapless, JobIds, RunIds
<1>3. NamesKnown'
  BY <1>0, <1>x, <1>j DEF DocumentsInv, NamesKnown, Exists
<1>4. HandlersInv'
  BY <1>0 DEF HandlersInv
<1>5. JobsInv'
  <2> SUFFICES ASSUME NEW y \in RunIds, runs'[y] # NoRun, runs'[y].job # NoJob
               PROVE  JobInv(y)'
    BY DEF JobsInv
  <2>1. JobInv(y) /\ runs[y].job \in JobIds
    BY <1>x DEF DocumentsInv, JobsInv, Types, TypeOK, Run
  <2> QED
    BY <1>x, <1>y, <1>j, <2>1 DEF JobInv
<1>6. ChunksInv'
  <2>1. \A d \in Docs : \A c \in chunks[d] :
          runs'[c.run] # NoRun /\ runs'[c.run].doc = d
    BY <1>x DEF DocumentsInv, Types, TypeOK, ChunksInv, ChunkRow
  <2>2. \A x \in RunIds : runs'[x] # NoRun =>
          Progress(runs'[x], x, docs'[runs'[x].doc], chunks'[runs'[x].doc])
    BY <1>x DEF Progress
  <2> QED
    BY <1>0, <2>1, <2>2 DEF ChunksInv
<1>7. CompletedInv'
  BY <1>0, <1>x DEF DocumentsInv, CompletedInv, Searchable, Exists, Own, RowsOf
<1>8. StuckIsExplained'
  <2> SUFFICES ASSUME NEW d \in Docs, Unsettled(d)', d \notin abandoned'
               PROVE  \E j \in JobIds :
                        /\ jobs'[j] # NoJob /\ jobs'[j].doc = d
                        /\ jobs'[j].state \in {"waiting", "active"}
    BY DEF StuckIsExplained
  <2>1. Unsettled(d)
    BY <1>0 DEF Unsettled, Exists
  <2>2. CASE \E j \in JobIds : /\ jobs[j] # NoJob /\ jobs[j].doc = d
                               /\ jobs[j].state \in {"waiting", "active"}
    BY <1>j, <2>2
  <2>3. CASE \E x \in RunIds : Running(x) /\ runs[x].doc = d
    <3>1. PICK x \in RunIds : Running(x) /\ runs[x].doc = d
      BY <2>3
    <3>2. runs[x].job \in JobIds /\ JobInv(x)
      BY <1>a, <3>1 DEF Running, Run, DocumentsInv, Types, TypeOK, JobsInv
    <3> QED
      BY <1>j, <3>1, <3>2 DEF JobInv
  <2> QED
    BY <1>a, <2>1, <2>2, <2>3 DEF DocumentsInv, StuckIsExplained
<1> QED
  BY <1>1, <1>2, <1>3, <1>4, <1>5, <1>6, <1>7, <1>8 DEF DocumentsInv

-----------------------------------------------------------------------------
(* Every step, and what the invariant says *)

LEMMA StepIsGood ==
  ASSUME DocumentsInv, [Next]_vars
  PROVE  DocumentsInv'
<1>1. CASE \E r \in Requests : Handle(r)
  BY <1>1, UploadStep, FindStep, CreateDocumentStep, EnqueueStep,
     EnqueueFailsStep, UnlinkFileStep, DeleteRowStep, ClearChunksStep,
     MarkPendingStep, RequestFailsStep DEF Handle
<1>2. CASE \E j \in JobIds : TakeJob(j)
  BY <1>2, TakeJobStep
<1>3. CASE \E x \in RunIds : Process(x) \/ RunFails(x)
  BY <1>3, MarkProcessingStep, LoadTextStep, CreateChunkStep, EmbedChunkStep,
     CompleteStep, RecordFailureStep, RunFailsStep DEF Process
<1>4. CASE Crash
  BY <1>4, CrashStep
<1>5. CASE UNCHANGED vars
  <2>1. Types' /\ NamesKnown'
    BY <1>5 DEF vars, DocumentsInv, Types, TypeOK, NamesKnown, Exists
  <2>2. HandlersInv' /\ StuckIsExplained'
    BY <1>5 DEF vars, DocumentsInv, HandlersInv, HandlerInv, At, Exists,
       StuckIsExplained, Unsettled, Queueing, Running
  <2> QED
    BY <1>5, <2>1, <2>2, JobsStand, RowsStand DEF vars, DocumentsInv
<1> QED
  BY <1>1, <1>2, <1>3, <1>4, <1>5 DEF Next

LEMMA Invariance == Spec => []DocumentsInv
  BY InitIsGood, StepIsGood, PTL DEF Spec

\* As many rows as indices.
LEMMA RowsOfCount ==
  ASSUME NEW x, NEW n \in Nat
  PROVE  /\ {c.chunkIndex : c \in RowsOf(x, n)} = 0 .. n - 1
         /\ Cardinality(RowsOf(x, n)) = n
<1> DEFINE S == 0 .. n - 1
           row(i) == [chunkIndex |-> i, run |-> x]
           f == [i \in S |-> row(i)]
<1>r. RowsOf(x, n) = {row(i) : i \in S} /\ \A i \in S : row(i).chunkIndex = i
  BY DEF RowsOf
<1>2. IsFiniteSet(S) /\ Cardinality(S) = n
  <2>1. PICK m \in Int : m = n - 1
    OBVIOUS
  <2>2. 0 \in Int
    OBVIOUS
  <2>3. /\ IsFiniteSet(0 .. m)
        /\ Cardinality(0 .. m) = IF 0 > m THEN 0 ELSE m - 0 + 1
    BY <2>2, FS_Interval, Zenon
  <2> QED
    BY <2>1, <2>3
<1> HIDE DEF S
<1>1. f \in Bijection(S, RowsOf(x, n))
  <2>1. f \in [S -> RowsOf(x, n)]
    BY <1>r
  <2>2. \A a, b \in S : f[a] = f[b] => a = b
    BY <1>r
  <2>3. \A t \in RowsOf(x, n) : \E s \in S : f[s] = t
    BY <1>r
  <2> HIDE DEF f
  <2> QED
    BY <2>1, <2>2, <2>3 DEF Bijection, Injection, Surjection, IsInjective
<1>3. Cardinality(RowsOf(x, n)) = n
  <2> HIDE DEF f
  <2> QED
    BY <1>1, <1>2, FS_Bijection DEF ExistsBijection
<1>4. {c.chunkIndex : c \in RowsOf(x, n)} = S
  <2>1. \A c \in RowsOf(x, n) : c.chunkIndex \in S
    BY <1>r
  <2>2. \A i \in S : \E c \in RowsOf(x, n) : c.chunkIndex = i
    BY <1>r
  <2> QED
    BY <2>1, <2>2
<1> QED
  BY <1>3, <1>4 DEF S

\* The tables, jobs, runs and handlers of RagService keep their types, and the
\* chunks of a document go with its row.
THEOREM DocumentsTypeCorrect == Spec => []TypeOK
  BY Invariance, PTL DEF DocumentsInv, Types

\* However uploads, reprocessings, deletions, retries, faults and crashes
\* overlap, a document that is neither completed nor failed has a handler, a job
\* or a run at work on it, or is one that was given up.
THEOREM StuckIsAccountedFor == Spec => []StuckIsExplained
  BY Invariance, PTL DEF DocumentsInv

\* The run that completed a searchable document created each index of its text
\* once, whatever other runs were at work on it, unless chunks were removed
\* while it ran.
THEOREM CompletedIsWhole == Spec => []RunIsComplete
<1>1. DocumentsInv => RunIsComplete
  <2> SUFFICES ASSUME DocumentsInv, NEW d \in Docs, Searchable(d),
                      ~runs[docs[d].by].cleared
               PROVE  LET own == {c \in chunks[d] : c.run = docs[d].by} IN
                      /\ {c.chunkIndex : c \in own}
                           = 0 .. docs[d].totalChunks - 1
                      /\ Cardinality(own) = docs[d].totalChunks
    BY DEF RunIsComplete
  <2>1. docs[d].totalChunks \in Nat
    BY DEF DocumentsInv, Types, TypeOK, Searchable, Exists, DocRow
  <2>2. Own(chunks[d], docs[d].by) = RowsOf(docs[d].by, docs[d].totalChunks)
    BY DEF DocumentsInv, CompletedInv
  <2> QED
    BY <2>1, <2>2, RowsOfCount DEF Own
<1> QED
  BY <1>1, Invariance, PTL

-----------------------------------------------------------------------------
(* The order of files and rows *)

\* Documents whose file and row do not change keep their stage.
LEMMA OneDocMoves ==
  ASSUME NEW d \in Docs, NEW from, NEW to,
         StageOf(d) = from, StageOf(d)' = to,
         \A e \in Docs \ {d} : StageOf(e)' = StageOf(e)
  PROVE  Files!Advance(d, from, to)
<1>1. [e \in Docs |-> StageOf(e)']
        = [[e \in Docs |-> StageOf(e)] EXCEPT ![d] = to]
  OBVIOUS
<1> QED
  BY <1>1 DEF Files!Advance

LedgerStep ==
  \/ \E d \in Docs :
       \/ Files!Advance(d, "none", "stored")
       \/ Files!Advance(d, "stored", "listed")
       \/ Files!Advance(d, "listed", "unlinked")
       \/ Files!Advance(d, "unlinked", "removed")
  \/ [d \in Docs |-> StageOf(d)]' = [d \in Docs |-> StageOf(d)]

\* Runs, jobs and faults move no file and list or unlist no document.
LEMMA LedgerStands ==
  ASSUME DocumentsInv, UNCHANGED <<files, known>>, KeepsListed
  PROVE  LedgerStep
  BY DEF KeepsListed, LedgerStep, StageOf, Exists

LEMMA RowsKeptListed ==
  ASSUME DocumentsInv, NEW d \in Docs, NEW row \in DocRow, docs[d] # NoDoc,
         docs' = [docs EXCEPT ![d] = row]
  PROVE  KeepsListed
  BY StatusSet DEF Exists

LEMMA HandleLedger ==
  ASSUME DocumentsInv, NEW r \in Requests, Handle(r)
  PROVE  LedgerStep
<1> USE DEF DocumentsInv
<1>1. CASE \E d \in Docs : Upload(r, d)
  <2>1. PICK d \in Docs : Upload(r, d)
    BY <1>1
  <2>0. d \notin known /\ d \notin files /\ ~Exists(d)
    BY <2>1 DEF Upload, NamesKnown, Types, TypeOK
  <2>n. d \in known' /\ d \in files' /\ docs' = docs
    BY <2>1 DEF Upload
  <2>2. StageOf(d) = "none" /\ StageOf(d)' = "stored"
    <3>1. StageOf(d) = "none"
      BY <2>0 DEF StageOf
    <3>2. StageOf(d)' = "stored"
      BY <2>0, <2>n DEF StageOf, Exists
    <3> QED
      BY <3>1, <3>2
  <2>3. \A e \in Docs \ {d} : StageOf(e)' = StageOf(e)
    BY <2>1 DEF Upload, StageOf, Exists
  <2> QED
    BY <2>2, <2>3, OneDocMoves DEF LedgerStep
<1>2. CASE CreateDocument(r)
  <2>1. PICK d \in Docs : d = request[r].doc
    BY <1>2 DEF CreateDocument, Types, TypeOK, At, Request
  <2>2. d \in files /\ d \in known /\ ~Exists(d)
    BY <1>2, <2>1 DEF CreateDocument, At, HandlersInv, HandlerInv, NamesKnown
  <2> DEFINE row == [status |-> "PENDING", totalChunks |-> 0, by |-> NoRun]
  <2>3. /\ docs' = [docs EXCEPT ![d] = row] /\ UNCHANGED <<files, known>>
        /\ docs \in [Docs -> DocRow \cup {NoDoc}]
    BY <1>2, <2>1 DEF CreateDocument, Types, TypeOK
  <2>4. row # NoDoc
    <3>1. row \in DocRow
      BY DEF DocRow
    <3> QED
      BY <3>1, AbsenceAssumption
  <2>5. StageOf(d) = "stored" /\ StageOf(d)' = "listed"
    BY <2>2, <2>3, <2>4 DEF StageOf, Exists
  <2>6. \A e \in Docs \ {d} : StageOf(e)' = StageOf(e)
    BY <2>3 DEF StageOf, Exists
  <2> QED
    BY <2>5, <2>6, OneDocMoves DEF LedgerStep
<1>3. CASE UnlinkFile(r)
  <2>1. PICK d \in Docs : d = request[r].doc
    BY <1>3 DEF UnlinkFile, Types, TypeOK, At, Request
  <2>2. /\ d \in known /\ (d \in files => Exists(d))
        /\ files' = files \ {d} /\ UNCHANGED <<docs, known>>
    BY <1>3, <2>1 DEF UnlinkFile, At, HandlersInv, HandlerInv, NamesKnown
  <2>3. \A e \in Docs \ {d} : StageOf(e)' = StageOf(e)
    BY <2>2 DEF StageOf, Exists
  <2>4. CASE d \in files
    <3>1. StageOf(d) = "listed" /\ StageOf(d)' = "unlinked"
      BY <2>2, <2>4 DEF StageOf, Exists
    <3> QED
      BY <2>3, <3>1, OneDocMoves DEF LedgerStep
  <2>5. CASE d \notin files
    BY <2>2, <2>5, LedgerStands DEF KeepsListed
  <2> QED
    BY <2>4, <2>5
<1>4. CASE DeleteRow(r)
  <2>1. PICK d \in Docs : d = request[r].doc
    BY <1>4 DEF DeleteRow, Types, TypeOK, At, Request
  <2>2. /\ d \in known /\ d \notin files
        /\ docs \in [Docs -> DocRow \cup {NoDoc}]
        /\ docs' = [docs EXCEPT ![d] = NoDoc] /\ UNCHANGED <<files, known>>
    BY <1>4, <2>1
    DEF DeleteRow, At, HandlersInv, HandlerInv, NamesKnown, Types, TypeOK
  <2>3. \A e \in Docs \ {d} : StageOf(e)' = StageOf(e)
    BY <2>2 DEF StageOf, Exists
  <2>4. CASE Exists(d)
    <3>1. StageOf(d) = "unlinked" /\ StageOf(d)' = "removed"
      BY <2>2, <2>4 DEF StageOf, Exists
    <3> QED
      BY <2>3, <3>1, OneDocMoves DEF LedgerStep
  <2>5. CASE ~Exists(d)
    BY <2>2, <2>5, LedgerStands DEF KeepsListed, Exists
  <2> QED
    BY <2>4, <2>5
<1>5. CASE MarkPending(r)
  <2>1. PICK d \in Docs : d = request[r].doc
    BY <1>5 DEF MarkPending, Types, TypeOK, At, Request
  <2>2. CASE Exists(d)
    <3> DEFINE row == [docs[d] EXCEPT !.status = "PENDING", !.totalChunks = 0]
    <3>1. row \in DocRow
      <4>1. docs[d] \in DocRow
        BY <2>2 DEF Types, TypeOK, Exists
      <4> QED
        BY <4>1 DEF DocRow
    <3>2. docs' = [docs EXCEPT ![d] = row] /\ UNCHANGED <<files, known>>
      BY <1>5, <2>1, <2>2 DEF MarkPending, Types, TypeOK
    <3> HIDE DEF row
    <3> QED
      BY <2>2, <3>1, <3>2, RowsKeptListed, LedgerStands DEF Exists
  <2>3. CASE ~Exists(d)
    BY <1>5, <2>1, <2>3, LedgerStands DEF MarkPending, KeepsListed
  <2> QED
    BY <2>2, <2>3
<1>6. CASE \/ \E d \in Docs : Find(r, "delete", d) \/ Find(r, "reprocess", d)
           \/ Enqueue(r) \/ EnqueueFails(r) \/ ClearChunks(r) \/ RequestFails(r)
  <2>1. UNCHANGED <<files, docs, known>>
    BY <1>6 DEF Find, Enqueue, EnqueueFails, ClearChunks, RequestFails, tables
  <2> QED
    BY <2>1, LedgerStands DEF KeepsListed
<1> QED
  BY <1>1, <1>2, <1>3, <1>4, <1>5, <1>6 DEF Handle

LEMMA RunLedger ==
  ASSUME DocumentsInv, NEW x \in RunIds, Process(x) \/ RunFails(x)
  PROVE  LedgerStep
<1>0. UNCHANGED <<files, known>>
  BY DEF Process, RunFails, MarkProcessing, LoadText, CreateChunk, EmbedChunk,
     Complete, RecordFailure, tables
<1>1. CASE UNCHANGED docs
  BY <1>0, <1>1, LedgerStands DEF KeepsListed
<1>2. CASE ~UNCHANGED docs
  <2> DEFINE d == runs[x].doc
  <2>0. /\ Running(x) /\ d \in Docs /\ Exists(d)
        /\ docs \in [Docs -> DocRow \cup {NoDoc}]
    BY <1>2 DEF Process, RunFails, MarkProcessing, LoadText, CreateChunk,
       EmbedChunk, Complete, RecordFailure, tables, RunAt, Running, Run,
       DocumentsInv, Types, TypeOK
  <2>1. PICK row \in DocRow : docs' = [docs EXCEPT ![d] = row]
    <3>1. docs[d] \in DocRow /\ TextChunks[d] \in Nat
      BY <2>0, PipelineAssumption DEF Exists
    <3>2. CASE MarkProcessing(x) \/ RecordFailure(x)
      <4>1. PICK s \in {"PROCESSING", "FAILED"} :
              docs' = [docs EXCEPT ![d].status = s]
        BY <1>2, <3>2 DEF MarkProcessing, RecordFailure
      <4>2. [docs[d] EXCEPT !.status = s] \in DocRow
        BY <3>1 DEF DocRow
      <4> QED
        BY <2>0, <4>1, <4>2
    <3>3. CASE Complete(x)
      <4> DEFINE row == [status |-> "COMPLETED", by |-> x,
                         totalChunks |-> TextChunks[d]]
      <4>1. row \in DocRow
        BY <3>1 DEF DocRow
      <4> QED
        BY <1>2, <3>3, <4>1 DEF Complete
    <3> QED
      BY <1>2, <3>2, <3>3 DEF Process, RunFails, LoadText, CreateChunk,
         EmbedChunk, tables
  <2> QED
    BY <1>0, <2>0, <2>1, RowsKeptListed, LedgerStands DEF Exists
<1> QED
  BY <1>1, <1>2

LEMMA StepIsLedgerStep ==
  ASSUME DocumentsInv, [Next]_vars
  PROVE  LedgerStep
<1>1. CASE (\E j \in JobIds : TakeJob(j)) \/ Crash \/ UNCHANGED vars
  <2>1. UNCHANGED <<files, docs, known>>
    BY <1>1 DEF TakeJob, Crash, tables, vars
  <2> QED
    BY <2>1, LedgerStands DEF KeepsListed
<1> QED
  BY <1>1, HandleLedger, RunLedger DEF Next

\* However uploads, deletions, runs, faults and crashes overlap, a file is
\* written before its row exists and unlinked before its row goes, and neither
\* comes back: RagService implements FileLedger.
THEOREM DocumentsKeepOrder == Spec => FilesSpec
<1>1. Init => Files!Init
  BY DEF Init, Files!Init, StageOf
<1>2. DocumentsInv /\ [Next]_vars
      => [Files!Next]_([d \in Docs |-> StageOf(d)])
  BY StepIsLedgerStep DEF LedgerStep, Files!Next
<1> QED
  BY <1>1, <1>2, Invariance, PTL DEF Spec, FilesSpec, Files!Spec

-----------------------------------------------------------------------------
(* Search and chat: RagChat, as MCDocuments instantiates it *)

RagSource == [doc : Papers, embedding : Rag!Embedding, lacks : BOOLEAN,
              repeats : BOOLEAN, undercut : BOOLEAN, piled : BOOLEAN]
Question == [op : {"search", "chat"}, tenant : Tenants, filter : SUBSET Papers,
             step : Rag!Stages, key : Rag!KeyRead,
             query : Rag!Embedding \cup {Rag!Unembedded}, sources : SUBSET RagSource]
KeyTypes == key \in [Tenants -> BOOLEAN] /\ changes \in [Tenants -> Nat]
PaperTypes ==
  /\ status \in [Papers -> {"PENDING", "PROCESSING", "COMPLETED", "FAILED"}]
  /\ pieces \in [Papers -> SUBSET Rag!Row]
  /\ calls \in [Rag!RunIds -> Rag!Run \cup {NoRun}]
  /\ reprocess \in [Editors -> Papers \cup {NoDoc}]
  /\ undercut \in [Papers -> BOOLEAN] /\ piled \in [Papers -> BOOLEAN]

\* The n-th change of a key stores one when n is odd.  What was read of the key,
\* and the model that was used, follow from that and from who declined.
Stored(n) == n % 2 = 1
GoodRead(k) == k.found = (Stored(k.at) /\ k.declined = FALSE)
GoodEmbedding(e) ==
  e.model = IF Stored(e.at) /\ e.declined = FALSE THEN "openai" ELSE "mock"
KeysInv == KeyTypes /\ \A t \in Tenants : key[t] = Stored(changes[t])
ReadsGood == \A x \in Rag!RunIds : calls[x] # NoRun => GoodRead(calls[x].key)
RowsGood ==
  \A d \in Papers : \A c \in pieces[d] :
    c.embedding # Rag!Unembedded => GoodEmbedding(c.embedding)

\* The rows a call at work has made are there, if no removal met it at work; the
\* chunks of a completed document are, or all are gone and nobody is at work.
Made(d) ==
  \A x \in Rag!RunIds : Rag!WorkOn(x, d) /\ undercut[d] = FALSE =>
    \A i \in 1 .. calls[x].index : \E c \in pieces[d] : c.index = i
Finished(d) ==
  status[d] = "COMPLETED" /\ undercut[d] = FALSE =>
    ~Rag!Lacks(d) \/ (pieces[d] = {} /\ ~Rag!AtWork(d))
\* A call makes a row once, and it has begun.
RowOfCall(c) == calls[c.run] # NoRun
MadeOnce(d) ==
  /\ \A b, c \in pieces[d] : b.run = c.run /\ b.index = c.index => b = c
  /\ \A c \in pieces[d] : /\ RowOfCall(c)
                          /\ Rag!WorkOn(c.run, d) => c.index <= calls[c.run].index
\* One call has made every row, and nobody else is at work, unless calls piled up.
Has(x, d) == Rag!WorkOn(x, d) \/ \E c \in pieces[d] : c.run = x
MadeByOne(d) ==
  piled[d] = FALSE =>
    \A x, y \in Rag!RunIds : Has(x, d) /\ Has(y, d) => x = y
PaperInv(d) == Made(d) /\ Finished(d) /\ MadeOnce(d) /\ MadeByOne(d)
PapersInv == PaperTypes /\ ReadsGood /\ RowsGood /\ \A d \in Papers : PaperInv(d)

GoodSource(s, tenant) ==
  /\ GoodEmbedding(s.embedding) /\ TenantOf[s.doc] = tenant
  /\ s.lacks => s.undercut
  /\ s.repeats => s.piled
GoodQuestion(q) ==
  /\ GoodRead(q.key)
  /\ q.query # Rag!Unembedded => GoodEmbedding(q.query)
  /\ q.step = "embedded" \/ q.sources # {} => q.query # Rag!Unembedded
  /\ \A s \in q.sources : GoodSource(s, q.tenant)
QuestionsInv ==
  /\ question \in [Readers -> Question \cup {NoRequest}]
  /\ \A r \in Readers : question[r] # NoRequest => GoodQuestion(question[r])
RagInv == KeysInv /\ PapersInv /\ QuestionsInv

USE DEF Rag!KeyRead, Rag!NotRead, Rag!Unembedded, Rag!Embedding, Rag!Stages

LEMMA RagStarts == Rag!Init => RagInv
<1> SUFFICES ASSUME Rag!Init PROVE RagInv
  OBVIOUS
<1>1. KeysInv
  <2>1. \A t \in Tenants : key[t] = FALSE /\ changes[t] = 0
    BY DEF Rag!Init
  <2>2. ~Stored(0)
    BY DEF Stored
  <2>3. KeyTypes
    BY DEF Rag!Init, KeyTypes
  <2>4. \A t \in Tenants : key[t] = Stored(changes[t])
    BY <2>1, <2>2 DEF Stored
  <2> QED
    BY <2>3, <2>4 DEF KeysInv
<1>2. PapersInv
  BY DEF Rag!Init, PapersInv, PaperTypes, ReadsGood, RowsGood, PaperInv, Made,
     Finished, MadeOnce, MadeByOne, Has, Rag!WorkOn
<1>3. QuestionsInv
  BY DEF Rag!Init, QuestionsInv
<1> QED
  BY <1>1, <1>2, <1>3 DEF RagInv

LEMMA StoredAlternates == \A n \in Nat : Stored(n + 1) = (Stored(n) = FALSE)
BY DEF Stored

\* What getEmbeddingApiKey() reads and what generateEmbedding() makes of it.
LEMMA ReadsAreGood ==
  ASSUME KeysInv, NEW t \in Tenants, NEW k \in Rag!GetEmbeddingApiKey(t)
  PROVE  k \in Rag!KeyRead /\ GoodRead(k)
<1>1. key[t] \in BOOLEAN /\ changes[t] \in Nat /\ key[t] = Stored(changes[t])
  BY DEF KeysInv, KeyTypes
<1>2. CASE k = [found |-> key[t], at |-> changes[t], declined |-> FALSE]
  BY <1>1, <1>2, Zenon DEF GoodRead
<1>3. CASE k = [found |-> FALSE, at |-> changes[t], declined |-> key[t]]
  <2>1. k \in Rag!KeyRead
    BY <1>1, <1>3
  <2>2. k.found = FALSE /\ k.at = changes[t] /\ k.declined = key[t]
    BY <1>3
  <2>3. (Stored(k.at) /\ k.declined = FALSE) = FALSE
    BY <1>1, <2>2
  <2> QED
    BY <2>1, <2>2, <2>3 DEF GoodRead
<1> QED
  BY <1>2, <1>3 DEF Rag!GetEmbeddingApiKey

LEMMA EmbeddingsAreGood ==
  ASSUME NEW k \in Rag!KeyRead, GoodRead(k), NEW e \in Rag!GenerateEmbedding(k)
  PROVE  e \in Rag!Embedding /\ GoodEmbedding(e) /\ e # Rag!Unembedded
<1>0. k.at \in Nat /\ k.found \in BOOLEAN /\ k.declined \in BOOLEAN
  OBVIOUS
<1>1. CASE ~k.found
  <2>1. e = [model |-> "mock", at |-> k.at, declined |-> k.declined]
    BY <1>1 DEF Rag!GenerateEmbedding
  <2>2. ~(Stored(e.at) /\ e.declined = FALSE)
    BY <1>1, <2>1 DEF GoodRead
  <2> QED
    BY <1>0, <2>1, <2>2 DEF GoodEmbedding
<1>2. CASE k.found
  <2>1. Stored(k.at)
    BY <1>2 DEF GoodRead
  <2>2. CASE e = [model |-> "openai", at |-> k.at, declined |-> FALSE]
    BY <1>0, <2>1, <2>2 DEF GoodEmbedding
  <2>3. CASE e = [model |-> "mock", at |-> k.at, declined |-> TRUE]
    <3>1. ~(Stored(e.at) /\ e.declined = FALSE)
      BY <2>3
    <3> QED
      BY <1>0, <2>3, <3>1 DEF GoodEmbedding
  <2> QED
    BY <1>2, <2>2, <2>3 DEF Rag!GenerateEmbedding
<1> QED
  BY <1>1, <1>2

-----------------------------------------------------------------------------
(* The steps of processDocument() and reprocessDocument() *)

\* A step that makes no row, removes none and lets no call begin.
Calmer ==
  /\ UNCHANGED <<pieces, undercut, piled>>
  /\ \A x \in Rag!RunIds : calls[x] # NoRun => calls'[x] # NoRun
  /\ \A x \in Rag!RunIds, d \in Papers : Rag!WorkOn(x, d)' =>
       Rag!WorkOn(x, d) /\ calls'[x].index = calls[x].index
  /\ \A d \in Papers : status'[d] = "COMPLETED" =>
       \/ status[d] = "COMPLETED" \/ ~Rag!Lacks(d) \/ undercut[d] # FALSE

LEMMA CalmerKeeps ==
  ASSUME PapersInv, PaperTypes', ReadsGood', Calmer
  PROVE  PapersInv'
<1>1. RowsGood'
  BY DEF PapersInv, RowsGood, Calmer
<1>2. ASSUME NEW d \in Papers
      PROVE  PaperInv(d)'
  <2>0. PaperInv(d) /\ pieces[d] \in SUBSET Rag!Row
    BY DEF PapersInv, PaperTypes
  <2>1. Made(d)'
    BY <2>0 DEF PaperInv, Made, Calmer
  <2>2. Finished(d)'
    BY <2>0 DEF PaperInv, Finished, Rag!Lacks, Rag!AtWork, Calmer
  <2>3. MadeOnce(d)'
    BY <2>0 DEF PaperInv, MadeOnce, RowOfCall, Calmer, Rag!Row
  <2>4. MadeByOne(d)'
    BY <2>0 DEF PaperInv, MadeByOne, Has, Calmer
  <2> QED
    BY <2>1, <2>2, <2>3, <2>4 DEF PaperInv
<1> QED
  BY <1>1, <1>2 DEF PapersInv

LEMMA CallKnown ==
  ASSUME PapersInv, NEW x \in Rag!RunIds, calls[x] # NoRun
  PROVE  calls[x] \in Rag!Run /\ calls[x].doc \in Papers /\ GoodRead(calls[x].key)
BY DEF PapersInv, PaperTypes, ReadsGood, Rag!Run

LEMMA BeginRunKeeps ==
  ASSUME PapersInv, NEW x \in Rag!RunIds, NEW d \in Papers, Rag!BeginRun(x, d)
  PROVE  PapersInv'
<1> DEFINE h == [doc |-> d, step |-> "load", index |-> 0, key |-> Rag!NotRead]
<1>0. /\ calls[x] = NoRun /\ calls' = [calls EXCEPT ![x] = h]
      /\ status' = [status EXCEPT ![d] = "PROCESSING"]
      /\ piled' = [piled EXCEPT ![d] = @ \/ Rag!AtWork(d) \/ pieces[d] # {}]
      /\ UNCHANGED <<pieces, undercut, reprocess>>
  BY DEF Rag!BeginRun
<1>1. h \in Rag!Run /\ GoodRead(h.key) /\ h # NoRun
  <2>1. h \in Rag!Run
    BY DEF Rag!Run
  <2>2. GoodRead(h.key)
    BY DEF GoodRead
  <2> HIDE DEF h
  <2> QED
    BY <2>1, <2>2, RagAssumption
<1>2. PaperTypes'
  <2>1. piled' \in [Papers -> BOOLEAN]
    BY <1>0 DEF PapersInv, PaperTypes, Rag!AtWork
  <2> HIDE DEF h
  <2> QED
    BY <1>0, <1>1, <2>1 DEF PapersInv, PaperTypes
<1>3. ReadsGood'
  <2> HIDE DEF h
  <2> QED
    BY <1>0, <1>1 DEF PapersInv, PaperTypes, ReadsGood
<1>4. RowsGood'
  BY <1>0 DEF PapersInv, RowsGood
<1>5. \A y \in Rag!RunIds, p \in Papers :
        IF y = x THEN Rag!WorkOn(y, p)' = (p = d) /\ ~Rag!WorkOn(y, p)
                 ELSE Rag!WorkOn(y, p)' = Rag!WorkOn(y, p) /\ calls'[y] = calls[y]
  BY <1>0, <1>1 DEF PapersInv, PaperTypes, Rag!WorkOn
<1>6. calls'[x] = h /\ h.index = 0 /\ \A y \in Rag!RunIds \ {x} : calls'[y] = calls[y]
  BY <1>0 DEF PapersInv, PaperTypes
<1>7. ASSUME NEW p \in Papers
      PROVE  PaperInv(p)'
  <2>0. /\ PaperInv(p) /\ pieces[p] \in SUBSET Rag!Row /\ pieces'[p] = pieces[p]
        /\ undercut'[p] = undercut[p]
    BY <1>0 DEF PapersInv, PaperTypes
  <2>1. Made(p)'
    <3> SUFFICES ASSUME NEW y \in Rag!RunIds, Rag!WorkOn(y, p)', undercut'[p] = FALSE,
                        NEW i \in 1 .. calls'[y].index
                 PROVE  \E c \in pieces'[p] : c.index = i
      BY DEF Made
    <3>1. CASE y = x
      BY <1>6, <3>1
    <3>2. CASE y # x
      BY <1>5, <2>0, <3>2 DEF PaperInv, Made
    <3> QED
      BY <3>1, <3>2
  <2>2. Finished(p)'
    <3>1. CASE p = d
      BY <1>0, <3>1 DEF Finished, PapersInv, PaperTypes
    <3>2. CASE p # d
      <4>1. status'[p] = status[p] /\ (Rag!AtWork(p)' => Rag!AtWork(p))
        BY <1>0, <1>5, <3>2 DEF PapersInv, PaperTypes, Rag!AtWork
      <4> QED
        BY <1>0, <2>0, <4>1 DEF PaperInv, Finished, Rag!Lacks
    <3> QED
      BY <3>1, <3>2
  <2>3. MadeOnce(p)'
    <3>1. ASSUME NEW c \in pieces[p]
          PROVE  c.run \in Rag!RunIds /\ c.run # x /\ calls'[c.run] = calls[c.run]
      BY <1>0, <1>6, <2>0 DEF PaperInv, MadeOnce, RowOfCall, Rag!Row
    <3> QED
      BY <1>5, <2>0, <3>1 DEF PaperInv, MadeOnce, RowOfCall
  <2>4. MadeByOne(p)'
    <3>1. CASE p = d
      <4> SUFFICES ASSUME piled'[p] = FALSE, NEW y \in Rag!RunIds, Has(y, p)'
                   PROVE  y = x
        BY DEF MadeByOne
      <4>1. pieces[p] = {} /\ ~Rag!AtWork(p)
        BY <1>0, <3>1 DEF PapersInv, PaperTypes, Rag!AtWork
      <4> QED
        BY <1>5, <2>0, <4>1 DEF Has, Rag!AtWork
    <3>2. CASE p # d
      <4>1. piled'[p] = piled[p]
        BY <1>0, <3>2 DEF PapersInv, PaperTypes
      <4>2. \A y \in Rag!RunIds : Has(y, p)' => Has(y, p)
        BY <1>5, <2>0, <3>2 DEF Has
      <4> QED
        BY <2>0, <4>1, <4>2 DEF PaperInv, MadeByOne
    <3> QED
      BY <3>1, <3>2
  <2> QED
    BY <2>1, <2>2, <2>3, <2>4 DEF PaperInv
<1> QED
  BY <1>2, <1>3, <1>4, <1>7 DEF PapersInv

\* A call that takes a step without a row, or ends.
LEMMA CallStep ==
  ASSUME PapersInv, NEW x \in Rag!RunIds, calls[x] # NoRun,
         NEW h \in Rag!Run, GoodRead(h.key), h.doc = calls[x].doc,
         h.step # "ended" => calls[x].step # "ended" /\ h.index = calls[x].index,
         calls' = [calls EXCEPT ![x] = h],
         NEW s \in {"PENDING", "PROCESSING", "COMPLETED", "FAILED"},
         status' \in {status, [status EXCEPT ![calls[x].doc] = s]},
         s = "COMPLETED" =>
           ~Rag!Lacks(calls[x].doc) \/ undercut[calls[x].doc] # FALSE,
         UNCHANGED <<pieces, reprocess, undercut, piled>>
  PROVE  PapersInv'
<1>1. PaperTypes'
  BY DEF PapersInv, PaperTypes
<1>2. ReadsGood'
  BY DEF PapersInv, PaperTypes, ReadsGood
<1>3. \A y \in Rag!RunIds : calls[y] # NoRun => calls'[y] # NoRun
  BY RagAssumption DEF PapersInv, PaperTypes
<1>4. \A y \in Rag!RunIds, d \in Papers : Rag!WorkOn(y, d)' =>
        Rag!WorkOn(y, d) /\ calls'[y].index = calls[y].index
  BY DEF PapersInv, PaperTypes, Rag!WorkOn
<1>5. \A d \in Papers : status'[d] = "COMPLETED" =>
        \/ status[d] = "COMPLETED" \/ ~Rag!Lacks(d) \/ undercut[d] # FALSE
  BY CallKnown DEF PapersInv, PaperTypes
<1> QED
  BY <1>1, <1>2, <1>3, <1>4, <1>5, CalmerKeeps DEF Calmer

LEMMA EndRunKeeps ==
  ASSUME PapersInv, NEW x \in Rag!RunIds,
         Rag!Complete(x) \/ Rag!RecordFailure(x) \/ Rag!AbandonRun(x)
  PROVE  PapersInv'
<1> DEFINE d == calls[x].doc
           h == [doc |-> d, step |-> "ended", index |-> 0, key |-> Rag!NotRead]
<1>1. /\ calls[x] # NoRun /\ calls' = [calls EXCEPT ![x] = h]
      /\ UNCHANGED <<pieces, reprocess, undercut, piled>>
  BY DEF Rag!Complete, Rag!RecordFailure, Rag!AbandonRun, Rag!RunAt, Rag!EndRun
<1>2. h \in Rag!Run /\ GoodRead(h.key) /\ h.doc = d /\ h.step = "ended"
  BY <1>1, CallKnown DEF Rag!Run, GoodRead
<1>3. CASE Rag!Complete(x)
  <2>1. /\ status' = [status EXCEPT ![d] = "COMPLETED"]
        /\ Rag!WorkOn(x, d) /\ calls[x].index = PaperChunks[d]
    BY <1>3 DEF Rag!Complete, Rag!RunAt, Rag!WorkOn
  <2>2. d \in Papers /\ Made(d)
    BY <1>1, CallKnown DEF PapersInv, PaperInv
  <2>3. undercut[d] = FALSE =>
          \A i \in 1 .. PaperChunks[d] : \E c \in pieces[d] : c.index = i
    BY <2>1, <2>2 DEF Made
  <2>4. undercut[d] = FALSE => ~Rag!Lacks(d)
    BY <2>3 DEF Rag!Lacks
  <2> HIDE DEF h, d
  <2> QED
    BY <1>1, <1>2, <2>1, <2>4, CallStep DEF d
<1>4. CASE Rag!RecordFailure(x)
  <2>1. status' = [status EXCEPT ![d] = "FAILED"]
    BY <1>4 DEF Rag!RecordFailure
  <2> HIDE DEF h
  <2> QED
    BY <1>1, <1>2, <2>1, CallStep
<1>5. CASE Rag!AbandonRun(x)
  <2>1. status' = status
    BY <1>5 DEF Rag!AbandonRun
  <2> HIDE DEF h
  <2> QED
    BY <1>1, <1>2, <2>1, CallStep
<1> QED
  BY <1>3, <1>4, <1>5

LEMMA ReadKeyKeeps ==
  ASSUME KeysInv, PapersInv, NEW x \in Rag!RunIds, Rag!ReadKey(x)
  PROVE  PapersInv'
<1>1. /\ calls[x] # NoRun /\ calls[x].step = "load" /\ status' = status
      /\ UNCHANGED <<pieces, reprocess, undercut, piled>>
  BY DEF Rag!ReadKey, Rag!RunAt
<1>2. calls[x] \in Rag!Run /\ calls[x].doc \in Papers
  BY <1>1, CallKnown
<1>3. PICK k \in Rag!GetEmbeddingApiKey(TenantOf[calls[x].doc]) :
        calls' = [calls EXCEPT ![x].step = "chunk", ![x].key = k]
  BY DEF Rag!ReadKey
<1>4. k \in Rag!KeyRead /\ GoodRead(k)
  <2>1. TenantOf[calls[x].doc] \in Tenants
    BY <1>2, RagAssumption
  <2> QED
    BY <1>3, <2>1, ReadsAreGood
<1> DEFINE h == [calls[x] EXCEPT !.step = "chunk", !.key = k]
<1>5. /\ h \in Rag!Run /\ GoodRead(h.key) /\ h.doc = calls[x].doc
      /\ h.index = calls[x].index
  BY <1>2, <1>4 DEF Rag!Run
<1>6. calls' = [calls EXCEPT ![x] = h]
  BY <1>3 DEF PapersInv, PaperTypes
<1> HIDE DEF h
<1> QED
  BY <1>1, <1>5, <1>6, CallStep

LEMMA FailRunKeeps ==
  ASSUME PapersInv, NEW x \in Rag!RunIds, Rag!FailRun(x)
  PROVE  PapersInv'
<1>1. /\ calls[x] # NoRun /\ calls[x].step # "ended" /\ status' = status
      /\ UNCHANGED <<pieces, reprocess, undercut, piled>>
      /\ calls' = [calls EXCEPT ![x].step = "fail"]
  BY DEF Rag!FailRun, Rag!RunAt
<1>2. calls[x] \in Rag!Run /\ GoodRead(calls[x].key)
  BY <1>1, CallKnown
<1> DEFINE h == [calls[x] EXCEPT !.step = "fail"]
<1>3. /\ h \in Rag!Run /\ h.key = calls[x].key /\ h.doc = calls[x].doc
      /\ h.index = calls[x].index
  BY <1>2 DEF Rag!Run
<1>4. calls' = [calls EXCEPT ![x] = h]
  BY <1>1 DEF PapersInv, PaperTypes
<1> HIDE DEF h
<1> QED
  BY <1>1, <1>2, <1>3, <1>4, CallStep

LEMMA MarkPendingKeeps ==
  ASSUME PapersInv, NEW e \in Editors, Rag!MarkPending(e)
  PROVE  PapersInv'
<1>0. /\ UNCHANGED <<pieces, undercut, piled, calls>>
      /\ reprocess[e] # NoDoc /\ reprocess' = [reprocess EXCEPT ![e] = NoDoc]
      /\ status' \in {status, [status EXCEPT ![reprocess[e]] = "PENDING"]}
  BY DEF Rag!MarkPending
<1>1. PaperTypes'
  BY <1>0 DEF PapersInv, PaperTypes
<1>2. ReadsGood'
  BY <1>0 DEF PapersInv, ReadsGood
<1>3. Calmer
  BY <1>0 DEF Calmer, Rag!WorkOn, PapersInv, PaperTypes
<1> QED
  BY <1>1, <1>2, <1>3, CalmerKeeps

\* What a step of a call on one document leaves alone of another.
LEMMA OthersKeep ==
  ASSUME PapersInv, NEW d \in Papers, NEW p \in Papers, p # d,
         UNCHANGED <<status, undercut>>, pieces'[p] = pieces[p], piled'[p] = piled[p],
         \A y \in Rag!RunIds : calls[y] # NoRun => calls'[y] # NoRun,
         \A y \in Rag!RunIds : Rag!WorkOn(y, p)' = Rag!WorkOn(y, p),
         \A y \in Rag!RunIds : Rag!WorkOn(y, p) => calls'[y] = calls[y]
  PROVE  PaperInv(p)'
<1>0. PaperInv(p) /\ pieces[p] \in SUBSET Rag!Row
  BY DEF PapersInv, PaperTypes
<1>1. Made(p)'
  BY <1>0 DEF PaperInv, Made
<1>2. Finished(p)'
  BY <1>0 DEF PaperInv, Finished, Rag!Lacks, Rag!AtWork
<1>3. MadeOnce(p)'
  BY <1>0 DEF PaperInv, MadeOnce, RowOfCall, Rag!Row
<1>4. MadeByOne(p)'
  BY <1>0 DEF PaperInv, MadeByOne, Has
<1> QED
  BY <1>1, <1>2, <1>3, <1>4 DEF PaperInv

LEMMA CreateChunkKeeps ==
  ASSUME PapersInv, NEW x \in Rag!RunIds, Rag!CreateChunk(x)
  PROVE  PapersInv'
<1>d. PICK d \in Papers : d = calls[x].doc
  BY CallKnown DEF Rag!CreateChunk, Rag!RunAt
<1>i. PICK i : i = calls[x].index + 1
  OBVIOUS
<1> DEFINE row == [index |-> i, run |-> x, embedding |-> Rag!Unembedded]
           h == [calls[x] EXCEPT !.step = "embed", !.index = i]
<1>0. /\ calls[x] # NoRun /\ calls[x].step = "chunk"
      /\ UNCHANGED <<status, reprocess, undercut, piled>>
      /\ pieces' = [pieces EXCEPT ![d] = @ \cup {row}]
      /\ calls' = [calls EXCEPT ![x].step = "embed", ![x].index = i]
  BY <1>d, <1>i DEF Rag!CreateChunk, Rag!RunAt
<1>1. calls[x] \in Rag!Run /\ GoodRead(calls[x].key)
  BY <1>0, CallKnown
<1>2. calls[x].index \in Nat /\ i \in Nat
  BY <1>1, <1>i DEF Rag!Run
<1>3. row \in Rag!Row /\ row.index = i /\ row.run = x /\ row.embedding = Rag!Unembedded
  BY <1>2 DEF Rag!Row
<1>4. /\ h \in Rag!Run /\ h.key = calls[x].key /\ h.doc = d /\ h.index = i
      /\ h.step = "embed" /\ h # NoRun
  BY <1>1, <1>2, <1>d, RagAssumption DEF Rag!Run
<1>5. calls' = [calls EXCEPT ![x] = h]
  BY <1>0 DEF PapersInv, PaperTypes
<1> HIDE DEF row, h
<1>6. PaperTypes'
  <2>1. pieces' \in [Papers -> SUBSET Rag!Row]
    BY <1>0, <1>3 DEF PapersInv, PaperTypes
  <2>2. calls' \in [Rag!RunIds -> Rag!Run \cup {NoRun}]
    BY <1>4, <1>5 DEF PapersInv, PaperTypes
  <2> QED
    BY <1>0, <2>1, <2>2 DEF PapersInv, PaperTypes
<1>7. ReadsGood'
  BY <1>1, <1>4, <1>5 DEF PapersInv, PaperTypes, ReadsGood
<1>8. RowsGood'
  BY <1>0, <1>1, <1>3 DEF PapersInv, PaperTypes, RowsGood
<1>9. /\ calls'[x] = h /\ \A y \in Rag!RunIds \ {x} : calls'[y] = calls[y]
      /\ \A y \in Rag!RunIds : calls[y] # NoRun => calls'[y] # NoRun
      /\ \A y \in Rag!RunIds, p \in Papers : Rag!WorkOn(y, p)' = Rag!WorkOn(y, p)
      /\ pieces'[d] = pieces[d] \cup {row}
      /\ \A p \in Papers \ {d} : pieces'[p] = pieces[p] /\ ~Rag!WorkOn(x, p)
      /\ Rag!WorkOn(x, d)
  BY <1>0, <1>1, <1>4, <1>5, <1>d DEF PapersInv, PaperTypes, Rag!WorkOn
<1>10. PaperInv(d)'
  <2>0. PaperInv(d) /\ pieces[d] \in SUBSET Rag!Row
    BY <1>1 DEF PapersInv, PaperTypes
  <2>1. Made(d)'
    <3> SUFFICES ASSUME NEW y \in Rag!RunIds, Rag!WorkOn(y, d), undercut[d] = FALSE,
                        NEW j \in 1 .. calls'[y].index
                 PROVE  \E c \in pieces[d] \cup {row} : c.index = j
      BY <1>0, <1>9 DEF Made
    <3>1. CASE y = x /\ j = i
      BY <1>3, <3>1
    <3>2. CASE y = x /\ j # i
      <4>1. j \in 1 .. calls[x].index
        BY <1>2, <1>4, <1>9, <3>2, <1>i
      <4> QED
        BY <2>0, <3>2, <4>1 DEF PaperInv, Made
    <3>3. CASE y # x
      BY <1>9, <2>0, <3>3 DEF PaperInv, Made
    <3> QED
      BY <3>1, <3>2, <3>3
  <2>2. Finished(d)'
    <3> SUFFICES ASSUME status[d] = "COMPLETED", undercut[d] = FALSE
                 PROVE  ~Rag!Lacks(d)'
      BY <1>0 DEF Finished
    <3>1. ~Rag!Lacks(d)
      BY <1>9, <2>0 DEF PaperInv, Finished, Rag!AtWork
    <3> QED
      BY <1>9, <3>1 DEF Rag!Lacks
  <2>3. MadeOnce(d)'
    <3>1. ASSUME NEW c \in pieces[d]
          PROVE  ~(c.run = x /\ c.index = i)
      <4>1. c.run = x => c.index <= calls[x].index
        BY <1>9, <2>0, <3>1 DEF PaperInv, MadeOnce
      <4> QED
        BY <1>2, <2>0, <4>1, <1>i DEF Rag!Row
    <3>2. \A b, c \in pieces[d] \cup {row} : b.run = c.run /\ b.index = c.index => b = c
      BY <1>3, <2>0, <3>1 DEF PaperInv, MadeOnce
    <3>3. ASSUME NEW c \in pieces[d] \cup {row}
          PROVE  RowOfCall(c)' /\ (Rag!WorkOn(c.run, d) => c.index <= calls'[c.run].index)
      <4>1. CASE c.run # x
        BY <1>3, <1>9, <2>0, <4>1 DEF PaperInv, MadeOnce, RowOfCall, Rag!Row
      <4>2. CASE c.run = x /\ c # row
        <5>1. c.index <= calls[x].index /\ c.index \in Nat
          BY <1>9, <2>0, <4>2 DEF PaperInv, MadeOnce, Rag!Row
        <5> QED
          BY <1>2, <1>4, <1>9, <4>2, <5>1, <1>i DEF RowOfCall
      <4>3. CASE c = row
        BY <1>2, <1>3, <1>4, <1>9, <4>3 DEF RowOfCall
      <4> QED
        BY <4>1, <4>2, <4>3
    <3>4. \A c \in pieces[d] \cup {row} : c.run \in Rag!RunIds
      BY <1>3, <2>0 DEF Rag!Row
    <3> QED
      BY <1>1, <1>9, <3>2, <3>3, <3>4 DEF MadeOnce
  <2>4. MadeByOne(d)'
    <3>1. \A y \in Rag!RunIds : Has(y, d)' => Has(y, d)
      BY <1>1, <1>3, <1>9 DEF Has
    <3> QED
      BY <1>0, <2>0, <3>1 DEF PaperInv, MadeByOne
  <2> QED
    BY <2>1, <2>2, <2>3, <2>4 DEF PaperInv
<1>11. ASSUME NEW p \in Papers, p # d
       PROVE  PaperInv(p)'
  BY <1>0, <1>1, <1>9, <1>11, OthersKeep
<1> QED
  BY <1>6, <1>7, <1>8, <1>10, <1>11 DEF PapersInv

LEMMA EmbedChunkKeeps ==
  ASSUME PapersInv, NEW x \in Rag!RunIds, Rag!EmbedChunk(x)
  PROVE  PapersInv'
<1>d. PICK d \in Papers : d = calls[x].doc
  BY CallKnown DEF Rag!EmbedChunk, Rag!RunAt
<1> DEFINE h == [calls[x] EXCEPT !.step = "chunk"]
<1>0. /\ calls[x] # NoRun /\ calls[x].step = "embed"
      /\ UNCHANGED <<status, reprocess, undercut, piled>>
      /\ calls' = [calls EXCEPT ![x].step = "chunk"]
  BY DEF Rag!EmbedChunk, Rag!RunAt
<1>1. PICK e \in Rag!GenerateEmbedding(calls[x].key) \cup {Rag!Unembedded} :
        pieces' = [pieces EXCEPT ![d] =
          {IF c.run = x /\ c.index = calls[x].index
           THEN [c EXCEPT !.embedding = e] ELSE c : c \in @}]
  BY <1>d DEF Rag!EmbedChunk
<1> DEFINE F(c) == IF c.run = x /\ c.index = calls[x].index
                   THEN [c EXCEPT !.embedding = e] ELSE c
<1>2. calls[x] \in Rag!Run /\ GoodRead(calls[x].key)
  BY <1>0, CallKnown
<1>3. e \in Rag!Embedding \cup {Rag!Unembedded} /\ (e # Rag!Unembedded => GoodEmbedding(e))
  <2>1. calls[x].key \in Rag!KeyRead
    BY <1>2 DEF Rag!Run
  <2> QED
    BY <1>1, <1>2, <2>1, EmbeddingsAreGood
<1>4. h \in Rag!Run /\ h.key = calls[x].key /\ h.doc = d
      /\ h.index = calls[x].index /\ h.step = "chunk" /\ h # NoRun
  BY <1>2, <1>d, RagAssumption DEF Rag!Run
<1>5. calls' = [calls EXCEPT ![x] = h]
  BY <1>0 DEF PapersInv, PaperTypes
<1>6. ASSUME NEW c \in Rag!Row
      PROVE  /\ F(c) \in Rag!Row /\ F(c).run = c.run /\ F(c).index = c.index
             /\ F(c).embedding \in {e, c.embedding}
  <2> HIDE DEF Rag!Embedding
  <2> QED
    BY <1>3 DEF Rag!Row
<1>7. pieces'[d] = {F(c) : c \in pieces[d]} /\ pieces[d] \in SUBSET Rag!Row
  BY <1>1, <1>2 DEF PapersInv, PaperTypes
<1>8. \A p \in Papers \ {d} : pieces'[p] = pieces[p]
  BY <1>1 DEF PapersInv, PaperTypes
<1> HIDE DEF h, F
<1>9. PaperTypes'
  <2>1. pieces' \in [Papers -> SUBSET Rag!Row]
    <3>1. pieces'[d] \in SUBSET Rag!Row
      BY <1>6, <1>7
    <3>2. pieces' = [pieces EXCEPT ![d] = pieces'[d]]
      BY <1>1 DEF PapersInv, PaperTypes
    <3> QED
      BY <3>1, <3>2 DEF PapersInv, PaperTypes
  <2> QED
    BY <1>0, <1>4, <1>5, <2>1 DEF PapersInv, PaperTypes
<1>10. ReadsGood'
  BY <1>2, <1>4, <1>5 DEF PapersInv, PaperTypes, ReadsGood
<1>11. RowsGood'
  <2> SUFFICES ASSUME NEW p \in Papers, NEW c \in pieces'[p],
                      c.embedding # Rag!Unembedded
               PROVE  GoodEmbedding(c.embedding)
    BY DEF RowsGood
  <2>1. CASE p = d
    <3>1. PICK b \in pieces[d] : c = F(b)
      BY <1>7, <2>1
    <3> QED
      BY <1>2, <1>3, <1>6, <1>7, <3>1 DEF PapersInv, RowsGood
  <2>2. CASE p # d
    BY <1>8, <2>2 DEF PapersInv, RowsGood
  <2> QED
    BY <2>1, <2>2
<1>12. /\ \A y \in Rag!RunIds : calls[y] # NoRun =>
            calls'[y] # NoRun /\ calls'[y].index = calls[y].index
       /\ \A y \in Rag!RunIds, p \in Papers : Rag!WorkOn(y, p)' = Rag!WorkOn(y, p)
       /\ \A y \in Rag!RunIds, p \in Papers \ {d} : Rag!WorkOn(y, p) => calls'[y] = calls[y]
  BY <1>0, <1>2, <1>4, <1>5, <1>d DEF PapersInv, PaperTypes, Rag!WorkOn
<1>13. PaperInv(d)'
  <2>0. PaperInv(d)
    BY <1>2 DEF PapersInv
  <2>1. Made(d)'
    <3> SUFFICES ASSUME NEW y \in Rag!RunIds, Rag!WorkOn(y, d), undercut[d] = FALSE,
                        NEW j \in 1 .. calls[y].index
                 PROVE  \E c \in pieces'[d] : c.index = j
      BY <1>0, <1>2, <1>12 DEF Made, Rag!WorkOn
    <3>1. PICK c \in pieces[d] : c.index = j
      BY <2>0 DEF PaperInv, Made
    <3> QED
      BY <1>6, <1>7, <3>1
  <2>2. Finished(d)'
    <3>1. Rag!Lacks(d)' => Rag!Lacks(d)
      BY <1>6, <1>7 DEF Rag!Lacks
    <3>2. pieces[d] = {} => pieces'[d] = {}
      BY <1>7
    <3>3. Rag!AtWork(d)' = Rag!AtWork(d)
      BY <1>2, <1>12 DEF Rag!AtWork
    <3> QED
      BY <1>0, <2>0, <3>1, <3>2, <3>3 DEF PaperInv, Finished
  <2>3. MadeOnce(d)'
    <3>1. \A b, c \in pieces'[d] : b.run = c.run /\ b.index = c.index => b = c
      BY <1>6, <1>7, <2>0 DEF PaperInv, MadeOnce
    <3>2. ASSUME NEW c \in pieces'[d]
          PROVE  /\ RowOfCall(c)'
                 /\ Rag!WorkOn(c.run, d)' => c.index <= calls'[c.run].index
      <4>1. PICK b \in pieces[d] : c = F(b)
        BY <1>7, <3>2
      <4>2. /\ c.run = b.run /\ c.index = b.index /\ b.run \in Rag!RunIds
            /\ RowOfCall(b) /\ (Rag!WorkOn(b.run, d) => b.index <= calls[b.run].index)
        BY <1>6, <1>7, <2>0, <4>1 DEF PaperInv, MadeOnce, Rag!Row
      <4>3. Rag!WorkOn(b.run, d)' = Rag!WorkOn(b.run, d)
        BY <1>2, <1>12, <4>2
      <4> QED
        BY <1>12, <4>2, <4>3 DEF RowOfCall
    <3> QED
      BY <3>1, <3>2 DEF MadeOnce
  <2>4. MadeByOne(d)'
    <3>1. \A y \in Rag!RunIds : Has(y, d)' => Has(y, d)
      BY <1>2, <1>6, <1>7, <1>12 DEF Has
    <3> QED
      BY <1>0, <2>0, <3>1 DEF PaperInv, MadeByOne
  <2> QED
    BY <2>1, <2>2, <2>3, <2>4 DEF PaperInv
<1>14. ASSUME NEW p \in Papers, p # d
       PROVE  PaperInv(p)'
  BY <1>0, <1>2, <1>8, <1>12, <1>14, OthersKeep
<1> QED
  BY <1>9, <1>10, <1>11, <1>13, <1>14 DEF PapersInv

LEMMA ClearChunksKeeps ==
  ASSUME PapersInv, NEW e \in Editors, NEW d \in Papers, Rag!ClearChunks(e, d)
  PROVE  PapersInv'
<1> DEFINE two == \E x, y \in Rag!RunIds : x # y /\ Rag!WorkOn(x, d) /\ Rag!WorkOn(y, d)
<1>0. /\ UNCHANGED <<status, calls>>
      /\ reprocess' = [reprocess EXCEPT ![e] = d]
      /\ pieces' = [pieces EXCEPT ![d] = {}]
      /\ undercut' = [undercut EXCEPT ![d] = Rag!AtWork(d)]
      /\ piled' = [piled EXCEPT ![d] = two]
  BY DEF Rag!ClearChunks
<1>1. PaperTypes'
  BY <1>0 DEF PapersInv, PaperTypes, Rag!AtWork
<1>2. ReadsGood' /\ RowsGood'
  BY <1>0 DEF PapersInv, PaperTypes, ReadsGood, RowsGood
<1>3. /\ pieces'[d] = {} /\ undercut'[d] = Rag!AtWork(d) /\ piled'[d] = two
      /\ \A x \in Rag!RunIds, p \in Papers : Rag!WorkOn(x, p)' = Rag!WorkOn(x, p)
      /\ \A p \in Papers \ {d} : /\ pieces'[p] = pieces[p] /\ piled'[p] = piled[p]
                                 /\ undercut'[p] = undercut[p]
  BY <1>0 DEF PapersInv, PaperTypes, Rag!WorkOn
<1>4. Made(d)' /\ Finished(d)' /\ MadeOnce(d)' /\ MadeByOne(d)'
  <2>1. Rag!AtWork(d)' = Rag!AtWork(d)
    BY <1>3 DEF Rag!AtWork
  <2>2. Made(d)'
    BY <1>3 DEF Made, Rag!AtWork
  <2>3. Finished(d)'
    BY <1>3, <2>1 DEF Finished
  <2>4. MadeOnce(d)'
    BY <1>3 DEF MadeOnce
  <2>5. MadeByOne(d)'
    BY <1>3 DEF MadeByOne, Has
  <2> QED
    BY <2>2, <2>3, <2>4, <2>5
<1>5. ASSUME NEW p \in Papers, p # d
      PROVE  PaperInv(p)'
  <2>0. PaperInv(p) /\ pieces[p] \in SUBSET Rag!Row
    BY DEF PapersInv, PaperTypes
  <2>1. Made(p)'
    BY <1>0, <1>3, <1>5, <2>0 DEF PaperInv, Made
  <2>2. Finished(p)'
    BY <1>0, <1>3, <1>5, <2>0 DEF PaperInv, Finished, Rag!Lacks, Rag!AtWork
  <2>3. MadeOnce(p)'
    BY <1>0, <1>3, <1>5, <2>0 DEF PaperInv, MadeOnce, RowOfCall, Rag!Row
  <2>4. MadeByOne(p)'
    BY <1>0, <1>3, <1>5, <2>0 DEF PaperInv, MadeByOne, Has
  <2> QED
    BY <2>1, <2>2, <2>3, <2>4 DEF PaperInv
<1> QED
  BY <1>1, <1>2, <1>4, <1>5 DEF PapersInv, PaperInv

-----------------------------------------------------------------------------
(* The steps of a search or chat *)

\* What keys and documents are made of.
ragTables == <<key, changes, status, pieces, calls, reprocess, undercut, piled>>

LEMMA TablesKeep ==
  ASSUME KeysInv, PapersInv, UNCHANGED ragTables
  PROVE  KeysInv' /\ PapersInv'
<1>1. KeysInv'
  BY DEF ragTables, KeysInv, KeyTypes
<1>2. PaperTypes' /\ ReadsGood' /\ RowsGood'
  BY DEF ragTables, PapersInv, PaperTypes, ReadsGood, RowsGood
<1>3. Calmer
  BY DEF ragTables, Calmer, Rag!WorkOn
<1> QED
  BY <1>1, <1>2, <1>3, CalmerKeeps

\* A step of a search or chat replaces its own request by a good one.
LEMMA QuestionStep ==
  ASSUME RagInv, NEW r \in Readers, NEW q \in Question, GoodQuestion(q),
         question' = [question EXCEPT ![r] = q], UNCHANGED ragTables
  PROVE  RagInv'
<1>1. KeysInv' /\ PapersInv'
  BY TablesKeep DEF RagInv
<1>2. QuestionsInv'
  <2>1. question' \in [Readers -> Question \cup {NoRequest}]
    BY DEF RagInv, QuestionsInv
  <2> SUFFICES ASSUME NEW x \in Readers, question'[x] # NoRequest
               PROVE  GoodQuestion(question'[x])
    BY <2>1 DEF QuestionsInv
  <2> QED
    BY DEF RagInv, QuestionsInv
<1> QED
  BY <1>1, <1>2 DEF RagInv

LEMMA ChangeKeyKeeps ==
  ASSUME KeysInv, NEW t \in Tenants, Rag!ChangeKey(t)
  PROVE  KeysInv'
<1>1. changes[t] \in Nat /\ key[t] \in BOOLEAN
  BY DEF KeysInv, KeyTypes
<1>2. Stored(changes[t] + 1) = (Stored(changes[t]) = FALSE)
  BY <1>1, StoredAlternates
<1>3. KeyTypes'
  BY <1>1 DEF Rag!ChangeKey, KeysInv, KeyTypes
<1>4. \A x \in Tenants : key'[x] = Stored(changes'[x])
  BY <1>1, <1>2 DEF Rag!ChangeKey, KeysInv, KeyTypes, Stored
<1> QED
  BY <1>3, <1>4 DEF KeysInv

LEMMA AskKeeps ==
  ASSUME RagInv, NEW r \in Readers, NEW op \in {"search", "chat"},
         NEW t \in Tenants, NEW filter \in {Papers} \cup {{d} : d \in Papers},
         Rag!Ask(r, op, t, filter)
  PROVE  RagInv'
<1> DEFINE q == [op |-> op, tenant |-> t, filter |-> filter, step |-> "asked",
                 key |-> Rag!NotRead, query |-> Rag!Unembedded, sources |-> {}]
<1>1. filter \in SUBSET Papers
  OBVIOUS
<1>2. q \in Question
  BY <1>1 DEF Question
<1>3. GoodQuestion(q)
  BY DEF GoodQuestion, GoodRead
<1>4. /\ question' = [question EXCEPT ![r] = q]
      /\ UNCHANGED ragTables
  BY DEF ragTables, Rag!tenantKey, Rag!documents, Rag!Ask
<1> HIDE DEF q
<1> QED
  BY <1>2, <1>3, <1>4, QuestionStep

LEMMA QueryKeyKeeps ==
  ASSUME RagInv, NEW r \in Readers, Rag!QueryKey(r)
  PROVE  RagInv'
<1> DEFINE old == question[r]
<1>1. old \in Question /\ GoodQuestion(old)
  BY DEF Rag!QueryKey, Rag!At, RagInv, QuestionsInv
<1>2. PICK k \in Rag!GetEmbeddingApiKey(old.tenant) :
        question' = [question EXCEPT ![r].step = "keyed", ![r].key = k]
  BY DEF Rag!QueryKey
<1>3. k \in Rag!KeyRead /\ GoodRead(k)
  <2>1. old.tenant \in Tenants
    BY <1>1 DEF Question
  <2> QED
    BY <1>2, <2>1, ReadsAreGood DEF RagInv
<1> DEFINE q == [old EXCEPT !.step = "keyed", !.key = k]
<1>4. q \in Question
  BY <1>1, <1>3 DEF Question
<1>5. GoodQuestion(q)
  <2>1. /\ q.key = k /\ q.step = "keyed" /\ q.query = old.query
        /\ q.sources = old.sources /\ q.tenant = old.tenant
    BY <1>1, <1>3 DEF Question
  <2> HIDE DEF q, old
  <2> QED
    BY <1>1, <1>3, <2>1 DEF GoodQuestion
<1>6. /\ question' = [question EXCEPT ![r] = q]
      /\ UNCHANGED ragTables
  BY <1>2 DEF ragTables, Rag!tenantKey, Rag!documents, Rag!QueryKey, RagInv, QuestionsInv
<1> HIDE DEF q
<1> QED
  BY <1>4, <1>5, <1>6, QuestionStep

LEMMA EmbedQueryKeeps ==
  ASSUME RagInv, NEW r \in Readers, Rag!EmbedQuery(r)
  PROVE  RagInv'
<1> DEFINE old == question[r]
<1>1. old \in Question /\ GoodQuestion(old) /\ old.step = "keyed"
  BY DEF Rag!EmbedQuery, Rag!At, RagInv, QuestionsInv
<1>2. UNCHANGED ragTables
  BY DEF ragTables, Rag!tenantKey, Rag!documents, Rag!EmbedQuery
<1>3. ASSUME NEW e \in Rag!GenerateEmbedding(old.key),
             question' = [question EXCEPT ![r].step = "embedded", ![r].query = e]
      PROVE  RagInv'
  <2>1. e \in Rag!Embedding /\ GoodEmbedding(e) /\ e # Rag!Unembedded
    <3>1. old.key \in Rag!KeyRead /\ GoodRead(old.key)
      BY <1>1 DEF Question, GoodQuestion
    <3> QED
      BY <1>3, <3>1, EmbeddingsAreGood
  <2> DEFINE q == [old EXCEPT !.step = "embedded", !.query = e]
  <2>2. q \in Question
    BY <1>1, <2>1 DEF Question
  <2>3. GoodQuestion(q)
    <3>1. /\ q.key = old.key /\ q.query = e
          /\ q.sources = old.sources /\ q.tenant = old.tenant
      BY <1>1, <2>1 DEF Question
    <3> HIDE DEF q, old
    <3> QED
      BY <1>1, <2>1, <3>1 DEF GoodQuestion
  <2>4. question' = [question EXCEPT ![r] = q]
    BY <1>3 DEF RagInv, QuestionsInv
  <2> HIDE DEF q
  <2> QED
    BY <1>2, <2>2, <2>3, <2>4, QuestionStep
<1>4. CASE question' = [question EXCEPT ![r].step = "refused"]
  <2> DEFINE q == [old EXCEPT !.step = "refused"]
  <2>1. q \in Question
    BY <1>1 DEF Question
  <2>2. GoodQuestion(q)
    <3>1. /\ q.key = old.key /\ q.query = old.query /\ q.step = "refused"
          /\ q.sources = old.sources /\ q.tenant = old.tenant
      BY <1>1 DEF Question
    <3> HIDE DEF q, old
    <3> QED
      BY <1>1, <3>1 DEF GoodQuestion
  <2>3. question' = [question EXCEPT ![r] = q]
    BY <1>4 DEF RagInv, QuestionsInv
  <2> HIDE DEF q
  <2> QED
    BY <1>2, <2>1, <2>2, <2>3, QuestionStep
<1> QED
  BY <1>3, <1>4 DEF Rag!EmbedQuery

\* The only source of sources: chunks of completed documents, with an embedding.
LEMMA FoundAreGood ==
  ASSUME RagInv, NEW t \in Tenants, NEW filter \in SUBSET Papers,
         NEW c \in Rag!Similar(t, filter)
  PROVE  /\ Rag!Source(c[1], c[2]) \in RagSource
         /\ GoodSource(Rag!Source(c[1], c[2]), t)
<1>1. PICK d \in filter : c \in {d} \X pieces[d]
  BY DEF Rag!Similar
<1>2. /\ c[1] = d /\ c[2] \in pieces[d] /\ d \in Papers /\ TenantOf[d] = t
      /\ status[d] = "COMPLETED" /\ c[2].embedding # Rag!Unembedded
  BY <1>1 DEF Rag!Similar
<1>3. PaperInv(d) /\ pieces[d] \in SUBSET Rag!Row
      /\ undercut[d] \in BOOLEAN /\ piled[d] \in BOOLEAN
  BY <1>2 DEF RagInv, PapersInv, PaperTypes
<1>4. c[2].embedding \in Rag!Embedding /\ GoodEmbedding(c[2].embedding)
  <2>1. c[2].embedding \in Rag!Embedding \cup {Rag!Unembedded}
    BY <1>2, <1>3 DEF Rag!Row
  <2> QED
    BY <1>2, <2>1 DEF RagInv, PapersInv, RowsGood
<1>5. Rag!Lacks(d) => undercut[d]
  BY <1>2, <1>3 DEF PaperInv, Finished
<1>6. Rag!Repeats(d) => piled[d]
  <2> SUFFICES ASSUME NEW x \in pieces[d], NEW y \in pieces[d], x # y,
                      x.index = y.index, piled[d] = FALSE
               PROVE  FALSE
    BY <1>3 DEF Rag!Repeats
  <2>1. x.run \in Rag!RunIds /\ y.run \in Rag!RunIds
    BY <1>3 DEF Rag!Row
  <2>2. x.run = y.run
    BY <1>3, <2>1 DEF PaperInv, MadeByOne, Has
  <2> QED
    BY <1>3, <2>2 DEF PaperInv, MadeOnce
<1>7. Rag!Lacks(d) \in BOOLEAN /\ Rag!Repeats(d) \in BOOLEAN
  BY DEF Rag!Lacks, Rag!Repeats
<1> DEFINE s == Rag!Source(c[1], c[2])
<1>8. s = [doc |-> d, embedding |-> c[2].embedding, lacks |-> Rag!Lacks(d),
           repeats |-> Rag!Repeats(d), undercut |-> undercut[d], piled |-> piled[d]]
  BY <1>2 DEF Rag!Source
<1>9. s \in RagSource
  <2> HIDE DEF Rag!Embedding, s
  <2> QED
    BY <1>2, <1>3, <1>4, <1>7, <1>8 DEF RagSource
<1>10. /\ s.embedding = c[2].embedding /\ s.doc = d
       /\ s.lacks = Rag!Lacks(d) /\ s.repeats = Rag!Repeats(d)
       /\ s.undercut = undercut[d] /\ s.piled = piled[d]
  <2> HIDE DEF s
  <2> QED
    BY <1>8
<1>11. GoodSource(s, t)
  <2> HIDE DEF s
  <2> QED
    BY <1>2, <1>4, <1>5, <1>6, <1>10 DEF GoodSource
<1> QED
  BY <1>9, <1>11

LEMMA SearchKeeps ==
  ASSUME RagInv, NEW r \in Readers, Rag!SearchSimilarChunks(r)
  PROVE  RagInv'
<1> DEFINE old == question[r]
<1>1. old \in Question /\ GoodQuestion(old) /\ old.step = "embedded"
  BY DEF Rag!SearchSimilarChunks, Rag!At, RagInv, QuestionsInv
<1>2. UNCHANGED ragTables
  BY DEF ragTables, Rag!tenantKey, Rag!documents, Rag!SearchSimilarChunks
<1>3. old.tenant \in Tenants /\ old.filter \in SUBSET Papers
  BY <1>1 DEF Question
<1>4. ASSUME NEW found \in SUBSET Rag!Similar(old.tenant, old.filter),
             NEW step \in Rag!Stages, NEW sources,
             sources = {Rag!Source(c[1], c[2]) : c \in found},
             question' = [question EXCEPT ![r].step = step, ![r].sources = sources]
      PROVE  RagInv'
  <2>1. sources \in SUBSET RagSource /\ \A s \in sources : GoodSource(s, old.tenant)
    <3> HIDE DEF old
    <3> SUFFICES ASSUME NEW c \in found
                 PROVE  /\ Rag!Source(c[1], c[2]) \in RagSource
                        /\ GoodSource(Rag!Source(c[1], c[2]), old.tenant)
      BY <1>4
    <3> QED
      BY <1>3, <1>4, FoundAreGood
  <2> DEFINE q == [old EXCEPT !.step = step, !.sources = sources]
  <2>2. q \in Question
    <3>1. step \in Rag!Stages
      OBVIOUS
    <3>2. sources \in SUBSET RagSource
      BY <2>1
    <3> HIDE DEF old
    <3> QED
      BY <1>1, <3>1, <3>2 DEF Question
  <2>3. GoodQuestion(q)
    <3>1. /\ q.key = old.key /\ q.query = old.query
          /\ q.sources = sources /\ q.tenant = old.tenant
      BY <1>1 DEF Question
    <3> HIDE DEF q, old
    <3> QED
      BY <1>1, <2>1, <3>1 DEF GoodQuestion
  <2>4. question' = [question EXCEPT ![r] = q]
    BY <1>4 DEF RagInv, QuestionsInv
  <2> HIDE DEF q
  <2> QED
    BY <1>2, <2>2, <2>3, <2>4, QuestionStep
<1>5. CASE question' = [question EXCEPT ![r].step = "refused"]
  <2> DEFINE q == [old EXCEPT !.step = "refused"]
  <2>1. q \in Question
    BY <1>1 DEF Question
  <2>2. GoodQuestion(q)
    <3>1. /\ q.key = old.key /\ q.query = old.query
          /\ q.sources = old.sources /\ q.tenant = old.tenant
      BY <1>1 DEF Question
    <3> HIDE DEF q, old
    <3> QED
      BY <1>1, <3>1 DEF GoodQuestion
  <2>3. question' = [question EXCEPT ![r] = q]
    BY <1>5 DEF RagInv, QuestionsInv
  <2> HIDE DEF q
  <2> QED
    BY <1>2, <2>1, <2>2, <2>3, QuestionStep
<1>6. ASSUME NEW found \in SUBSET Rag!Similar(old.tenant, old.filter),
             question' = [question EXCEPT
               ![r].step = IF question[r].op = "search" THEN "answered" ELSE "gateway",
               ![r].sources = {Rag!Source(c[1], c[2]) : c \in found}]
      PROVE  RagInv'
  <2> DEFINE step == IF old.op = "search" THEN "answered" ELSE "gateway"
             sources == {Rag!Source(c[1], c[2]) : c \in found}
  <2>1. step \in Rag!Stages
    OBVIOUS
  <2>2. question' = [question EXCEPT ![r].step = step, ![r].sources = sources]
    BY <1>6
  <2> QED
    BY <1>4, <1>6, <2>1, <2>2
<1> QED
  BY <1>5, <1>6 DEF Rag!SearchSimilarChunks

LEMMA AnswerKeeps ==
  ASSUME RagInv, NEW r \in Readers, Rag!Answer(r)
  PROVE  RagInv'
<1> DEFINE old == question[r]
           step == IF <<r, "SUCCESS">> \in ledger THEN "answered" ELSE "refused"
           q == [old EXCEPT !.step = step]
<1>1. old \in Question /\ GoodQuestion(old)
  BY DEF Rag!Answer, Rag!At, RagInv, QuestionsInv
<1>2. q \in Question
  BY <1>1 DEF Question
<1>3. GoodQuestion(q)
  <2>1. /\ q.key = old.key /\ q.query = old.query /\ q.step # "embedded"
        /\ q.sources = old.sources /\ q.tenant = old.tenant
    BY <1>1 DEF Question
  <2> HIDE DEF q, old, step
  <2> QED
    BY <1>1, <2>1 DEF GoodQuestion
<1>4. /\ question' = [question EXCEPT ![r] = q]
      /\ UNCHANGED ragTables
  BY DEF ragTables, Rag!tenantKey, Rag!documents, Rag!Answer, RagInv, QuestionsInv
<1> HIDE DEF q
<1> QED
  BY <1>2, <1>3, <1>4, QuestionStep

\* What a step is of: the key of a tenant, a call of processDocument(), a
\* reprocessing, or a search or chat.
LEMMA OtherStep ==
  ASSUME RagInv, KeysInv', PapersInv', question' = question
  PROVE  RagInv'
BY DEF RagInv, QuestionsInv

LEMMA RagStep ==
  ASSUME RagInv, [Rag!Next]_(Rag!vars)
  PROVE  RagInv'
<1>0. KeysInv /\ PapersInv
  BY DEF RagInv
<1>1. ASSUME NEW t \in Tenants, Rag!ChangeKey(t)
      PROVE  RagInv'
  <2>1. KeysInv' /\ question' = question
    BY <1>0, <1>1, ChangeKeyKeeps DEF Rag!ChangeKey
  <2>2. UNCHANGED <<status, pieces, calls, reprocess, undercut, piled>>
    BY <1>1 DEF Rag!ChangeKey, Rag!documents
  <2>3. PaperTypes' /\ ReadsGood' /\ Calmer
    BY <1>0, <2>2 DEF PapersInv, PaperTypes, ReadsGood, Calmer, Rag!WorkOn
  <2> QED
    BY <1>0, <2>1, <2>3, CalmerKeeps, OtherStep
<1>2. ASSUME NEW x \in Rag!RunIds, Rag!Process(x)
      PROVE  RagInv'
  <2>1. PapersInv'
    BY <1>0, <1>2, BeginRunKeeps, ReadKeyKeeps, CreateChunkKeeps, EmbedChunkKeeps,
       EndRunKeeps, FailRunKeeps DEF Rag!Process
  <2>2. UNCHANGED <<key, changes, question>>
    BY <1>2 DEF Rag!Process, Rag!BeginRun, Rag!ReadKey, Rag!CreateChunk, Rag!EmbedChunk,
       Rag!Complete, Rag!FailRun, Rag!RecordFailure, Rag!AbandonRun, Rag!tenantKey
  <2>3. KeysInv'
    BY <1>0, <2>2 DEF KeysInv, KeyTypes
  <2> QED
    BY <2>1, <2>2, <2>3, OtherStep
<1>3. ASSUME NEW e \in Editors, Rag!Reprocess(e)
      PROVE  RagInv'
  <2>1. PapersInv'
    BY <1>0, <1>3, ClearChunksKeeps, MarkPendingKeeps DEF Rag!Reprocess
  <2>2. UNCHANGED <<key, changes, question>>
    BY <1>3 DEF Rag!Reprocess, Rag!ClearChunks, Rag!MarkPending, Rag!tenantKey
  <2>3. KeysInv'
    BY <1>0, <2>2 DEF KeysInv, KeyTypes
  <2> QED
    BY <2>1, <2>2, <2>3, OtherStep
<1>4. ASSUME NEW r \in Readers, Rag!Search(r)
      PROVE  RagInv'
  <2>1. CASE Rag!Chat(r)
    <3>1. UNCHANGED ragTables /\ question' = question
      BY <2>1 DEF Rag!Chat, Rag!tenantKey, Rag!documents, ragTables
    <3> QED
      BY <1>0, <3>1, TablesKeep, OtherStep
  <2> QED
    BY <1>4, <2>1, AskKeeps, QueryKeyKeeps, EmbedQueryKeeps, SearchKeeps,
       AnswerKeeps DEF Rag!Search
<1>5. CASE UNCHANGED Rag!vars
  <2>1. UNCHANGED ragTables /\ question' = question
    BY <1>5 DEF Rag!vars, Rag!tenantKey, Rag!documents, ragTables
  <2> QED
    BY <1>0, <2>1, TablesKeep, OtherStep
<1> QED
  BY <1>1, <1>2, <1>3, <1>4, <1>5 DEF Rag!Next

\* The invariant of search and chat: embeddings tell who made them, and a
\* completed document lacks or repeats a chunk only for a reason.
LEMMA RagHolds == Rag!Spec => []RagInv
BY RagStarts, RagStep, PTL DEF Rag!Spec

\* searchDocuments() and ragChat(): every source is a chunk of the tenant's own,
\* and of a document with each chunk of its text once, unless a reprocessing had
\* removed chunks under a processing at work, or processings had piled up.
THEOREM SourcesStayWhole == Rag!Spec => []SourcesAreWhole
<1>1. RagInv => SourcesAreWhole
  BY DEF RagInv, QuestionsInv, GoodQuestion, GoodSource, SourcesAreWhole,
     Rag!SourcesAreWhole
<1> QED
  BY <1>1, RagHolds, PTL

\* A source that another model embedded than the question has a cause: the key
\* changed in between, or OpenAI or the database declined one of the two.
THEOREM MixturesHaveCauses == Rag!Spec => []MixedIsExplained
<1>1. RagInv => MixedIsExplained
  <2> SUFFICES ASSUME RagInv, NEW r \in Readers, question[r] # NoRequest,
                      NEW s \in question[r].sources,
                      s.embedding.at = question[r].query.at,
                      s.embedding.declined = question[r].query.declined
               PROVE  s.embedding.model = question[r].query.model
    BY DEF MixedIsExplained, Rag!MixedIsExplained
  <2>1. GoodQuestion(question[r])
    BY DEF RagInv, QuestionsInv
  <2>2. GoodEmbedding(s.embedding) /\ GoodEmbedding(question[r].query)
    BY <2>1 DEF GoodQuestion, GoodSource
  <2> QED
    BY <2>2 DEF GoodEmbedding
<1> QED
  BY <1>1, RagHolds, PTL

-----------------------------------------------------------------------------
(* chunkText(): see Chunking *)

Char == Nat \X Nat
\* A text ends with a character that is not blank.
Ended(s) == s \in Seq(Char) /\ s # <<>> /\ s[Len(s)] \notin Cutting!Blank
StartsWith(whole, part) ==
  /\ Len(part) <= Len(whole)
  /\ \A k \in 1 .. Len(part) : whole[k] = part[k]

\* The chunks there would be if the loop ended here.
Cut == IF done THEN pushed ELSE Append(pushed, Cutting!Trim(current))

Kept(lengths, cut) ==
  \E home \in [1 .. Len(lengths) -> 1 .. Len(cut)] :
    /\ \A p \in 1 .. Len(lengths) :
         Cutting!Within(Cutting!Paragraph(p, lengths[p]), cut[home[p]])
    /\ \A p \in 2 .. Len(lengths) : home[p - 1] <= home[p]
Overlaps(one, next) ==
  LET shared == Cutting!Trim(Cutting!Slice(one, Overlap)) IN
  shared # <<>> /\ Len(shared) < Len(next) /\ StartsWith(next, shared)
Chained(cut) == \A i \in 2 .. Len(cut) : Overlaps(cut[i - 1], cut[i])

CutInv ==
  /\ seen \in Seq(1 .. MaxParagraph) /\ done \in BOOLEAN
  /\ current \in Seq(Char) /\ pushed \in Seq(Seq(Char))
  /\ IF current = <<>> THEN seen = <<>> /\ pushed = <<>> ELSE Ended(current)
  /\ \A i \in 1 .. Len(pushed) : Ended(pushed[i])
  /\ Kept(seen, Cut) /\ Chained(Cut)
  /\ Cutting!ChunksBounded

-----------------------------------------------------------------------------
(* Ends of texts *)

\* A nonempty set of naturals has a least element.
LEMMA LeastOfNaturals ==
  ASSUME NEW T \in SUBSET Nat, T # {}
  PROVE  \E x \in T : \A y \in T : x <= y
<1>1. PICK x \in T : \A y \in T : ~(<<y, x>> \in OpToRel(<, Nat))
  BY NatLessThanWellFounded, WFMin
<1>2. ASSUME NEW y \in T PROVE x <= y
  <2>1. ~(y < x)
    BY <1>1, Zenon DEF OpToRel
  <2> QED
    BY <2>1
<1> QED
  BY <1>2

\* The text s from its i-th character on.
From(s, i) == SubSeq(s, i, Len(s))

LEMMA FromIsText ==
  ASSUME NEW s \in Seq(Char), NEW i \in 1 .. Len(s)
  PROVE  /\ From(s, i) \in Seq(Char) /\ Len(From(s, i)) = Len(s) - i + 1
         /\ \A k \in 1 .. Len(From(s, i)) : From(s, i)[k] = s[i + k - 1]
         /\ Ended(s) => Ended(From(s, i))
<1>1. /\ From(s, i) \in Seq(Char) /\ Len(From(s, i)) = Len(s) - i + 1
      /\ \A k \in 1 .. Len(s) - i + 1 : From(s, i)[k] = s[i + k - 1]
  <2>1. \A j \in i .. Len(s) : s[j] \in Char
    BY ElementOfSeq, LenProperties
  <2> QED
    BY <2>1, SubSeqProperties, LenProperties DEF From
<1>2. ASSUME Ended(s) PROVE Ended(From(s, i))
  <2>1. From(s, i)[Len(s) - i + 1] = s[Len(s)]
    BY <1>1, LenProperties
  <2> QED
    BY <1>1, <1>2, <2>1, LenProperties, EmptySeq DEF Ended
<1> QED
  BY <1>1, <1>2

LEMMA FromOfFrom ==
  ASSUME NEW s \in Seq(Char), NEW i \in 1 .. Len(s), NEW j \in 1 .. Len(s) - i + 1
  PROVE  From(From(s, i), j) = From(s, i + j - 1)
<1>1. i + j - 1 \in 1 .. Len(s) /\ j \in 1 .. Len(From(s, i)) /\ From(s, i) \in Seq(Char)
  BY FromIsText, LenProperties
<1>2. /\ Len(From(From(s, i), j)) = Len(s) - i + 1 - j + 1
      /\ Len(From(s, i + j - 1)) = Len(s) - (i + j - 1) + 1
      /\ Len(From(From(s, i), j)) = Len(From(s, i + j - 1))
  <2>1. /\ Len(From(From(s, i), j)) = Len(From(s, i)) - j + 1
        /\ Len(From(s, i)) = Len(s) - i + 1
    BY <1>1, FromIsText
  <2>2. Len(From(s, i + j - 1)) = Len(s) - (i + j - 1) + 1
    BY <1>1, FromIsText
  <2> QED
    BY <2>1, <2>2, LenProperties
<1>3. ASSUME NEW k \in 1 .. Len(From(From(s, i), j))
      PROVE  From(From(s, i), j)[k] = From(s, i + j - 1)[k]
  <2>1. From(From(s, i), j)[k] = From(s, i)[j + k - 1]
    BY <1>1, FromIsText
  <2>2. j + k - 1 \in 1 .. Len(From(s, i))
    BY <1>1, <1>2, FromIsText, LenProperties
  <2>3. From(s, i)[j + k - 1] = s[i + (j + k - 1) - 1]
    BY <2>2, FromIsText
  <2>4. From(s, i + j - 1)[k] = s[(i + j - 1) + k - 1]
    BY <1>1, <1>2, FromIsText
  <2>5. i + (j + k - 1) - 1 = (i + j - 1) + k - 1
    BY <1>1, <1>2, LenProperties
  <2> QED
    BY <2>1, <2>3, <2>4, <2>5
<1> QED
  BY <1>1, <1>2, <1>3, FromIsText, SeqEqual

\* Where the first ink of an ended text is.
LEMMA FirstOfEnded ==
  ASSUME NEW s, Ended(s)
  PROVE  /\ Cutting!First(s) \in 1 .. Len(s)
         /\ s[Cutting!First(s)] \notin Cutting!Blank
         /\ \A j \in 1 .. Cutting!First(s) - 1 : s[j] \in Cutting!Blank
         /\ Cutting!Trim(s) = From(s, Cutting!First(s))
<1> DEFINE ink == Cutting!Ink(s)
<1>1. Len(s) \in ink /\ ink \subseteq 1 .. Len(s) /\ Len(s) \in Nat \ {0}
  BY LenProperties, EmptySeq DEF Ended, Cutting!Ink
<1>2. \E i \in ink : \A j \in ink : i <= j
  BY <1>1, LeastOfNaturals
<1>3. Cutting!First(s) \in ink /\ \A j \in ink : Cutting!First(s) <= j
  BY <1>2 DEF Cutting!First
<1>4. Cutting!Last(s) = Len(s)
  <2>1. \A j \in ink : j <= Len(s)
    BY <1>1
  <2>2. Cutting!Last(s) \in ink /\ \A j \in ink : j <= Cutting!Last(s)
    BY <1>1, <2>1 DEF Cutting!Last
  <2> QED
    BY <1>1, <2>1, <2>2
<1>5. ASSUME NEW j \in 1 .. Cutting!First(s) - 1 PROVE s[j] \in Cutting!Blank
  <2>1. j \in 1 .. Len(s) /\ ~(Cutting!First(s) <= j)
    BY <1>1, <1>3
  <2>2. j \notin ink
    BY <1>3, <2>1
  <2> QED
    BY <2>1, <2>2 DEF Cutting!Ink
<1> QED
  BY <1>1, <1>3, <1>4, <1>5 DEF Cutting!Trim, Cutting!Ink, From

\* The first ink is there and nowhere else.
LEMMA FirstIsUnique ==
  ASSUME NEW s, Ended(s), NEW i \in 1 .. Len(s), s[i] \notin Cutting!Blank,
         \A j \in 1 .. i - 1 : s[j] \in Cutting!Blank
  PROVE  Cutting!First(s) = i
<1>1. Len(s) \in Nat
  BY LenProperties DEF Ended
<1>2. ~(Cutting!First(s) < i)
  BY <1>1, FirstOfEnded
<1>3. ~(i < Cutting!First(s))
  BY <1>1, FirstOfEnded
<1> QED
  BY <1>1, <1>2, <1>3, FirstOfEnded

LEMMA TrimIsText ==
  ASSUME NEW s, Ended(s)
  PROVE  Ended(Cutting!Trim(s)) /\ Len(Cutting!Trim(s)) <= Len(s)
<1>1. s \in Seq(Char) /\ Len(s) \in Nat
  BY LenProperties DEF Ended
<1> QED
  BY <1>1, FirstOfEnded, FromIsText

LEMMA FromTheStart ==
  ASSUME NEW s \in Seq(Char)
  PROVE  From(s, 1) = s
  BY SubSeqFull DEF From

\* Blanks in front of the first ink make no difference to the trimmed text.
LEMMA TrimOfEnd ==
  ASSUME NEW s, Ended(s), NEW a \in 1 .. Cutting!First(s)
  PROVE  Cutting!Trim(From(s, a)) = From(s, Cutting!First(s))
<1> DEFINE f == Cutting!First(s)
           e == From(s, a)
           b == f - a + 1
<1>1. s \in Seq(Char) /\ Len(s) \in Nat /\ f \in 1 .. Len(s) /\ a \in 1 .. Len(s)
  BY FirstOfEnded, LenProperties DEF Ended
<1>2. Ended(e) /\ Len(e) = Len(s) - a + 1 /\ \A k \in 1 .. Len(e) : e[k] = s[a + k - 1]
  BY <1>1, FromIsText
<1>3. b \in 1 .. Len(e) /\ a + b - 1 = f
  BY <1>1, <1>2
<1>4. e[b] \notin Cutting!Blank
  BY <1>2, <1>3, FirstOfEnded
<1>5. ASSUME NEW j \in 1 .. b - 1 PROVE e[j] \in Cutting!Blank
  <2>1. j \in 1 .. Len(e) /\ a + j - 1 \in 1 .. f - 1
    BY <1>1, <1>3
  <2> QED
    BY <1>2, <2>1, FirstOfEnded
<1>6. Cutting!First(e) = b
  BY <1>2, <1>3, <1>4, <1>5, FirstIsUnique
<1>7. Cutting!Trim(e) = From(e, b)
  BY <1>2, <1>6, FirstOfEnded
<1> QED
  BY <1>1, <1>2, <1>3, <1>7, FromOfFrom

\* slice(-n) is the text from some character on.
SliceFrom(s, n) == IF Len(s) <= n THEN 1 ELSE Len(s) - n + 1
LEMMA SliceIsEnd ==
  ASSUME NEW s, Ended(s), NEW n \in Nat \ {0}
  PROVE  /\ SliceFrom(s, n) \in 1 .. Len(s)
         /\ Cutting!Slice(s, n) = From(s, SliceFrom(s, n))
         /\ Ended(Cutting!Slice(s, n)) /\ Len(Cutting!Slice(s, n)) <= n
<1>1. s \in Seq(Char) /\ Len(s) \in Nat \ {0}
  BY LenProperties, EmptySeq DEF Ended
<1>2. SliceFrom(s, n) \in 1 .. Len(s)
  BY <1>1 DEF SliceFrom
<1>3. Cutting!Slice(s, n) = From(s, SliceFrom(s, n))
  BY <1>1, FromTheStart DEF Cutting!Slice, SliceFrom, From
<1>4. Len(s) - SliceFrom(s, n) + 1 <= n
  BY <1>1 DEF SliceFrom
<1> QED
  BY <1>1, <1>2, <1>3, <1>4, FromIsText

\* The end of a chunk is the end of the text it was trimmed from.
LEMMA SharedIsShared ==
  ASSUME NEW s, Ended(s), NEW n \in Nat \ {0}
  PROVE  Cutting!Trim(Cutting!Slice(Cutting!Trim(s), n))
           = Cutting!Trim(Cutting!Slice(s, n))
<1> DEFINE f == Cutting!First(s)
           t == Cutting!Trim(s)
           i == SliceFrom(s, n)
           j == SliceFrom(t, n)
<1>1. s \in Seq(Char) /\ Len(s) \in Nat \ {0} /\ f \in 1 .. Len(s) /\ t = From(s, f)
  BY FirstOfEnded, LenProperties, EmptySeq DEF Ended
<1>2. Ended(t) /\ Len(t) = Len(s) - f + 1
  BY <1>1, FromIsText
<1>3. Cutting!Slice(s, n) = From(s, i) /\ i \in 1 .. Len(s)
  BY SliceIsEnd
<1>4. Cutting!Slice(t, n) = From(t, j) /\ j \in 1 .. Len(t)
  BY <1>2, SliceIsEnd
<1>5. Cutting!Slice(t, n) = From(s, f + j - 1)
  BY <1>1, <1>2, <1>4, FromOfFrom
<1>6. CASE i <= f
  <2>1. j = 1
    BY <1>1, <1>2, <1>6 DEF SliceFrom
  <2>2. Cutting!Slice(t, n) = From(s, f)
    BY <1>1, <1>5, <2>1
  <2>3. i \in 1 .. f /\ f \in 1 .. f
    BY <1>1, <1>3, <1>6
  <2>4. Cutting!Trim(From(s, f)) = From(s, f) /\ Cutting!Trim(From(s, i)) = From(s, f)
    BY <2>3, TrimOfEnd
  <2> QED
    BY <1>3, <2>2, <2>4
<1>7. CASE ~(i <= f)
  <2>1. f + j - 1 = i
    BY <1>1, <1>2, <1>3, <1>7 DEF SliceFrom
  <2> QED
    BY <1>3, <1>5, <2>1
<1> QED
  BY <1>6, <1>7

\* What is added at the end of a text leaves its trimmed start as it is.
LEMMA TrimOfLonger ==
  ASSUME NEW s, Ended(s), NEW t \in Seq(Char), Ended(s \o t)
  PROVE  /\ Len(Cutting!Trim(s \o t)) = Len(Cutting!Trim(s)) + Len(t)
         /\ StartsWith(Cutting!Trim(s \o t), Cutting!Trim(s))
         /\ \A k \in 1 .. Len(t) :
              Cutting!Trim(s \o t)[Len(Cutting!Trim(s)) + k] = t[k]
<1> DEFINE f == Cutting!First(s)
           w == s \o t
<1>1. /\ s \in Seq(Char) /\ w \in Seq(Char)
      /\ Len(s) \in Nat /\ Len(t) \in Nat /\ f \in 1 .. Len(s)
      /\ Len(w) = Len(s) + Len(t)
  BY FirstOfEnded, LenProperties, ConcatProperties DEF Ended
<1>2. /\ \A i \in 1 .. Len(s) : w[i] = s[i]
      /\ \A i \in 1 .. Len(t) : w[Len(s) + i] = t[i]
  <2>1. \A i \in 1 .. Len(s) + Len(t) : w[i] = IF i <= Len(s) THEN s[i] ELSE t[i - Len(s)]
    BY <1>1, ConcatProperties
  <2>2. ASSUME NEW i \in 1 .. Len(t) PROVE w[Len(s) + i] = t[i]
    <3>1. Len(s) + i \in 1 .. Len(s) + Len(t) /\ ~(Len(s) + i <= Len(s))
          /\ Len(s) + i - Len(s) = i
      BY <1>1
    <3> QED
      BY <2>1, <3>1
  <2>3. ASSUME NEW i \in 1 .. Len(s) PROVE w[i] = s[i]
    <3>1. i \in 1 .. Len(s) + Len(t) /\ i <= Len(s)
      BY <1>1
    <3> QED
      BY <2>1, <3>1
  <2> QED
    BY <2>2, <2>3
<1>3. f \in 1 .. Len(w) /\ w[f] \notin Cutting!Blank
      /\ \A j \in 1 .. f - 1 : w[j] \in Cutting!Blank
  BY <1>1, <1>2, FirstOfEnded
<1>4. Cutting!First(w) = f
  BY <1>3, FirstIsUnique
<1>5. Cutting!Trim(w) = From(w, f) /\ Cutting!Trim(s) = From(s, f)
  BY <1>4, FirstOfEnded
<1> HIDE DEF w, f
<1>6. /\ Len(From(w, f)) = Len(s) + Len(t) - f + 1
      /\ \A k \in 1 .. Len(From(w, f)) : From(w, f)[k] = w[f + k - 1]
      /\ Len(From(s, f)) = Len(s) - f + 1
      /\ \A k \in 1 .. Len(From(s, f)) : From(s, f)[k] = s[f + k - 1]
  <2>1. /\ Len(From(w, f)) = Len(w) - f + 1
        /\ \A k \in 1 .. Len(From(w, f)) : From(w, f)[k] = w[f + k - 1]
    BY <1>1, <1>3, FromIsText
  <2>2. /\ Len(From(s, f)) = Len(s) - f + 1
        /\ \A k \in 1 .. Len(From(s, f)) : From(s, f)[k] = s[f + k - 1]
    BY <1>1, FromIsText
  <2> QED
    BY <1>1, <2>1, <2>2
<1>7. /\ Len(s) \in Nat /\ Len(t) \in Nat /\ f \in 1 .. Len(s)
      /\ Len(From(w, f)) = Len(s) + Len(t) - f + 1
      /\ Len(From(s, f)) = Len(s) - f + 1
  BY <1>1, <1>6
<1>8. ASSUME NEW k \in 1 .. Len(From(s, f)) PROVE From(w, f)[k] = From(s, f)[k]
  <2>1. f + k - 1 \in 1 .. Len(s) /\ k \in 1 .. Len(From(w, f))
    BY <1>7
  <2> QED
    BY <1>2, <1>6, <2>1
<1>9. ASSUME NEW k \in 1 .. Len(t) PROVE From(w, f)[Len(From(s, f)) + k] = t[k]
  <2>1. /\ Len(From(s, f)) + k \in 1 .. Len(From(w, f))
        /\ f + (Len(From(s, f)) + k) - 1 = Len(s) + k
    BY <1>7
  <2> QED
    BY <1>2, <1>6, <2>1
<1>10. Len(From(w, f)) = Len(From(s, f)) + Len(t) /\ Len(From(s, f)) <= Len(From(w, f))
  BY <1>7
<1> QED
  BY <1>5, <1>8, <1>9, <1>10 DEF StartsWith, w

-----------------------------------------------------------------------------
(* Paragraphs *)

LEMMA ParagraphIsText ==
  ASSUME NEW p \in Nat \ {0}, NEW n \in Nat \ {0}
  PROVE  /\ Cutting!Paragraph(p, n) \in Seq(Char) /\ Len(Cutting!Paragraph(p, n)) = n
         /\ Ended(Cutting!Paragraph(p, n))
         /\ Cutting!Trim(Cutting!Paragraph(p, n)) = Cutting!Paragraph(p, n)
<1> DEFINE s == Cutting!Paragraph(p, n)
<1>1. s \in [1 .. n -> Char]
  BY DEF Cutting!Paragraph, Char
<1>2. s \in Seq(Char)
  BY <1>1, SeqDef
<1>3. Len(s) = n
  BY <1>1, <1>2, LenProperties
<1>4. \A k \in 1 .. n : s[k] \notin Cutting!Blank
  BY DEF Cutting!Paragraph, Cutting!Blank, Cutting!Newline, Cutting!Space
<1>5. Ended(s)
  BY <1>2, <1>3, <1>4, EmptySeq DEF Ended
<1> HIDE DEF s
<1>6. Cutting!First(s) = 1
  BY <1>3, <1>4, <1>5, FirstIsUnique
<1> QED
  BY <1>2, <1>3, <1>5, <1>6, FirstOfEnded, FromTheStart DEF s

LEMMA WithinByPlace ==
  ASSUME NEW part \in Seq(Char), NEW whole \in Seq(Char)
  PROVE  Cutting!Within(part, whole) <=>
           \E i \in 0 .. Len(whole) - Len(part) :
             \A k \in 1 .. Len(part) : whole[i + k] = part[k]
<1> SUFFICES ASSUME NEW i \in 0 .. Len(whole) - Len(part)
             PROVE  SubSeq(whole, i + 1, i + Len(part)) = part <=>
                      \A k \in 1 .. Len(part) : whole[i + k] = part[k]
  BY DEF Cutting!Within
<1>1. Len(part) \in Nat /\ Len(whole) \in Nat
  BY LenProperties
<1> DEFINE sub == SubSeq(whole, i + 1, i + Len(part))
<1>2. \A j \in i + 1 .. i + Len(part) : whole[j] \in Char
  BY <1>1, ElementOfSeq
<1>3. /\ sub \in Seq(Char)
      /\ Len(sub) = IF i + 1 <= i + Len(part) THEN i + Len(part) - (i + 1) + 1 ELSE 0
      /\ \A k \in 1 .. i + Len(part) - (i + 1) + 1 : sub[k] = whole[(i + 1) + k - 1]
  BY <1>1, <1>2, SubSeqProperties
<1> HIDE DEF sub
<1>4. Len(sub) = Len(part)
  BY <1>1, <1>3
<1>5. \A k \in 1 .. Len(part) : sub[k] = whole[i + k]
  BY <1>1, <1>3
<1>6. ASSUME \A k \in 1 .. Len(part) : whole[i + k] = part[k] PROVE sub = part
  BY <1>3, <1>4, <1>5, <1>6, SeqEqual
<1> QED
  BY <1>5, <1>6 DEF sub

LEMMA WithinLonger ==
  ASSUME NEW part \in Seq(Char), NEW one \in Seq(Char), NEW other \in Seq(Char),
         Cutting!Within(part, one), StartsWith(other, one)
  PROVE  Cutting!Within(part, other)
<1>1. Len(part) \in Nat /\ Len(one) \in Nat /\ Len(other) \in Nat /\ Len(one) <= Len(other)
  BY LenProperties DEF StartsWith
<1>2. PICK i \in 0 .. Len(one) - Len(part) :
        \A k \in 1 .. Len(part) : one[i + k] = part[k]
  BY WithinByPlace
<1>3. ASSUME NEW k \in 1 .. Len(part) PROVE other[i + k] = part[k]
  <2>1. i + k \in 1 .. Len(one)
    BY <1>1
  <2> QED
    BY <1>2, <2>1 DEF StartsWith
<1>4. i \in 0 .. Len(other) - Len(part)
  BY <1>1
<1> QED
  BY <1>3, <1>4, WithinByPlace

\* A paragraph at the end of a text survives the trim.
LEMMA ParagraphAtEnd ==
  ASSUME NEW s \in Seq(Char), NEW part, Ended(part), Ended(s),
         NEW gap \in Seq(Char)
  PROVE  LET w == s \o (gap \o part) IN
         /\ Ended(w) /\ Len(w) = Len(s) + Len(gap) + Len(part)
         /\ Cutting!Within(part, Cutting!Trim(w))
         /\ StartsWith(Cutting!Trim(w), Cutting!Trim(s))
         /\ Len(Cutting!Trim(s)) < Len(Cutting!Trim(w))
<1> DEFINE t == gap \o part
           w == s \o t
<1>1. /\ part \in Seq(Char) /\ Len(part) \in Nat \ {0} /\ part[Len(part)] \notin Cutting!Blank
      /\ Len(gap) \in Nat /\ Len(s) \in Nat
  BY LenProperties, EmptySeq DEF Ended
<1>2. /\ t \in Seq(Char) /\ Len(t) = Len(gap) + Len(part)
      /\ \A k \in 1 .. Len(gap) + Len(part) :
           t[k] = IF k <= Len(gap) THEN gap[k] ELSE part[k - Len(gap)]
  BY <1>1, ConcatProperties
<1>3. \A k \in 1 .. Len(part) : t[Len(gap) + k] = part[k]
  <2> TAKE k \in 1 .. Len(part)
  <2>1. Len(gap) + k \in 1 .. Len(gap) + Len(part) /\ ~(Len(gap) + k <= Len(gap))
        /\ Len(gap) + k - Len(gap) = k
    BY <1>1
  <2> QED
    BY <1>2, <2>1
<1> HIDE DEF t
<1>4. /\ w \in Seq(Char) /\ Len(w) = Len(s) + Len(t)
      /\ \A k \in 1 .. Len(s) + Len(t) : w[k] = IF k <= Len(s) THEN s[k] ELSE t[k - Len(s)]
  <2>1. t \in Seq(Char)
    BY <1>2
  <2> QED
    BY <2>1, ConcatProperties
<1> HIDE DEF w
<1>5. w[Len(w)] = part[Len(part)]
  <2>1. Len(w) \in 1 .. Len(s) + Len(t) /\ ~(Len(w) <= Len(s)) /\ Len(w) - Len(s) = Len(t)
    BY <1>1, <1>2, <1>4
  <2>2. t[Len(t)] = part[Len(part)]
    BY <1>1, <1>2, <1>3
  <2> QED
    BY <1>4, <2>1, <2>2
<1>6. Ended(w)
  BY <1>1, <1>2, <1>4, <1>5, EmptySeq DEF Ended
<1> DEFINE a == Cutting!Trim(s)
           b == Cutting!Trim(w)
<1>7. /\ Len(b) = Len(a) + Len(t) /\ StartsWith(b, a)
      /\ \A k \in 1 .. Len(t) : b[Len(a) + k] = t[k]
  BY <1>2, <1>6, TrimOfLonger DEF w
<1>8. Ended(a) /\ Ended(b) /\ Len(a) \in Nat /\ b \in Seq(Char)
  BY <1>6, TrimIsText, LenProperties DEF Ended
<1> HIDE DEF a, b
<1>9. Cutting!Within(part, b)
  <2>1. Len(a) + Len(gap) \in 0 .. Len(b) - Len(part)
    BY <1>1, <1>2, <1>7, <1>8
  <2>2. ASSUME NEW k \in 1 .. Len(part) PROVE b[Len(a) + Len(gap) + k] = part[k]
    <3>1. /\ Len(gap) + k \in 1 .. Len(t)
          /\ Len(a) + Len(gap) + k = Len(a) + (Len(gap) + k)
      BY <1>1, <1>2, <1>8
    <3> QED
      BY <1>3, <1>7, <3>1
  <2> QED
    BY <1>1, <1>8, <2>1, <2>2, WithinByPlace
<1>10. Len(a) < Len(b)
  BY <1>1, <1>2, <1>7, <1>8
<1> QED
  BY <1>1, <1>2, <1>4, <1>6, <1>7, <1>9, <1>10 DEF a, b, w, t

-----------------------------------------------------------------------------
(* The invariant *)

Texts == Seq(Seq(Char))
Lengths == Seq(1 .. MaxParagraph)

\* The paragraphs stay where they are, and the next one is in the last chunk.
LEMMA NextIsKept ==
  ASSUME NEW lengths \in Lengths, NEW n \in 1 .. MaxParagraph,
         NEW cut \in Texts, NEW next \in Texts, Kept(lengths, cut),
         Len(cut) <= Len(next), Len(next) # 0,
         \A i \in 1 .. Len(cut) : StartsWith(next[i], cut[i]),
         Cutting!Within(Cutting!Paragraph(Len(lengths) + 1, n), next[Len(next)])
  PROVE  Kept(Append(lengths, n), next)
<1> DEFINE m == Len(lengths)
           longer == Append(lengths, n)
<1>1. /\ m \in Nat /\ Len(cut) \in Nat /\ Len(next) \in Nat
      /\ Len(longer) = m + 1 /\ longer[m + 1] = n
      /\ \A p \in 1 .. m : longer[p] = lengths[p] /\ lengths[p] \in 1 .. MaxParagraph
  <2>1. m \in Nat /\ Len(cut) \in Nat /\ Len(next) \in Nat
    BY LenProperties DEF Lengths, Texts
  <2>2. /\ Len(longer) = m + 1 /\ longer[m + 1] = n
        /\ \A p \in 1 .. m : longer[p] = lengths[p]
    BY AppendProperties DEF Lengths
  <2>3. \A p \in 1 .. m : lengths[p] \in 1 .. MaxParagraph
    BY ElementOfSeq DEF Lengths
  <2> QED
    BY <2>1, <2>2, <2>3
<1>2. PICK home \in [1 .. m -> 1 .. Len(cut)] :
        /\ \A p \in 1 .. m : Cutting!Within(Cutting!Paragraph(p, lengths[p]), cut[home[p]])
        /\ \A p \in 2 .. m : home[p - 1] <= home[p]
  BY DEF Kept
<1> HIDE DEF m, longer
<1> DEFINE there == [p \in 1 .. m + 1 |-> IF p = m + 1 THEN Len(next) ELSE home[p]]
<1>3. there \in [1 .. m + 1 -> 1 .. Len(next)]
  BY <1>1
<1>4. ASSUME NEW p \in 1 .. m
      PROVE  Cutting!Within(Cutting!Paragraph(p, longer[p]), next[there[p]])
  <2>1. /\ there[p] = home[p] /\ home[p] \in 1 .. Len(cut) /\ home[p] \in 1 .. Len(next)
        /\ longer[p] = lengths[p] /\ longer[p] \in Nat \ {0} /\ p \in Nat \ {0}
    BY <1>1, CuttingAssumption
  <2>2. /\ Cutting!Paragraph(p, longer[p]) \in Seq(Char)
        /\ cut[home[p]] \in Seq(Char) /\ next[home[p]] \in Seq(Char)
    BY <2>1, ParagraphIsText, ElementOfSeq DEF Texts
  <2>3. Cutting!Within(Cutting!Paragraph(p, longer[p]), cut[home[p]])
    BY <1>2, <2>1
  <2> QED
    BY <2>1, <2>2, <2>3, WithinLonger
<1>5. Cutting!Within(Cutting!Paragraph(m + 1, longer[m + 1]), next[there[m + 1]])
  BY <1>1 DEF m
<1>6. ASSUME NEW p \in 2 .. m + 1 PROVE there[p - 1] <= there[p]
  <2>1. CASE p = m + 1
    BY <1>1, <1>3, <2>1
  <2>2. CASE p \in 2 .. m
    BY <1>1, <1>2, <2>2
  <2> QED
    BY <1>1, <2>1, <2>2
<1>7. \A p \in 1 .. m + 1 : p = m + 1 \/ p \in 1 .. m
  BY <1>1
<1> HIDE DEF there
<1>8. \A p \in 1 .. m + 1 : Cutting!Within(Cutting!Paragraph(p, longer[p]), next[there[p]])
  BY <1>4, <1>5, <1>7
<1> QED
  BY <1>1, <1>3, <1>6, <1>8 DEF Kept, longer

LEMMA LongerStartsAlike ==
  ASSUME NEW a \in Seq(Char)
  PROVE  StartsWith(a, a)
  BY LenProperties DEF StartsWith

\* A chunk that grows at its end still begins with the end of the one before it.
LEMMA OverlapOfLonger ==
  ASSUME NEW one, Ended(one), NEW a \in Seq(Char), NEW b \in Seq(Char),
         Overlaps(one, a), StartsWith(b, a), Len(a) < Len(b)
  PROVE  Overlaps(one, b)
<1> DEFINE shared == Cutting!Trim(Cutting!Slice(one, Overlap))
<1>1. Len(shared) \in Nat /\ Len(a) \in Nat /\ Len(b) \in Nat
  BY SliceIsEnd, TrimIsText, LenProperties, CuttingAssumption DEF Ended
<1>2. shared # <<>> /\ Len(shared) < Len(a) /\ StartsWith(a, shared)
  BY DEF Overlaps
<1> HIDE DEF shared
<1>3. ASSUME NEW k \in 1 .. Len(shared) PROVE b[k] = shared[k]
  <2>1. k \in 1 .. Len(a)
    BY <1>1, <1>2
  <2> QED
    BY <1>2, <2>1 DEF StartsWith
<1> QED
  BY <1>1, <1>2, <1>3 DEF Overlaps, StartsWith, shared

\* The chunks with a last one that may still grow.
LEMMA LastChunk ==
  ASSUME NEW all \in Texts, NEW a \in Seq(Char), NEW b \in Seq(Char),
         \A i \in 1 .. Len(all) : Ended(all[i]), Chained(Append(all, a)),
         StartsWith(b, a), Len(a) < Len(b)
  PROVE  /\ Append(all, b) \in Texts /\ Len(Append(all, b)) = Len(Append(all, a))
         /\ Len(Append(all, b)) # 0 /\ Append(all, b)[Len(Append(all, b))] = b
         /\ \A i \in 1 .. Len(Append(all, a)) : StartsWith(Append(all, b)[i], Append(all, a)[i])
         /\ Chained(Append(all, b))
<1> DEFINE cut == Append(all, a)
           next == Append(all, b)
           m == Len(all)
<1>1. /\ m \in Nat /\ next \in Texts /\ Len(cut) = m + 1 /\ Len(next) = m + 1
      /\ \A i \in 1 .. m : cut[i] = all[i] /\ next[i] = all[i]
      /\ cut[m + 1] = a /\ next[m + 1] = b
  BY AppendProperties, LenProperties DEF Texts
<1>2. \A i \in 1 .. m : all[i] \in Seq(Char)
  BY ElementOfSeq DEF Texts
<1> HIDE DEF cut, next, m
<1>3. ASSUME NEW i \in 1 .. m + 1 PROVE StartsWith(next[i], cut[i])
  <2>1. CASE i = m + 1
    BY <1>1, <2>1
  <2>2. CASE i \in 1 .. m
    BY <1>1, <1>2, <2>2, LongerStartsAlike
  <2> QED
    BY <1>1, <2>1, <2>2
<1>4. ASSUME NEW i \in 2 .. m + 1 PROVE Overlaps(next[i - 1], next[i])
  <2>1. i - 1 \in 1 .. m /\ i \in 2 .. Len(cut)
    BY <1>1
  <2>2. Overlaps(cut[i - 1], cut[i])
    BY <2>1 DEF Chained, cut
  <2>3. next[i - 1] = cut[i - 1] /\ Ended(next[i - 1])
    BY <1>1, <2>1 DEF m
  <2>4. CASE i = m + 1
    BY <1>1, <2>2, <2>3, <2>4, OverlapOfLonger
  <2>5. CASE i \in 1 .. m
    BY <1>1, <2>2, <2>3, <2>5
  <2> QED
    BY <1>1, <2>4, <2>5
<1>5. Chained(next) /\ Len(next) # 0
  BY <1>1, <1>4 DEF Chained
<1> QED
  BY <1>1, <1>3, <1>5 DEF cut, next, m

\* A chunk that begins with the end of the last one.
LEMMA NextChunk ==
  ASSUME NEW cut \in Texts, NEW b \in Seq(Char), Chained(cut),
         Len(cut) # 0, Overlaps(cut[Len(cut)], b)
  PROVE  /\ Append(cut, b) \in Texts /\ Len(cut) <= Len(Append(cut, b))
         /\ Len(Append(cut, b)) # 0 /\ Append(cut, b)[Len(Append(cut, b))] = b
         /\ \A i \in 1 .. Len(cut) : StartsWith(Append(cut, b)[i], cut[i])
         /\ Chained(Append(cut, b))
<1> DEFINE next == Append(cut, b)
           m == Len(cut)
<1>1. /\ m \in Nat /\ next \in Texts /\ Len(next) = m + 1
      /\ \A i \in 1 .. m : next[i] = cut[i] /\ cut[i] \in Seq(Char)
      /\ next[m + 1] = b
  BY AppendProperties, LenProperties, ElementOfSeq DEF Texts
<1>2. m # 0 /\ Overlaps(cut[m], b)
  OBVIOUS
<1>3. \A i \in 2 .. m : Overlaps(cut[i - 1], cut[i])
  BY DEF Chained
<1> HIDE DEF next, m
<1>4. ASSUME NEW i \in 2 .. m + 1 PROVE Overlaps(next[i - 1], next[i])
  <2>1. CASE i = m + 1
    <3>1. next[i] = b /\ next[i - 1] = cut[m]
      BY <1>1, <1>2, <2>1
    <3> QED
      BY <1>2, <3>1
  <2>2. CASE i \in 2 .. m
    <3>1. next[i] = cut[i] /\ next[i - 1] = cut[i - 1]
      BY <1>1, <2>2
    <3> QED
      BY <1>3, <2>2, <3>1
  <2> QED
    BY <1>1, <2>1, <2>2
<1>5. \A i \in 1 .. m : StartsWith(next[i], cut[i])
  BY <1>1, LongerStartsAlike
<1> QED
  BY <1>1, <1>4, <1>5 DEF Chained, next, m

\* What the invariant says of the chunks, of which the last one is not pushed.
LEMMA CutTyped ==
  ASSUME CutInv
  PROVE  /\ pushed \in Texts /\ current \in Seq(Char)
         /\ Cutting!Trim(current) \in Seq(Char)
         /\ seen \in Lengths /\ Len(seen) \in Nat
         /\ current # <<>> =>
              /\ Ended(current) /\ Ended(Cutting!Trim(current))
              /\ Len(Cutting!Trim(current)) <= Len(current)
<1>1. /\ seen \in Lengths /\ current \in Seq(Char) /\ pushed \in Texts
  BY DEF CutInv, Lengths, Texts
<1>2. CASE current = <<>>
  <2>1. Cutting!Trim(current) = <<>>
    BY <1>2 DEF Cutting!Trim, Cutting!Ink
  <2> QED
    BY <1>1, <1>2, <2>1, LenProperties DEF Lengths
<1>3. CASE current # <<>>
  <2>1. Ended(current)
    BY <1>3 DEF CutInv
  <2> QED
    BY <1>1, <2>1, TrimIsText, LenProperties DEF Lengths, Ended
<1> QED
  BY <1>2, <1>3

LEMMA CutInit == Cutting!Init => CutInv
<1> SUFFICES ASSUME Cutting!Init PROVE CutInv
  OBVIOUS
<1>1. seen = <<>> /\ current = <<>> /\ pushed = <<>> /\ done = FALSE
  BY DEF Cutting!Init
<1>2. Cut = <<<<>>>> /\ Len(Cut) = 1
  BY <1>1 DEF Cut, Cutting!Trim, Cutting!Ink
<1>3. Kept(seen, Cut)
  <2> DEFINE home == [p \in 1 .. 0 |-> 1]
  <2>1. home \in [1 .. 0 -> 1 .. 1] /\ Len(seen) = 0 /\ 1 .. 0 = {} /\ 2 .. 0 = {}
    BY <1>1
  <2> HIDE DEF home
  <2> QED
    BY <1>2, <2>1 DEF Kept
<1>4. Chained(Cut)
  BY <1>2 DEF Chained
<1>5. Cutting!ChunksBounded
  BY <1>1, CuttingAssumption DEF Cutting!ChunksBounded, Cutting!Limit, Cutting!Larger
<1>6. /\ <<>> \in Seq(Char) /\ <<>> \in Seq(Seq(Char)) /\ <<>> \in Seq(1 .. MaxParagraph)
      /\ 1 .. Len(<<>>) = {}
  BY EmptySeq
<1> QED
  BY <1>1, <1>3, <1>4, <1>5, <1>6 DEF CutInv

\* A first paragraph is the chunk.
LEMMA FirstParagraph ==
  ASSUME CutInv, NEW n \in 1 .. MaxParagraph, Cutting!AddParagraph(n), current = <<>>
  PROVE  CutInv'
<1> DEFINE part == Cutting!Paragraph(1, n)
<1>1. /\ seen = <<>> /\ pushed = <<>> /\ done = FALSE /\ Len(seen) = 0
  BY DEF CutInv, Cutting!AddParagraph
<1>2. /\ seen' = <<n>> /\ current' = part /\ pushed' = <<>> /\ done' = FALSE
  BY <1>1 DEF Cutting!AddParagraph, Cutting!Fits
<1>3. /\ part \in Seq(Char) /\ Len(part) = n /\ Ended(part) /\ Cutting!Trim(part) = part
  BY ParagraphIsText
<1> HIDE DEF part
<1>4. part # <<>>
  BY <1>3, EmptySeq DEF Ended
<1>5. Cut' = <<part>> /\ Len(Cut') = 1
  BY <1>2, <1>3 DEF Cut
<1>6. Kept(seen, Cut)'
  <2> DEFINE home == [p \in 1 .. 1 |-> 1]
  <2>1. home \in [1 .. 1 -> 1 .. 1] /\ Len(seen') = 1 /\ seen'[1] = n /\ Cut'[1] = part
    BY <1>2, <1>5
  <2>2. Cutting!Within(part, part)
    BY <1>3, LongerStartsAlike, WithinByPlace, LenProperties
  <2>3. Cutting!Paragraph(1, n) = part /\ home[1] = 1 /\ 1 .. 1 = {1} /\ 2 .. 1 = {}
    BY DEF part
  <2> HIDE DEF home
  <2> QED
    BY <1>5, <2>1, <2>2, <2>3 DEF Kept
<1>7. Chained(Cut)'
  BY <1>5 DEF Chained
<1>8. Cutting!ChunksBounded'
  BY <1>2, <1>3, CuttingAssumption DEF Cutting!ChunksBounded, Cutting!Limit, Cutting!Larger
<1>9. /\ <<>> \in Seq(Seq(Char)) /\ 1 .. Len(<<>>) = {}
      /\ <<n>> \in Seq(1 .. MaxParagraph)
  BY EmptySeq
<1> QED
  BY <1>2, <1>3, <1>4, <1>6, <1>7, <1>8, <1>9 DEF CutInv

\* A paragraph that fits is added to the chunk.
LEMMA FittingParagraph ==
  ASSUME CutInv, NEW n \in 1 .. MaxParagraph, Cutting!AddParagraph(n), current # <<>>,
         Cutting!Fits(Cutting!Paragraph(Len(seen) + 1, n))
  PROVE  CutInv'
<1> DEFINE part == Cutting!Paragraph(Len(seen) + 1, n)
           gap == <<Cutting!Newline, Cutting!Newline>>
           a == Cutting!Trim(current)
           b == Cutting!Trim(current')
<1>1. /\ done = FALSE /\ done' = FALSE /\ pushed' = pushed /\ seen' = Append(seen, n)
      /\ current' = (current \o gap) \o part
      /\ Len(current) + Len(part) + 1 <= ChunkSize
  BY DEF CutInv, Cutting!AddParagraph, Cutting!Fits
<1>2. /\ pushed \in Texts /\ current \in Seq(Char) /\ a \in Seq(Char)
      /\ seen \in Lengths /\ Len(seen) \in Nat /\ Ended(current)
  BY CutTyped
<1>3. /\ part \in Seq(Char) /\ Len(part) = n /\ Ended(part)
      /\ gap \in Seq(Char) /\ Len(gap) = 2
  <2>1. Len(seen) + 1 \in Nat \ {0} /\ n \in Nat \ {0}
    BY <1>2, CuttingAssumption
  <2>2. Cutting!Newline \in Char
    BY DEF Char, Cutting!Newline
  <2>3. gap \in Seq(Char) /\ Len(gap) = 2
    BY <2>2
  <2> QED
    BY <2>1, <2>3, ParagraphIsText
<1> HIDE DEF part, gap
<1>4. current' = current \o (gap \o part)
  <2>1. (current \o gap) \o part = current \o (gap \o part)
    <3>1. current \in Seq(Char) /\ gap \in Seq(Char) /\ part \in Seq(Char)
      BY <1>2, <1>3
    <3> QED
      BY <3>1, ConcatAssociative
  <2> QED
    BY <1>1, <2>1
<1>5. /\ Ended(current') /\ Len(current') = Len(current) + 2 + n
      /\ Cutting!Within(part, b) /\ StartsWith(b, a) /\ Len(a) < Len(b)
  <2>1. /\ Ended(current') /\ Len(current') = Len(current) + Len(gap) + Len(part)
        /\ Cutting!Within(part, b) /\ StartsWith(b, a) /\ Len(a) < Len(b)
    BY <1>2, <1>3, <1>4, ParagraphAtEnd
  <2> QED
    BY <1>3, <2>1
<1>6. b \in Seq(Char) /\ current' # <<>> /\ current' \in Seq(Char)
  BY <1>5, TrimIsText DEF Ended
<1> HIDE DEF a, b
<1>7. Cut = Append(pushed, a) /\ Cut' = Append(pushed, b)
  BY <1>1 DEF Cut, a, b
<1>8. Kept(seen, Cut) /\ Chained(Cut) /\ \A i \in 1 .. Len(pushed) : Ended(pushed[i])
  BY DEF CutInv
<1>9. Append(pushed, a) \in Texts
  BY <1>2, AppendProperties DEF Texts
<1>10. /\ Append(pushed, b) \in Texts /\ Len(Append(pushed, b)) = Len(Append(pushed, a))
       /\ Len(Append(pushed, b)) # 0 /\ Append(pushed, b)[Len(Append(pushed, b))] = b
       /\ \A i \in 1 .. Len(Append(pushed, a)) :
            StartsWith(Append(pushed, b)[i], Append(pushed, a)[i])
       /\ Chained(Append(pushed, b))
  BY <1>2, <1>5, <1>6, <1>7, <1>8, LastChunk
<1>11. Len(Append(pushed, a)) <= Len(Append(pushed, b))
  BY <1>9, <1>10, LenProperties DEF Texts
<1>12. Kept(Append(seen, n), Append(pushed, b))
  <2>1. Cutting!Within(Cutting!Paragraph(Len(seen) + 1, n), b)
    BY <1>5 DEF part
  <2> QED
    BY <1>2, <1>7, <1>8, <1>9, <1>10, <1>11, <2>1, NextIsKept
<1>13. Kept(seen, Cut)' /\ Chained(Cut)'
  <2>1. Kept(seen', Cut') /\ Chained(Cut')
    BY <1>1, <1>7, <1>10, <1>12
  <2> QED
    BY <2>1 DEF Kept, Chained, Overlaps, StartsWith
<1>14. Cutting!ChunksBounded'
  <2>1. Len(current') <= Cutting!Limit
    BY <1>1, <1>2, <1>3, <1>5, LenProperties, CuttingAssumption DEF Cutting!Limit, Cutting!Larger
  <2> QED
    BY <1>1, <2>1 DEF CutInv, Cutting!ChunksBounded, Cutting!Limit, Cutting!Larger
<1>15. seen' \in Lengths
  BY <1>1, <1>2, AppendProperties DEF Lengths
<1> QED
  BY <1>1, <1>2, <1>5, <1>6, <1>8, <1>13, <1>14, <1>15 DEF CutInv, Texts, Lengths

\* A paragraph that does not fit begins the next chunk.
LEMMA OverflowingParagraph ==
  ASSUME CutInv, NEW n \in 1 .. MaxParagraph, Cutting!AddParagraph(n), current # <<>>,
         ~Cutting!Fits(Cutting!Paragraph(Len(seen) + 1, n))
  PROVE  CutInv'
<1> DEFINE part == Cutting!Paragraph(Len(seen) + 1, n)
           gap == <<Cutting!Space>>
           end == Cutting!Slice(current, Overlap)
           a == Cutting!Trim(current)
           b == Cutting!Trim(current')
<1>1. /\ done = FALSE /\ done' = FALSE /\ pushed' = Append(pushed, a)
      /\ seen' = Append(seen, n) /\ current' = (end \o gap) \o part
  BY DEF CutInv, Cutting!AddParagraph, Cutting!Overflow
<1>2. /\ pushed \in Texts /\ current \in Seq(Char) /\ a \in Seq(Char) /\ Ended(a)
      /\ Len(a) <= Len(current)
      /\ seen \in Lengths /\ Len(seen) \in Nat /\ Ended(current)
  BY CutTyped
<1>3. /\ part \in Seq(Char) /\ Len(part) = n /\ Ended(part)
      /\ gap \in Seq(Char) /\ Len(gap) = 1
  <2>1. Len(seen) + 1 \in Nat \ {0} /\ n \in Nat \ {0}
    BY <1>2, CuttingAssumption
  <2>2. Cutting!Space \in Char
    BY DEF Char, Cutting!Space
  <2>3. gap \in Seq(Char) /\ Len(gap) = 1
    BY <2>2
  <2> QED
    BY <2>1, <2>3, ParagraphIsText
<1>4. Ended(end) /\ end \in Seq(Char) /\ Len(end) <= Overlap
  BY <1>2, SliceIsEnd, CuttingAssumption DEF Ended
<1>5. Cutting!Trim(Cutting!Slice(a, Overlap)) = Cutting!Trim(end) /\ Ended(Cutting!Trim(end))
  BY <1>2, <1>4, SharedIsShared, TrimIsText, CuttingAssumption
<1> HIDE DEF part, gap, end
<1>6. current' = end \o (gap \o part)
  BY <1>1, <1>3, <1>4, ConcatAssociative
<1>7. /\ Ended(current') /\ Len(current') = Len(end) + 1 + n
      /\ Cutting!Within(part, b) /\ StartsWith(b, Cutting!Trim(end))
      /\ Len(Cutting!Trim(end)) < Len(b)
  <2>1. /\ Ended(current') /\ Len(current') = Len(end) + Len(gap) + Len(part)
        /\ Cutting!Within(part, b) /\ StartsWith(b, Cutting!Trim(end))
        /\ Len(Cutting!Trim(end)) < Len(b)
    BY <1>3, <1>4, <1>6, ParagraphAtEnd
  <2> QED
    BY <1>3, <2>1
<1>8. b \in Seq(Char) /\ current' # <<>> /\ current' \in Seq(Char)
  BY <1>7, TrimIsText DEF Ended
<1> HIDE DEF a, b
<1>9. Overlaps(a, b)
  BY <1>5, <1>7 DEF Overlaps, Ended
<1>10. Cut = Append(pushed, a) /\ Cut' = Append(Append(pushed, a), b)
  BY <1>1 DEF Cut, a, b
<1>11. Kept(seen, Cut) /\ Chained(Cut) /\ \A i \in 1 .. Len(pushed) : Ended(pushed[i])
  BY DEF CutInv
<1> DEFINE cut == Append(pushed, a)
<1>12. /\ cut \in Texts /\ Len(cut) = Len(pushed) + 1 /\ Len(pushed) \in Nat
       /\ cut[Len(pushed) + 1] = a /\ \A i \in 1 .. Len(pushed) : cut[i] = pushed[i]
  BY <1>2, AppendProperties, LenProperties DEF Texts
<1> HIDE DEF cut
<1>13. Kept(seen, cut) /\ Chained(cut) /\ Len(cut) # 0 /\ Overlaps(cut[Len(cut)], b)
  BY <1>9, <1>10, <1>11, <1>12 DEF cut
<1>14. /\ Append(cut, b) \in Texts /\ Len(cut) <= Len(Append(cut, b))
       /\ Len(Append(cut, b)) # 0 /\ Append(cut, b)[Len(Append(cut, b))] = b
       /\ \A i \in 1 .. Len(cut) : StartsWith(Append(cut, b)[i], cut[i])
       /\ Chained(Append(cut, b))
  BY <1>8, <1>12, <1>13, NextChunk
<1>15. Kept(Append(seen, n), Append(cut, b))
  <2>1. Cutting!Within(Cutting!Paragraph(Len(seen) + 1, n), b)
    BY <1>7 DEF part
  <2> QED
    BY <1>2, <1>12, <1>13, <1>14, <2>1, NextIsKept
<1>16. Kept(seen, Cut)' /\ Chained(Cut)'
  <2>1. Kept(seen', Cut') /\ Chained(Cut')
    BY <1>1, <1>10, <1>14, <1>15 DEF cut
  <2> QED
    BY <2>1 DEF Kept, Chained, Overlaps, StartsWith
<1>17. \A i \in 1 .. Len(cut) : i = Len(pushed) + 1 \/ i \in 1 .. Len(pushed)
  BY <1>12
<1>18. \A i \in 1 .. Len(cut) : Ended(cut[i])
  BY <1>2, <1>11, <1>12, <1>17
<1>19. Cutting!ChunksBounded'
  <2>1. Len(current') <= Cutting!Limit
    BY <1>3, <1>4, <1>7, LenProperties, CuttingAssumption DEF Cutting!Limit, Cutting!Larger
  <2>2. \A i \in 1 .. Len(pushed) : Len(pushed[i]) <= Cutting!Limit
    BY DEF CutInv, Cutting!ChunksBounded
  <2>3. Len(a) <= Cutting!Limit
    BY <1>2, LenProperties, CuttingAssumption
    DEF CutInv, Cutting!ChunksBounded, Cutting!Limit, Cutting!Larger
  <2>4. \A i \in 1 .. Len(cut) : Len(cut[i]) <= Cutting!Limit
    BY <1>12, <1>17, <2>2, <2>3
  <2> QED
    BY <1>1, <2>1, <2>4 DEF Cutting!ChunksBounded, Cutting!Limit, Cutting!Larger, cut
<1>20. seen' \in Lengths
  BY <1>1, <1>2, AppendProperties DEF Lengths
<1> QED
  BY <1>1, <1>7, <1>8, <1>12, <1>16, <1>18, <1>19, <1>20 DEF CutInv, Texts, Lengths, cut

LEMMA LoopEnds ==
  ASSUME CutInv, Cutting!Finish
  PROVE  CutInv'
<1>1. /\ done = FALSE /\ done' = TRUE /\ seen' = seen /\ current' = current
      /\ pushed' = IF Cutting!Trim(current) = <<>> THEN pushed
                   ELSE Append(pushed, Cutting!Trim(current))
  BY DEF CutInv, Cutting!Finish
<1>2. CASE current = <<>>
  <2>1. Cutting!Trim(current) = <<>> /\ seen = <<>> /\ pushed = <<>>
    BY <1>2 DEF CutInv, Cutting!Trim, Cutting!Ink
  <2>2. Cut' = <<>> /\ seen' = <<>> /\ pushed' = <<>> /\ current' = <<>>
    BY <1>1, <1>2, <2>1 DEF Cut
  <2>3. Kept(seen, Cut)'
    <3> DEFINE home == [p \in 1 .. 0 |-> p]
    <3>1. home \in [1 .. 0 -> 1 .. 0] /\ 1 .. 0 = {} /\ 2 .. 0 = {} /\ Len(<<>>) = 0
      OBVIOUS
    <3> HIDE DEF home
    <3> QED
      BY <2>2, <3>1 DEF Kept
  <2>4. Chained(Cut)'
    BY <2>2 DEF Chained
  <2>5. Cutting!ChunksBounded'
    BY <2>2, CuttingAssumption DEF Cutting!ChunksBounded, Cutting!Limit, Cutting!Larger
  <2> QED
    BY <1>1, <1>2, <2>2, <2>3, <2>4, <2>5 DEF CutInv
<1>3. CASE current # <<>>
  <2> DEFINE a == Cutting!Trim(current)
             cut == Append(pushed, a)
  <2>1. /\ pushed \in Texts /\ a \in Seq(Char) /\ Ended(a) /\ Len(a) <= Len(current)
        /\ current \in Seq(Char)
    BY <1>3, CutTyped
  <2>2. a # <<>>
    BY <2>1 DEF Ended
  <2>3. pushed' = cut /\ Cut = cut /\ Cut' = cut
    BY <1>1, <2>2 DEF Cut
  <2> HIDE DEF a, cut
  <2>4. Kept(seen, Cut)' /\ Chained(Cut)'
    <3>1. Kept(seen', Cut') /\ Chained(Cut')
      BY <1>1, <2>3 DEF CutInv
    <3> QED
      BY <3>1 DEF Kept, Chained, Overlaps, StartsWith
  <2>5. /\ cut \in Texts /\ Len(cut) = Len(pushed) + 1 /\ Len(pushed) \in Nat
        /\ cut[Len(pushed) + 1] = a /\ \A i \in 1 .. Len(pushed) : cut[i] = pushed[i]
    BY <2>1, AppendProperties, LenProperties DEF Texts, cut
  <2>6. \A i \in 1 .. Len(cut) : i = Len(pushed) + 1 \/ i \in 1 .. Len(pushed)
    BY <2>5
  <2>7. \A i \in 1 .. Len(cut) : Ended(cut[i])
    BY <2>1, <2>5, <2>6 DEF CutInv
  <2>8. Cutting!ChunksBounded'
    <3>1. \A i \in 1 .. Len(pushed) : Len(pushed[i]) <= Cutting!Limit
      BY DEF CutInv, Cutting!ChunksBounded
    <3>2. Len(a) <= Cutting!Limit /\ Len(current) <= Cutting!Limit
      BY <2>1, LenProperties, CuttingAssumption
      DEF CutInv, Cutting!ChunksBounded, Cutting!Limit, Cutting!Larger
    <3>3. \A i \in 1 .. Len(cut) : Len(cut[i]) <= Cutting!Limit
      BY <2>5, <2>6, <3>1, <3>2
    <3> QED
      BY <1>1, <2>3, <3>2, <3>3 DEF Cutting!ChunksBounded, Cutting!Limit, Cutting!Larger
  <2> QED
    BY <1>1, <1>3, <2>3, <2>4, <2>5, <2>7, <2>8 DEF CutInv, Texts
<1> QED
  BY <1>2, <1>3

LEMMA CutStep == CutInv /\ [Cutting!Next]_text => CutInv'
<1>1. ASSUME CutInv, UNCHANGED text PROVE CutInv'
  <2>1. seen' = seen /\ current' = current /\ pushed' = pushed /\ done' = done
    BY <1>1 DEF text
  <2>2. Cut' = Cut
    BY <2>1 DEF Cut
  <2>3. Kept(seen, Cut)' /\ Chained(Cut)'
    BY <1>1, <2>1, <2>2 DEF CutInv, Kept, Chained, Overlaps, StartsWith
  <2> QED
    BY <1>1, <2>1, <2>3 DEF CutInv, Cutting!ChunksBounded, Ended
<1>2. ASSUME CutInv, Cutting!Next PROVE CutInv'
  BY <1>2, FirstParagraph, FittingParagraph, OverflowingParagraph, LoopEnds DEF Cutting!Next
<1> QED
  BY <1>1, <1>2

\* chunkText(): whatever the paragraphs, the size and the overlap, no paragraph
\* is lost or moved, each chunk begins with the end of the one before it, and
\* none is longer than the size and one, or than an overlap and one paragraph.
THEOREM TextsAreCut == Cutting!Spec => []TextIsCut
<1>1. CutInv => TextIsCut
  <2> SUFFICES ASSUME CutInv PROVE TextIsCut
    OBVIOUS
  <2>1. Cutting!ParagraphsKept
    <3> SUFFICES ASSUME done PROVE Kept(seen, pushed)
      BY DEF Cutting!ParagraphsKept, Kept
    <3> QED
      BY DEF CutInv, Cut
  <2>2. Cutting!ChunksOverlap
    <3> SUFFICES ASSUME NEW i \in 2 .. Len(pushed)
                 PROVE  LET shared == Cutting!Trim(Cutting!Slice(pushed[i - 1], Overlap)) IN
                        /\ shared # <<>> /\ Len(shared) < Len(pushed[i])
                        /\ SubSeq(pushed[i], 1, Len(shared)) = shared
      BY DEF Cutting!ChunksOverlap
    <3> DEFINE shared == Cutting!Trim(Cutting!Slice(pushed[i - 1], Overlap))
    <3>1. /\ pushed \in Texts /\ Len(pushed) \in Nat
          /\ pushed[i] \in Seq(Char) /\ Len(pushed[i]) \in Nat /\ Ended(pushed[i - 1])
      BY CutTyped, LenProperties, ElementOfSeq DEF CutInv, Texts
    <3>2. Overlaps(pushed[i - 1], pushed[i])
      <4>1. CASE done
        BY <4>1 DEF CutInv, Cut, Chained
      <4>2. CASE ~done
        <5>1. /\ Len(Cut) = Len(pushed) + 1 /\ \A j \in 1 .. Len(pushed) : Cut[j] = pushed[j]
          BY <3>1, <4>2, CutTyped, AppendProperties DEF Cut, Texts
        <5>2. i \in 2 .. Len(Cut) /\ i \in 1 .. Len(pushed) /\ i - 1 \in 1 .. Len(pushed)
          BY <3>1, <5>1
        <5> QED
          BY <5>1, <5>2 DEF CutInv, Chained
      <4> QED
        BY <4>1, <4>2
    <3>3. shared \in Seq(Char) /\ Len(shared) \in Nat
      BY <3>1, SliceIsEnd, TrimIsText, LenProperties, CuttingAssumption DEF Ended
    <3>4. shared # <<>> /\ Len(shared) < Len(pushed[i]) /\ StartsWith(pushed[i], shared)
      BY <3>2 DEF Overlaps
    <3> HIDE DEF shared
    <3> DEFINE start == SubSeq(pushed[i], 1, Len(shared))
    <3>5. \A k \in 1 .. Len(shared) : pushed[i][k] \in Char
      BY <3>1, <3>3, <3>4, ElementOfSeq
    <3>6. /\ start \in Seq(Char)
          /\ Len(start) = IF 1 <= Len(shared) THEN Len(shared) - 1 + 1 ELSE 0
          /\ \A k \in 1 .. Len(shared) - 1 + 1 : start[k] = pushed[i][1 + k - 1]
      BY <3>3, <3>5, SubSeqProperties
    <3> HIDE DEF start
    <3>7. Len(start) = Len(shared) /\ \A k \in 1 .. Len(start) : start[k] = shared[k]
      BY <3>3, <3>4, <3>6 DEF StartsWith
    <3>8. start = shared
      BY <3>3, <3>6, <3>7, SeqEqual
    <3> QED
      BY <3>4, <3>8 DEF start, shared
  <2> QED
    BY <2>1, <2>2 DEF CutInv, TextIsCut, Cutting!TextIsCut
<1> QED
  BY <1>1, CutInit, CutStep, PTL DEF Cutting!Spec, Cutting!vars, text
=============================================================================
