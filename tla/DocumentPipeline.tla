--------------------------- MODULE DocumentPipeline ---------------------------
(***************************************************************************)
(* RagService: documents are uploaded, queued, cut into chunks with their  *)
(* embeddings, processed again and deleted.  Every database call is a step *)
(* of its own; workers, requests and faults interleave between them.       *)
(*                                                                         *)
(* The queue (BullMQ) is external: it hands a job to a worker, hands it    *)
(* out again while a rejected job has attempts left, and once more when    *)
(* the worker died.  A queue that cannot be reached makes the request      *)
(* process the document in memory, with nobody waiting for the result.     *)
(* A document is its id, its file and its rows; its text is the number of  *)
(* chunks chunkText() cuts it into (module Chunking).                      *)
(***************************************************************************)
EXTENDS Naturals, FiniteSets

CONSTANTS
  Docs,         \* ids of documents and of their files
  Requests,     \* request handlers that may run at the same time
  MaxJobs, MaxRuns,  \* bounds: jobs and runs an instance may begin
  TextChunks,   \* Docs -> the chunks of its text; 0 when it has none
  Workers,      \* jobs processed at the same time
  MaxAttempts,  \* attempts of a job in uploadDocument and reprocessDocument
  MaxStalled,   \* how often the queue hands out a job whose worker died
  MaxFaults, MaxCrashes,  \* bounds on what goes wrong in an instance
  NoDoc, NoJob, NoRun, NoRequest

ASSUME PipelineAssumption ==
  /\ TextChunks \in [Docs -> Nat]
  /\ {Workers, MaxAttempts} \subseteq Nat \ {0}
  /\ {MaxStalled, MaxFaults, MaxCrashes, MaxJobs, MaxRuns} \subseteq Nat

JobIds == 1 .. MaxJobs
RunIds == 1 .. MaxRuns

DocRow == [status : {"PENDING", "PROCESSING", "COMPLETED", "FAILED"},
           totalChunks : Nat,
           by : RunIds \cup {NoRun}]  \* history: the run that completed it
ChunkRow == [chunkIndex : Nat, run : RunIds]  \* history: the run that created it
Job == [doc : Docs, state : {"waiting", "active", "completed", "failed"},
        failures : Nat, stalls : Nat]
Run == [doc : Docs, job : JobIds \cup {NoJob}, index : Nat,
        step : {"start", "load", "chunk", "embed", "fail", "ended"},
        cleared : BOOLEAN]  \* history: a reprocessing removed chunks meanwhile
Request == [op : {"upload", "delete", "reprocess"}, doc : Docs,
            step : {"stored", "created", "found", "unlinked", "cleared",
                    "pending"}]

\* What stands for "no row", "no job", "nobody" is none of them.
ASSUME AbsenceAssumption ==
  /\ NoDoc \notin DocRow /\ NoRequest \notin Request
  /\ NoJob \notin Job /\ NoJob \notin JobIds
  /\ NoRun \notin Run /\ NoRun \notin RunIds

VARIABLES
  files,      \* the documents whose file is in the store
  docs,       \* Docs -> row of documents, or NoDoc
  chunks,     \* Docs -> rows of document_chunks
  jobs,       \* JobIds -> job, or NoJob
  runs,       \* RunIds -> an execution of processDocument(), or NoRun
  request,    \* Requests -> running handler, or NoRequest
  known,      \* documents ever uploaded: a key is 16 random bytes
  abandoned,  \* history: documents somebody gave up on before they settled
  faults, crashes

tables == <<files, docs, chunks>>
vars == <<files, docs, chunks, jobs, runs, request, known, abandoned,
          faults, crashes>>

Init ==
  /\ files = {} /\ docs = [d \in Docs |-> NoDoc]
  /\ chunks = [d \in Docs |-> {}]
  /\ jobs = [j \in JobIds |-> NoJob] /\ runs = [x \in RunIds |-> NoRun]
  /\ request = [r \in Requests |-> NoRequest]
  /\ known = {} /\ abandoned = {} /\ faults = 0 /\ crashes = 0

Exists(d) == docs[d] # NoDoc
At(r, op, step) == request[r] # NoRequest /\ request[r].op = op
                   /\ request[r].step = step
Go(r, step) == request' = [request EXCEPT ![r].step = step]
Leave(r) == request' = [request EXCEPT ![r] = NoRequest]
Fault == faults < MaxFaults /\ faults' = faults + 1

-----------------------------------------------------------------------------
\* Variant: the row is created before the file is written.
UploadRowFirst(r, d) ==
  /\ request[r] = NoRequest /\ d \notin known
  /\ docs' = [docs EXCEPT ![d] = [status |-> "PENDING", totalChunks |-> 0,
                                  by |-> NoRun]]
  /\ known' = known \cup {d}
  /\ request' = [request EXCEPT ![r] =
                   [op |-> "upload", doc |-> d, step |-> "stored"]]
  /\ UNCHANGED <<files, chunks, jobs, runs, abandoned, faults, crashes>>
\* uploadDocument(): the file is validated and stored under a new key, ...
Upload(r, d) ==
  /\ request[r] = NoRequest /\ d \notin known
  /\ files' = files \cup {d} /\ known' = known \cup {d}
  /\ request' = [request EXCEPT ![r] =
                   [op |-> "upload", doc |-> d, step |-> "stored"]]
  /\ UNCHANGED <<docs, chunks, jobs, runs, abandoned, faults, crashes>>
\* ... then its row created, ...
CreateDocument(r) ==
  /\ At(r, "upload", "stored")
  /\ docs' = [docs EXCEPT ![request[r].doc] =
                [status |-> "PENDING", totalChunks |-> 0, by |-> NoRun]]
  /\ Go(r, "created")
  /\ UNCHANGED <<files, chunks, jobs, runs, known, abandoned, faults, crashes>>

\* ... then a job added to the queue.
Queueing(r) == At(r, "upload", "created") \/ At(r, "reprocess", "pending")
Begun(ids, f, none) == Cardinality({i \in ids : f[i] # none})
AddJob(d) ==
  \E j \in JobIds :
    /\ j = Begun(JobIds, jobs, NoJob) + 1
    /\ jobs' = [jobs EXCEPT ![j] = [doc |-> d, state |-> "waiting",
                                    failures |-> 0, stalls |-> 0]]
BeginRun(d, j) ==
  \E x \in RunIds :
    /\ x = Begun(RunIds, runs, NoRun) + 1
    /\ runs' = [runs EXCEPT ![x] = [doc |-> d, job |-> j, index |-> 0,
                                    step |-> "start", cleared |-> FALSE]]
Enqueue(r) ==
  /\ Queueing(r) /\ AddJob(request[r].doc) /\ Leave(r)
  /\ UNCHANGED <<tables, runs, known, abandoned, faults, crashes>>
\* The queue does not answer: the document is processed in memory.  The job
\* may have been added all the same.
EnqueueFails(r) ==
  /\ Queueing(r) /\ Fault
  /\ BeginRun(request[r].doc, NoJob)
  /\ UNCHANGED jobs \/ AddJob(request[r].doc)
  /\ Leave(r) /\ UNCHANGED <<tables, known, abandoned, crashes>>

\* deleteDocument() and reprocessDocument() look the row up first.
Find(r, op, d) ==
  /\ request[r] = NoRequest /\ Exists(d)
  /\ request' = [request EXCEPT ![r] = [op |-> op, doc |-> d, step |-> "found"]]
  /\ UNCHANGED <<tables, jobs, runs, known, abandoned, faults, crashes>>
\* StorageService.delete() tolerates a file that is gone.
UnlinkFile(r) ==
  /\ At(r, "delete", "found") /\ Go(r, "unlinked")
  /\ files' = files \ {request[r].doc}
  /\ UNCHANGED <<docs, chunks, jobs, runs, known, abandoned, faults, crashes>>
\* Variant: no cascade from documents to document_chunks.
DeleteRowOnly(r) ==
  /\ At(r, "delete", "unlinked") /\ Leave(r)
  /\ docs' = [docs EXCEPT ![request[r].doc] = NoDoc]
  /\ UNCHANGED <<files, chunks, jobs, runs, known, abandoned, faults, crashes>>
\* The chunks go with the row; deleting a row that is gone fails.
DeleteRow(r) ==
  /\ At(r, "delete", "unlinked") /\ Leave(r)
  /\ docs' = [docs EXCEPT ![request[r].doc] = NoDoc]
  /\ chunks' = [chunks EXCEPT ![request[r].doc] = {}]
  /\ UNCHANGED <<files, jobs, runs, known, abandoned, faults, crashes>>

ClearChunks(r) ==
  LET d == request[r].doc IN
  /\ At(r, "reprocess", "found") /\ Go(r, "cleared")
  /\ chunks' = [chunks EXCEPT ![d] = {}]
  /\ runs' = [x \in RunIds |-> IF runs[x] # NoRun /\ runs[x].doc = d
                               THEN [runs[x] EXCEPT !.cleared = TRUE]
                               ELSE runs[x]]
  /\ UNCHANGED <<files, docs, jobs, known, abandoned, faults, crashes>>
MarkPending(r) ==
  LET d == request[r].doc IN
  /\ At(r, "reprocess", "cleared")
  /\ IF Exists(d)
     THEN /\ docs' = [docs EXCEPT ![d].status = "PENDING", ![d].totalChunks = 0]
          /\ Go(r, "pending")
     ELSE Leave(r) /\ UNCHANGED docs
  /\ UNCHANGED <<files, chunks, jobs, runs, known, abandoned, faults, crashes>>

\* A database call of a request fails; the request is answered with an error.
RequestFails(r) ==
  /\ request[r] # NoRequest /\ ~Queueing(r)
  /\ Fault /\ Leave(r)
  /\ UNCHANGED <<tables, jobs, runs, known, abandoned, crashes>>

-----------------------------------------------------------------------------
\* A worker takes a job.
Active == {j \in JobIds : jobs[j] # NoJob /\ jobs[j].state = "active"}
TakeJob(j) ==
  /\ jobs[j] # NoJob /\ jobs[j].state = "waiting"
  /\ Cardinality(Active) < Workers
  /\ jobs' = [jobs EXCEPT ![j].state = "active"]
  /\ BeginRun(jobs[j].doc, j)
  /\ UNCHANGED <<tables, request, known, abandoned, faults, crashes>>

RunAt(x, step) == runs[x] # NoRun /\ runs[x].step = step
Step(x, step) == runs' = [runs EXCEPT ![x].step = step]
Unsettled(d) == Exists(d) /\ docs[d].status \in {"PENDING", "PROCESSING"}
Settled(d) == ~Exists(d) \/ docs[d].status \in {"COMPLETED", "FAILED"}

\* processDocument() returned: the queue counts the job as done.
Resolve(x) ==
  /\ Step(x, "ended") /\ UNCHANGED abandoned
  /\ jobs' = IF runs[x].job = NoJob THEN jobs
             ELSE [jobs EXCEPT ![runs[x].job].state = "completed"]
\* Variant: one attempt short.
HasAttemptsAbove(failures) == failures + 1 < MaxAttempts
HasAttempts(failures) == failures < MaxAttempts
\* Variant: the processor logs the error and does not throw it again.
RejectSwallowed(x) == Resolve(x)
\* processDocument() threw: a job is tried again while it has attempts left;
\* in memory the error is logged and forgotten.
Reject(x) ==
  LET j == runs[x].job
      failed == jobs[j].failures + 1
      again == HasAttempts(failed)
  IN
  /\ Step(x, "ended")
  /\ IF j = NoJob THEN abandoned' = abandoned \cup {runs[x].doc} /\ UNCHANGED jobs
     ELSE /\ jobs' = [jobs EXCEPT ![j].failures = failed,
                        ![j].state = IF again THEN "waiting" ELSE "failed"]
          /\ abandoned' = IF again THEN abandoned
                          ELSE abandoned \cup {runs[x].doc}

MarkProcessing(x) ==
  LET d == runs[x].doc IN
  /\ RunAt(x, "start")
  /\ IF Exists(d)
     THEN /\ docs' = [docs EXCEPT ![d].status = "PROCESSING"]
          /\ Step(x, "load") /\ UNCHANGED <<jobs, abandoned>>
     ELSE Reject(x) /\ UNCHANGED docs
  /\ UNCHANGED <<files, chunks, request, known, faults, crashes>>
\* The row, the file and its text are read, the text is cut.
LoadText(x) ==
  LET d == runs[x].doc IN
  /\ RunAt(x, "load")
  /\ Step(x, IF Exists(d) /\ d \in files /\ TextChunks[d] > 0
             THEN "chunk" ELSE "fail")
  /\ UNCHANGED <<tables, jobs, request, known, abandoned, faults, crashes>>
\* Variant: the loop starts from the chunks the document already has.
CreateChunkAfterOthers(x) ==
  LET d == runs[x].doc IN
  /\ RunAt(x, "chunk") /\ runs[x].index < TextChunks[d]
  /\ IF Exists(d)
     THEN /\ chunks' = [chunks EXCEPT ![d] = @ \cup
                {[chunkIndex |-> Cardinality(chunks[d]), run |-> x]}]
          /\ Step(x, "embed")
     ELSE Step(x, "fail") /\ UNCHANGED chunks
  /\ UNCHANGED <<files, docs, jobs, request, known, abandoned, faults, crashes>>
CreateChunk(x) ==
  LET d == runs[x].doc IN
  /\ RunAt(x, "chunk") /\ runs[x].index < TextChunks[d]
  /\ IF Exists(d)
     THEN /\ chunks' = [chunks EXCEPT ![d] = @ \cup
                {[chunkIndex |-> runs[x].index, run |-> x]}]
          /\ Step(x, "embed")
     ELSE Step(x, "fail") /\ UNCHANGED chunks
  /\ UNCHANGED <<files, docs, jobs, request, known, abandoned, faults, crashes>>
\* The chunk is embedded; a failure is logged and the chunk left without.
\* Module RagChat follows the vectors.
EmbedChunk(x) ==
  /\ RunAt(x, "embed")
  /\ runs' = [runs EXCEPT ![x].step = "chunk", ![x].index = @ + 1]
  /\ UNCHANGED <<tables, jobs, request, known, abandoned, faults, crashes>>
Complete(x) ==
  LET d == runs[x].doc IN
  /\ RunAt(x, "chunk") /\ runs[x].index = TextChunks[d]
  /\ IF Exists(d)
     THEN /\ docs' = [docs EXCEPT ![d] = [status |-> "COMPLETED", by |-> x,
                                          totalChunks |-> TextChunks[d]]]
          /\ Resolve(x)
     ELSE Step(x, "fail") /\ UNCHANGED <<docs, jobs, abandoned>>
  /\ UNCHANGED <<files, chunks, request, known, faults, crashes>>
\* The catch block: a recorded failure ends the job as done.
RecordFailure(x) ==
  LET d == runs[x].doc IN
  /\ RunAt(x, "fail")
  /\ IF Exists(d) THEN Resolve(x) /\ docs' = [docs EXCEPT ![d].status = "FAILED"]
     ELSE Reject(x) /\ UNCHANGED docs
  /\ UNCHANGED <<files, chunks, request, known, faults, crashes>>

\* A database call or the extraction fails: inside the try block the failure
\* is recorded, before it and in the catch block it leaves processDocument().
RunFails(x) ==
  /\ Fault
  /\ \/ /\ RunAt(x, "load") \/ RunAt(x, "chunk")
        /\ Step(x, "fail") /\ UNCHANGED <<jobs, abandoned>>
     \/ /\ RunAt(x, "start") \/ RunAt(x, "fail")
        /\ Reject(x)
  /\ UNCHANGED <<tables, request, known, crashes>>

\* The process dies with its requests and runs; the queue notices that its
\* active jobs stalled.
Running(x) == runs[x] # NoRun /\ runs[x].step # "ended"
Crash ==
  /\ crashes < MaxCrashes /\ crashes' = crashes + 1
  /\ request' = [r \in Requests |-> NoRequest]
  /\ runs' = [x \in RunIds |-> IF Running(x) THEN [runs[x] EXCEPT !.step = "ended"]
                               ELSE runs[x]]
  /\ jobs' = [j \in JobIds |-> IF j \notin Active THEN jobs[j] ELSE
       [jobs[j] EXCEPT !.stalls = @ + 1,
          !.state = IF jobs[j].stalls < MaxStalled THEN "waiting" ELSE "failed"]]
  /\ abandoned' = abandoned
       \cup {request[r].doc : r \in {q \in Requests : Queueing(q)}}
       \cup {runs[x].doc : x \in {y \in RunIds : Running(y) /\ runs[y].job = NoJob}}
       \cup {jobs[j].doc : j \in {i \in Active : jobs[i].stalls >= MaxStalled}}
  /\ UNCHANGED <<tables, known, faults>>

Handle(r) ==
  \/ \E d \in Docs : Upload(r, d) \/ Find(r, "delete", d) \/ Find(r, "reprocess", d)
  \/ CreateDocument(r) \/ Enqueue(r) \/ EnqueueFails(r)
  \/ UnlinkFile(r) \/ DeleteRow(r)
  \/ ClearChunks(r) \/ MarkPending(r) \/ RequestFails(r)
Process(x) ==
  \/ MarkProcessing(x) \/ LoadText(x) \/ CreateChunk(x) \/ EmbedChunk(x)
  \/ Complete(x) \/ RecordFailure(x)

Next == \/ \E r \in Requests : Handle(r)
        \/ \E j \in JobIds : TakeJob(j)
        \/ \E x \in RunIds : Process(x) \/ RunFails(x)
        \/ Crash

Spec == Init /\ [][Next]_vars
\* The event loop runs what is ready; a connected worker takes waiting jobs.
FairSpec == /\ Spec
            /\ \A j \in JobIds : WF_vars(TakeJob(j))
            /\ \A x \in RunIds : WF_vars(Process(x))

-----------------------------------------------------------------------------
\* The tables, jobs, runs and requests keep their types, and a chunk row never
\* outlives its document.
TypeOK ==
  /\ files \subseteq known /\ known \subseteq Docs /\ abandoned \subseteq Docs
  /\ docs \in [Docs -> DocRow \cup {NoDoc}]
  /\ \A d \in Docs : /\ chunks[d] \subseteq ChunkRow
                     /\ ~Exists(d) => chunks[d] = {}
  /\ jobs \in [JobIds -> Job \cup {NoJob}]
  /\ runs \in [RunIds -> Run \cup {NoRun}]
  /\ request \in [Requests -> Request \cup {NoRequest}]
  /\ faults \in 0 .. MaxFaults /\ crashes \in 0 .. MaxCrashes

\* searchSimilarChunks() looks at completed documents only.  The run that
\* completed one created each index of the text once, unless a reprocessing
\* removed chunks while it ran, whatever other runs left beside them.
Searchable(d) == Exists(d) /\ docs[d].status = "COMPLETED"
RunIsComplete ==
  \A d \in Docs : Searchable(d) /\ ~runs[docs[d].by].cleared =>
    LET own == {c \in chunks[d] : c.run = docs[d].by} IN
    /\ {c.chunkIndex : c \in own} = 0 .. docs[d].totalChunks - 1
    /\ Cardinality(own) = docs[d].totalChunks

\* A document neither completed nor failed has somebody at work on it, or was
\* given up: its request or in-memory run died, or its job used up its attempts.
StuckIsExplained ==
  \A d \in Docs : Unsettled(d) =>
    \/ d \in abandoned
    \/ \E r \in Requests : Queueing(r) /\ request[r].doc = d
    \/ \E j \in JobIds : /\ jobs[j] # NoJob /\ jobs[j].doc = d
                         /\ jobs[j].state \in {"waiting", "active"}
    \/ \E x \in RunIds : Running(x) /\ runs[x].doc = d

\* Files and rows follow the abstract ledger: the file before the row, both
\* ways, and neither comes back.
StageOf(d) ==
  CASE d \notin known           -> "none"
    [] d \in files /\ ~Exists(d) -> "stored"
    [] d \in files /\ Exists(d)  -> "listed"
    [] d \in known \ files /\ Exists(d) -> "unlinked"
    [] OTHER -> "removed"
Files == INSTANCE FileLedger
           WITH Items <- Docs, stage <- [d \in Docs |-> StageOf(d)]
FilesSpec == Files!Spec

\* With fewer faults than attempts a queued document is completed, recorded as
\* failed, or deleted.
QueuedSettles ==
  \A j \in JobIds, d \in Docs :
    (jobs[j] # NoJob /\ jobs[j].doc = d /\ jobs[j].state \in {"waiting", "active"})
      ~> Settled(d)
=============================================================================
