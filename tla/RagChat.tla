-------------------------------- MODULE RagChat --------------------------------
(***************************************************************************)
(* Search and chat over documents: the chunks of a document are embedded   *)
(* while it is processed, the question when it is asked, each with the key *)
(* the tenant has at that moment or with the built-in substitute when it   *)
(* has none or the provider declines.  A chat puts what the search found   *)
(* before the gateway, whose promise GovernedAccess stands for it here.    *)
(*                                                                         *)
(* What starts a processing, the queue or the fallback in memory, is in    *)
(* DocumentPipeline; here one may begin at any time, beside others and     *)
(* beside a reprocessing.  Uploads and deletions are only there.           *)
(***************************************************************************)
EXTENDS Naturals, FiniteSets

CONSTANTS
  Tenants, Docs, Editors, Requests,
  TenantOf,    \* Docs -> the tenant
  TextChunks,  \* Docs -> chunks of the text
  TopK,
  MaxChanges,  \* bound: Tenants -> changes of the tenant's key
  MaxRuns,     \* bound: processings
  NoDoc, NoRun, NoRequest

RunIds == 1 .. MaxRuns

VARIABLES
  key,        \* Tenants -> whether an active OpenAI key is stored
  changes,    \* history: Tenants -> how often that changed
  status,     \* Docs -> status of the row of documents
  rows,       \* Docs -> its rows of document_chunks
  runs,       \* RunIds -> call of processDocument(), or NoRun
  reprocess,  \* Editors -> document whose chunks its handler removed, or NoDoc
  undercut,   \* history: Docs -> whether their last removal met a call at work
  piled,      \* history: Docs -> whether two calls made rows since then
  request,    \* Requests -> running handler, or NoRequest
  verdict, delivered, ledger, closed  \* the gateway's, of GovernedAccess

tenantKey == <<key, changes>>
documents == <<status, rows, runs, reprocess, undercut, piled>>
gateway == <<verdict, delivered, ledger, closed>>
vars == <<tenantKey, documents, request, gateway>>

Gateway == INSTANCE GovernedAccess

\* An embedding; its second and third fields are history: the tenant's key at
\* the time, by its changes, and whether something else than the key decided.
Embedding == [model : {"openai", "mock"}, at : Nat, declined : BOOLEAN]
Unembedded == [model |-> "none", at |-> 0, declined |-> FALSE]
\* A key that was read, or that could not be.
KeyRead == [found : BOOLEAN, at : Nat, declined : BOOLEAN]
NotRead == [found |-> FALSE, at |-> 0, declined |-> TRUE]
\* Field run tells which call made the row.
Row == [index : Nat, run : RunIds, embedding : Embedding \cup {Unembedded}]
Run == [doc : Docs, step : {"load", "chunk", "embed", "fail", "ended"},
        index : Nat, key : KeyRead]
Stages == {"asked", "keyed", "embedded", "gateway", "answered", "refused"}

Init ==
  /\ key = [t \in Tenants |-> FALSE] /\ changes = [t \in Tenants |-> 0]
  /\ status = [d \in Docs |-> "PENDING"] /\ rows = [d \in Docs |-> {}]
  /\ runs = [x \in RunIds |-> NoRun] /\ reprocess = [e \in Editors |-> NoDoc]
  /\ undercut = [d \in Docs |-> FALSE] /\ piled = [d \in Docs |-> FALSE]
  /\ request = [r \in Requests |-> NoRequest]
  /\ Gateway!Init

-----------------------------------------------------------------------------
\* An administrator creates, removes or toggles the key.
ChangeKey(t) ==
  /\ changes[t] < MaxChanges[t]
  /\ changes' = [changes EXCEPT ![t] = @ + 1] /\ key' = [key EXCEPT ![t] = ~@]
  /\ UNCHANGED <<documents, request, gateway>>

\* getEmbeddingApiKey(): a failing query or decryption counts as no key.
GetEmbeddingApiKey(t) ==
  {[found |-> key[t], at |-> changes[t], declined |-> FALSE],
   [found |-> FALSE, at |-> changes[t], declined |-> key[t]]}
\* generateEmbedding(): without a key, or when OpenAI answers with an error, the
\* substitute; a call that does not get through throws.
GenerateEmbedding(k) ==
  IF ~k.found THEN {[model |-> "mock", at |-> k.at, declined |-> k.declined]}
  ELSE {[model |-> "openai", at |-> k.at, declined |-> FALSE],
        [model |-> "mock", at |-> k.at, declined |-> TRUE]}

\* processDocument(), from its first write: whatever the status was, whoever is
\* at work and whatever rows there are.
WorkOn(x, d) == runs[x] # NoRun /\ runs[x].doc = d /\ runs[x].step # "ended"
AtWork(d) == \E x \in RunIds : WorkOn(x, d)
BeginRun(x, d) ==
  /\ runs[x] = NoRun /\ \A y \in RunIds : y < x => runs[y] # NoRun
  /\ runs' = [runs EXCEPT ![x] = [doc |-> d, step |-> "load", index |-> 0,
                                  key |-> NotRead]]
  /\ status' = [status EXCEPT ![d] = "PROCESSING"]
  /\ piled' = [piled EXCEPT ![d] = @ \/ AtWork(d) \/ rows[d] # {}]
  /\ UNCHANGED <<tenantKey, rows, reprocess, undercut, request, gateway>>
RunAt(x, step) == runs[x] # NoRun /\ runs[x].step = step
\* The key is read once, when the text is there, and serves every chunk.
ReadKey(x) ==
  /\ RunAt(x, "load")
  /\ \E k \in GetEmbeddingApiKey(TenantOf[runs[x].doc]) :
       runs' = [runs EXCEPT ![x].step = "chunk", ![x].key = k]
  /\ UNCHANGED <<tenantKey, status, rows, reprocess, undercut, piled, request, gateway>>
CreateChunk(x) ==
  LET d == runs[x].doc  i == runs[x].index + 1 IN
  /\ RunAt(x, "chunk") /\ i <= TextChunks[d]
  /\ rows' = [rows EXCEPT ![d] = @ \cup
       {[index |-> i, run |-> x, embedding |-> Unembedded]}]
  /\ runs' = [runs EXCEPT ![x].step = "embed", ![x].index = i]
  /\ UNCHANGED <<tenantKey, status, reprocess, undercut, piled, request, gateway>>
\* A chunk that cannot be embedded is kept without; one that is gone stays gone.
EmbedChunk(x) ==
  LET d == runs[x].doc IN
  /\ RunAt(x, "embed")
  /\ \E e \in GenerateEmbedding(runs[x].key) \cup {Unembedded} :
       rows' = [rows EXCEPT ![d] =
         {IF c.run = x /\ c.index = runs[x].index
          THEN [c EXCEPT !.embedding = e] ELSE c : c \in @}]
  /\ runs' = [runs EXCEPT ![x].step = "chunk"]
  /\ UNCHANGED <<tenantKey, status, reprocess, undercut, piled, request, gateway>>
\* The call ends, with a last write or, when that fails or the process dies,
\* without.
EndRun(x) ==
  runs' = [runs EXCEPT ![x] = [doc |-> runs[x].doc, step |-> "ended",
                               index |-> 0, key |-> NotRead]]
Complete(x) ==
  /\ RunAt(x, "chunk") /\ runs[x].index = TextChunks[runs[x].doc]
  /\ status' = [status EXCEPT ![runs[x].doc] = "COMPLETED"] /\ EndRun(x)
  /\ UNCHANGED <<tenantKey, rows, reprocess, undercut, piled, request, gateway>>
FailRun(x) ==
  /\ RunAt(x, "load") \/ RunAt(x, "chunk")
  /\ runs' = [runs EXCEPT ![x].step = "fail"]
  /\ UNCHANGED <<tenantKey, status, rows, reprocess, undercut, piled, request, gateway>>
RecordFailure(x) ==
  /\ RunAt(x, "fail")
  /\ status' = [status EXCEPT ![runs[x].doc] = "FAILED"] /\ EndRun(x)
  /\ UNCHANGED <<tenantKey, rows, reprocess, undercut, piled, request, gateway>>
AbandonRun(x) ==
  /\ runs[x] # NoRun /\ runs[x].step # "ended" /\ EndRun(x)
  /\ UNCHANGED <<tenantKey, status, rows, reprocess, undercut, piled, request, gateway>>

\* reprocessDocument(): the chunks go, whatever the status and whoever is at
\* work, then the status is written, when that write gets through.
ClearChunks(e, d) ==
  /\ reprocess[e] = NoDoc /\ reprocess' = [reprocess EXCEPT ![e] = d]
  /\ rows' = [rows EXCEPT ![d] = {}]
  /\ undercut' = [undercut EXCEPT ![d] = AtWork(d)]
  /\ piled' = [piled EXCEPT ![d] =
       \E x, y \in RunIds : x # y /\ WorkOn(x, d) /\ WorkOn(y, d)]
  /\ UNCHANGED <<tenantKey, status, runs, request, gateway>>
MarkPending(e) ==
  /\ reprocess[e] # NoDoc /\ reprocess' = [reprocess EXCEPT ![e] = NoDoc]
  /\ status' \in {status, [status EXCEPT ![reprocess[e]] = "PENDING"]}
  /\ UNCHANGED <<tenantKey, rows, runs, undercut, piled, request, gateway>>

-----------------------------------------------------------------------------
\* searchDocuments(), alone or as the first half of ragChat().
Ask(r, op, t, filter) ==
  /\ request[r] = NoRequest
  /\ request' = [request EXCEPT ![r] =
       [op |-> op, tenant |-> t, filter |-> filter, step |-> "asked",
        key |-> NotRead, query |-> Unembedded, sources |-> {}]]
  /\ UNCHANGED <<tenantKey, documents, gateway>>
At(r, step) == request[r] # NoRequest /\ request[r].step = step
QueryKey(r) ==
  /\ At(r, "asked")
  /\ \E k \in GetEmbeddingApiKey(request[r].tenant) :
       request' = [request EXCEPT ![r].step = "keyed", ![r].key = k]
  /\ UNCHANGED <<tenantKey, documents, gateway>>
\* Variant: the key is not passed on.
EmbedQueryKeyless(r) ==
  /\ At(r, "keyed")
  /\ request' = [request EXCEPT ![r].step = "embedded",
                   ![r].query = [model |-> "mock", at |-> request[r].key.at,
                                 declined |-> request[r].key.declined]]
  /\ UNCHANGED <<tenantKey, documents, gateway>>
EmbedQuery(r) ==
  /\ At(r, "keyed")
  /\ \/ \E e \in GenerateEmbedding(request[r].key) :
          request' = [request EXCEPT ![r].step = "embedded", ![r].query = e]
     \/ /\ request[r].key.found
        /\ request' = [request EXCEPT ![r].step = "refused"]
  /\ UNCHANGED <<tenantKey, documents, gateway>>

\* The WHERE of searchSimilarChunks().
\* Variant: of documents still being processed too.
SimilarOfAnyStatus(t, filter) ==
  {c \in UNION {{d} \X rows[d] : d \in filter} :
     TenantOf[c[1]] = t /\ c[2].embedding # Unembedded}
Similar(t, filter) ==
  {c \in UNION {{d} \X rows[d] : d \in filter} :
     /\ TenantOf[c[1]] = t /\ status[c[1]] = "COMPLETED"
     /\ c[2].embedding # Unembedded}
\* The document of a source as the query saw it.
Lacks(d) == \E i \in 1 .. TextChunks[d] : \A c \in rows[d] : c.index # i
Repeats(d) == \E b, c \in rows[d] : b # c /\ b.index = c.index
Source(d, c) ==
  [doc |-> d, embedding |-> c.embedding, lacks |-> Lacks(d), repeats |-> Repeats(d),
   undercut |-> undercut[d], piled |-> piled[d]]
Fewer(a, b) == IF a <= b THEN a ELSE b
\* How close two texts are is abstracted: any chunks may be the nearest.  The
\* query may fail.
SearchSimilarChunks(r) ==
  LET candidates == Similar(request[r].tenant, request[r].filter) IN
  /\ At(r, "embedded")
  /\ \/ \E found \in SUBSET candidates :
          /\ Cardinality(found) = Fewer(TopK, Cardinality(candidates))
          /\ request' = [request EXCEPT
               ![r].step = IF request[r].op = "search" THEN "answered" ELSE "gateway",
               ![r].sources = {Source(c[1], c[2]) : c \in found}]
     \/ request' = [request EXCEPT ![r].step = "refused"]
  /\ UNCHANGED <<tenantKey, documents, gateway>>

\* AiGatewayService.chat(), and the answer when it returns one.
Chat(r) ==
  /\ At(r, "gateway")
  /\ \/ Gateway!Judge(r) \/ Gateway!Deliver(r) \/ Gateway!Close(r)
     \/ Gateway!Abandon /\ r \in closed'
  /\ UNCHANGED <<tenantKey, documents, request>>
Answer(r) ==
  /\ At(r, "gateway") /\ r \in closed
  /\ request' = [request EXCEPT ![r].step =
       IF <<r, "SUCCESS">> \in ledger THEN "answered" ELSE "refused"]
  /\ UNCHANGED <<tenantKey, documents, gateway>>

Search(r) ==
  \/ \E op \in {"search", "chat"}, t \in Tenants,
        filter \in {Docs} \cup {{d} : d \in Docs} : Ask(r, op, t, filter)
  \/ QueryKey(r) \/ EmbedQuery(r) \/ SearchSimilarChunks(r)
  \/ Chat(r) \/ Answer(r)
Process(x) ==
  \/ \E d \in Docs : BeginRun(x, d)
  \/ ReadKey(x) \/ CreateChunk(x) \/ EmbedChunk(x) \/ Complete(x)
  \/ FailRun(x) \/ RecordFailure(x) \/ AbandonRun(x)
Reprocess(e) == (\E d \in Docs : ClearChunks(e, d)) \/ MarkPending(e)

Next ==
  \/ \E t \in Tenants : ChangeKey(t)
  \/ \E x \in RunIds : Process(x)
  \/ \E e \in Editors : Reprocess(e)
  \/ \E r \in Requests : Search(r)

Spec == Init /\ [][Next]_vars

-----------------------------------------------------------------------------
\* searchSimilarChunks(): a source is of the tenant.  A document half-done or
\* done twice can be among the sources, and only this way: it lacks a chunk of
\* its text when reprocessDocument() last removed its chunks from under a
\* processing still at work, and it has a chunk twice when a processing began
\* beside another, or on the rows of an earlier one, and no removal came since.
SourcesAreWhole ==
  \A r \in Requests : request[r] # NoRequest =>
    \A s \in request[r].sources :
      /\ TenantOf[s.doc] = request[r].tenant
      /\ s.lacks => s.undercut
      /\ s.repeats => s.piled

\* A source compared with a question that another model embedded is explained:
\* the tenant's key changed in between, or OpenAI or the database declined one.
MixedIsExplained ==
  \A r \in Requests : request[r] # NoRequest =>
    \A s \in request[r].sources :
      LET e == s.embedding  q == request[r].query IN
      e.model # q.model => e.at # q.at \/ e.declined # q.declined

\* docs/VIVA_PREPARATION.md:317 "At query time, the user's question goes through
\* the same embedding model": the model that embedded the sources.
SameModel ==
  \A r \in Requests : request[r] # NoRequest =>
    \A s \in request[r].sources : s.embedding.model = request[r].query.model
=============================================================================
