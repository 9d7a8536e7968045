------------------------------ MODULE MCDocuments ------------------------------
(***************************************************************************)
(* Documents for TLC, in three parts: uploaded, processed and deleted      *)
(* (DocumentPipeline), cut into chunks (Chunking), searched and chatted    *)
(* about (RagChat).  A behaviour picks one, in one of its scenarios; the   *)
(* other parts stand still.                                                *)
(***************************************************************************)
EXTENDS DocumentPipeline, TLC

CONSTANTS
  t1, t2,
  Tenants, Papers, Editors, Readers, TenantOf, PaperChunks,  \* RagChat
  TopK, MaxChanges, MaxCalls,
  ChunkSize, Overlap, MaxParagraph, MaxParagraphs           \* Chunking
VARIABLES seen, current, pushed, done,
          key, changes, status, pieces, calls, reprocess, undercut, piled, question,
          verdict, delivered, ledger, closed,
          scenario

\* Handlers are interchangeable: no definition names one.
RequestSymmetry == Permutations(Requests)

\* A text of two chunks.
TwoChunks == [d \in Docs |-> 2]

\* Texts of a few short paragraphs, none of them empty: chunkText() skips those.
text == <<seen, current, pushed, done>>
Cutting == INSTANCE Chunking WITH chunks <- pushed
ASSUME CuttingAssumption ==
  /\ ChunkSize \in Nat /\ MaxParagraph \in Nat /\ MaxParagraphs \in Nat
  /\ Overlap \in Nat \ {0}  \* slice(-0) would be the whole chunk

\* Documents that are searched while the tenants' keys change.
rag == <<key, changes, status, pieces, calls, reprocess, undercut, piled, question,
         verdict, delivered, ledger, closed>>
Rag == INSTANCE RagChat
  WITH Docs <- Papers, TextChunks <- PaperChunks, Requests <- Readers, rows <- pieces,
       MaxRuns <- MaxCalls, runs <- calls, request <- question
ASSUME RagAssumption ==
  /\ TenantOf \in [Papers -> Tenants]
  /\ PaperChunks \in [Papers -> Nat \ {0}]  \* chunkText() of a text that is not blank
  /\ MaxCalls \in Nat /\ NoRun \notin Rag!Run
\* One document of two chunks; the key of its tenant changes.
OneEach == [d \in Papers |-> d]
TwoEach == [d \in Papers |-> 2]
OneChange == [t \in Tenants |-> IF t = t1 THEN 1 ELSE 0]

\* Keys change beside one processing, or processings overlap without a key.
OneCall == \A x \in Rag!RunIds : x > 1 => calls'[x] = NoRun
NoKey == \A t \in Tenants : changes'[t] = 0

ScenarioInit == /\ Init /\ Cutting!Init /\ Rag!Init
                /\ scenario \in {"pipeline", "chunking", "keys", "overlaps"}
ScenarioNext ==
  /\ \/ scenario = "pipeline" /\ Next /\ UNCHANGED <<text, rag>>
     \/ scenario = "chunking" /\ Cutting!Next /\ UNCHANGED <<vars, rag>>
     \/ scenario = "keys" /\ Rag!Next /\ OneCall /\ UNCHANGED <<vars, text>>
     \/ scenario = "overlaps" /\ Rag!Next /\ NoKey /\ UNCHANGED <<vars, text>>
  /\ UNCHANGED scenario
ScenarioSpec == ScenarioInit /\ [][ScenarioNext]_<<vars, text, rag, scenario>>

\* chunkText(): see Chunking.
TextIsCut == Cutting!TextIsCut

\* searchDocuments() and ragChat(): see RagChat.
SourcesAreWhole == Rag!SourcesAreWhole
MixedIsExplained == Rag!MixedIsExplained

\* docs/VIVA_PREPARATION.md:317 "At query time, the user's question goes through
\* the same embedding model": see RagChat.
SameModel == Rag!SameModel
=============================================================================
