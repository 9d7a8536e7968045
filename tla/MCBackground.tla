----------------------------- MODULE MCBackground -----------------------------
(***************************************************************************)
(* The work nobody waits for: deliveries of webhooks and the processing of *)
(* documents.  They share no row, so a behaviour picks one of them.        *)
(***************************************************************************)
EXTENDS WebhookDelivery

CONSTANTS Docs, Requests, MaxJobs, MaxRuns, Workers, MaxAttempts, MaxStalled,
          MaxCrashes, MaxDocumentFaults, NoDoc, NoJob, NoRun, NoRequest
VARIABLES files, docs, chunks, jobs, runs, request, known, abandoned,
          documentFaults, crashes, scenario

pipeline == <<files, docs, chunks, jobs, runs, request, known, abandoned,
              documentFaults, crashes>>

OneChunk == [d \in Docs |-> 1]
Documents == INSTANCE DocumentPipeline
  WITH faults <- documentFaults, MaxFaults <- MaxDocumentFaults,
       TextChunks <- OneChunk

\* No webhook yet: an administrator creates it.
Unborn == [status |-> "unborn", isActive |-> FALSE, events |-> {},
           failureCount |-> 0]
NoHooks == [h \in Hooks |-> Unborn]

ScenarioInit == /\ Init /\ Documents!Init
                /\ scenario \in {"webhooks", "documents"}
ScenarioNext ==
  /\ \/ scenario = "webhooks" /\ Next /\ UNCHANGED pipeline
     \/ scenario = "documents" /\ Documents!Next /\ UNCHANGED vars
  /\ UNCHANGED scenario
all == <<vars, pipeline, scenario>>

\* The fairness of the two specifications.
ScenarioSpec ==
  /\ ScenarioInit /\ [][ScenarioNext]_all
  /\ \A d \in Pairs :
       WF_all(scenario = "webhooks" /\ Deliver(d)
                /\ UNCHANGED <<pipeline, scenario>>)
  /\ \A j \in Documents!JobIds :
       WF_all(scenario = "documents" /\ Documents!TakeJob(j)
                /\ UNCHANGED <<vars, scenario>>)
  /\ \A x \in Documents!RunIds :
       WF_all(scenario = "documents" /\ Documents!Process(x)
                /\ UNCHANGED <<vars, scenario>>)

\* RagService and its queue: see DocumentPipeline.
QueuedSettles == Documents!QueuedSettles
=============================================================================
