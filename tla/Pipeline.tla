------------------------------ MODULE Pipeline ------------------------------
(***************************************************************************)
(* Extraction and indexing together, as one process runs them: an          *)
(* extraction that completes hands its text over to indexing on the same   *)
(* thread (services/ocr.py 713-721, services/ocr_worker.py 58-71), and the *)
(* lifespan starts and stops the two pools in a fixed order                *)
(* (core/lifespan.py 226-332).                                             *)
(*                                                                         *)
(* Indexing is IndexRun itself, and the extraction whose rows it reads is  *)
(* OcrRun, as O.                                                           *)
(***************************************************************************)
EXTENDS IndexRun

CONSTANTS
    Supported,       \* the versions of a type that can be extracted
    Overlapping,     \* the versions whose retries of extraction may overlap
    MaxRetries       \* bound

VARIABLES
    stored, created, pool, queue, requests, workers, retries, ocrCrashes, faults

ocrVars == <<stored, ocr_status, ocr_pages, created, pool, queue, requests,
             workers, retries, ocrCrashes, faults>>
indexVars == <<index, indexed_at, points, process, jobs, callers, indexers,
               reindexes, crashes, indexFaults>>
pipelineVars == <<ocrVars, indexVars>>

O == INSTANCE OcrRun WITH
         Workers <- OcrThreads, crashes <- ocrCrashes,
         status <- ocr_status, pages <- ocr_pages

PipelineInit == O!Init /\ Init

-----------------------------------------------------------------------------
(* Requests are served once both pools have been started. *)

OcrRequest(r, d) ==
    /\ process = "serving"
    /\ O!Upload(r, d) \/ (O!Admitted(d) /\ O!StartRetry(r, d))
    /\ UNCHANGED indexVars

OcrStep ==
    /\ \/ \E r \in Requests : O!RequestStep(r)
       \/ \E r \in Requests : O!RequestFault(r)
       \/ \E w \in OcrThreads :
            O!Take(w) \/ O!Claim(w) \/ O!Extract(w) \/ O!Fail(w) \/ O!Refuse(w)
       \/ \E w \in OcrThreads : O!WorkerFault(w)
    /\ UNCHANGED indexVars

(* Variant: the run completes and hands nothing over.                      *)
CompleteAlone(w) == O!Complete(w) /\ UNCHANGED indexVars

(* _complete: the commit, then schedule_for_ocr_result on the same thread, *)
(* with the run it has just saved.                                         *)
Complete(w) ==
    /\ O!Complete(w)
    /\ OcrCompletes(w, workers[w].doc, workers[w].outcome)

(* The thread is free again when schedule_for_ocr_result has returned. *)
Release(w) ==
    /\ callers[w].pc = "idle"
    /\ O!HandOn(w)
    /\ UNCHANGED indexVars

IndexStep ==
    /\ \/ \E c \in Callers : CallerStep(c)
       \/ \E c \in Callers : CallerFault(c)
       \/ \E r \in Requests, d \in Docs : Admitted(d) /\ StartReindex(r, d)
       \/ \E x \in IndexThreads : ThreadStep(x)
       \/ \E x \in IndexThreads : IndexFault(x)
    /\ UNCHANGED ocrVars

-----------------------------------------------------------------------------
(* lifespan *)

(* start_ocr_workers, its threads running from here on *)
StartOcrPool == (O!Start \/ O!StartFault) /\ Boot

(* Variant: the server starts without the requeue of indexing.             *)
ServeWithoutRequeue == StartWithoutRequeue /\ UNCHANGED ocrVars

StartIndexPool == (StartIndexWorkers \/ StartIndexFault) /\ UNCHANGED ocrVars

(* stop_ocr_workers is called when the server has no request left ... *)
StopOcrPool ==
    /\ process = "serving"
    /\ \A r \in Requests : callers[r].pc = "idle"
    /\ O!Stop
    /\ UNCHANGED indexVars

OcrDrained == O!Drained /\ UNCHANGED indexVars

(* Variant: stop_ocr_workers has returned before the pool has drained.     *)
StopIndexEarly ==
    /\ pool # "on"
    /\ StopIndexWorkers
    /\ UNCHANGED ocrVars

(* ... and stop_index_workers when it has returned. *)
StopIndexPool ==
    /\ pool = "off"
    /\ StopIndexWorkers
    /\ UNCHANGED ocrVars

IndexDrained == Drained /\ UNCHANGED ocrVars

ProcessDies ==
    /\ Crash
    /\ O!Crash \/ (pool = "off" /\ UNCHANGED ocrVars)

-----------------------------------------------------------------------------

PipelineNext ==
    \/ \E r \in Requests, d \in Docs : OcrRequest(r, d)
    \/ OcrStep
    \/ \E w \in OcrThreads : Complete(w)
    \/ \E w \in OcrThreads : Release(w)
    \/ IndexStep
    \/ StartOcrPool
    \/ StartIndexPool
    \/ StopOcrPool
    \/ OcrDrained
    \/ StopIndexPool
    \/ IndexDrained
    \/ ProcessDies

PipelineSpec == PipelineInit /\ [][PipelineNext]_pipelineVars

OcrThread(w) ==
    \/ /\ O!Take(w) \/ O!Claim(w) \/ O!Extract(w) \/ O!Fail(w) \/ O!Refuse(w)
       /\ UNCHANGED indexVars
    \/ Complete(w)
    \/ CallerStep(w) /\ UNCHANGED ocrVars
    \/ Release(w)

(* Threads and accepted requests go on; the process is started and, once   *)
(* it is stopping, stops.  Nobody has to upload, to retry or to re-index.  *)
Fairness ==
    /\ \A w \in OcrThreads : WF_pipelineVars(OcrThread(w))
    /\ \A x \in IndexThreads : WF_pipelineVars(ThreadStep(x) /\ UNCHANGED ocrVars)
    /\ \A r \in Requests :
         /\ WF_pipelineVars(O!RequestStep(r) /\ UNCHANGED indexVars)
         /\ WF_pipelineVars(CallerStep(r) /\ UNCHANGED ocrVars)
    /\ WF_pipelineVars(StartOcrPool) /\ WF_pipelineVars(StartIndexPool)
    /\ WF_pipelineVars(OcrDrained) /\ WF_pipelineVars(StopIndexPool) /\ WF_pipelineVars(IndexDrained)

FairSpec == PipelineSpec /\ Fairness

-----------------------------------------------------------------------------
(* Properties *)

(* Extraction is an environment IndexRun allows for, with its threads      *)
(* handing runs over before and while indexing is started and stopped.     *)
ImplementsIndex == Spec

Unfailing == faults = 0 /\ indexFaults = 0

Undisturbed == crashes = 0 /\ Unfailing

(* A shutdown that was not cut short leaves nothing behind: no run of      *)
(* either kind is left "pending", and none is left at work unless a crash  *)
(* before it did that (stop_ocr_workers and stop_index_workers wait, in    *)
(* that order, as an extraction that is finishing can still hand over).    *)
CleanShutdown ==
    [][process = "draining" /\ process' = "down" /\ crashes' = crashes
         /\ Unfailing /\ RequeueLimit >= Cardinality(Docs) =>
         /\ \A d \in Docs : ocr_status[d] # "pending" /\ index[d] # "pending"
         /\ crashes = 0 => \A d \in Docs :
              /\ d \notin Overlapping => ocr_status[d] # "processing"
              /\ d \notin OverlappingReindexes => index[d] # "indexing"]_pipelineVars

EveryRunFinishes ==
    \A d \in Docs :
        /\ ocr_status[d] \in {"pending", "processing"}
             ~> O!Lifecycle!CanRetry(ocr_status[d]) \/ ~Undisturbed
        /\ index[d] \in {"pending", "indexing"}
             ~> CanReindex(index[d]) \/ ~Undisturbed

ExtractionIsIndexed ==
    \A d \in Docs :
        HasWords(d) ~> CanReindex(index[d]) \/ ~HasWords(d) \/ ~Undisturbed

=============================================================================
