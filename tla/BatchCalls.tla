------------------------------ MODULE BatchCalls ------------------------------
(***************************************************************************)
(* transcribe_one of the connectors that post an utterance: AssemblyAI's   *)
(* asynchronous job, the OpenAI-compatible endpoints, and the vendors that *)
(* answer one POST.  The router may give a call up at any await.           *)
(***************************************************************************)
EXTENDS Integers, FiniteSets

CONSTANTS MaxPosts,     \* utterances posted by one connector
          JobTimeout    \* _JOB_TIMEOUT_S, in polls of _POLL_INITIAL_S

VARIABLE batch

BatchVendors == {"assemblyai", "openai_compat", "one_post"}

NoJob == [at |-> "none", known |-> FALSE, waited |-> 0, delay |-> 1, clean |-> "no"]

BatchInit ==
  \E v \in BatchVendors, takesVerbose \in BOOLEAN, named \in BOOLEAN :
    batch = [vendor |-> v, pc |-> "idle", posts |-> 0, job |-> NoJob, outcome |-> "none",
             takesVerbose |-> takesVerbose, verbose |-> "unknown", refused |-> 0,
             model |-> IF named THEN "configured" ELSE "unset", listings |-> 0]

IsA(v, pc) == batch.vendor = v /\ batch.pc = pc

(* Whatever ends the call before its answer. *)
Fails(outcome) == [batch EXCEPT !.pc = "idle", !.outcome = outcome]

BatchTranscribe ==
  /\ batch.pc = "idle" /\ batch.posts < MaxPosts /\ batch.job.clean # "deleting"
  /\ batch' = [batch EXCEPT !.posts = @ + 1, !.outcome = "none", !.job = NoJob,
                            !.pc = CASE batch.vendor = "assemblyai" -> "upload"
                                     [] batch.vendor = "openai_compat" -> "model"
                                     [] OTHER -> "post"]

-----------------------------------------------------------------------------
(* AssemblyAI: upload, create, poll; delete unless the transcript came. *)

Upload ==
  /\ IsA("assemblyai", "upload")
  /\ \/ batch' = [batch EXCEPT !.pc = "create"]
     \/ batch' = Fails("raised")

(* The request reaches the vendor; the id reaches the client, or does not. *)
CreateJob ==
  /\ IsA("assemblyai", "create")
  /\ \/ batch' = [batch EXCEPT !.pc = "poll", !.job = [NoJob EXCEPT !.at = "queued", !.known = TRUE]]
     \/ \E how \in {"raised", "cancelled"}, at \in {"none", "queued"} :
          batch' = [Fails(how) EXCEPT !.job.at = at]

AbandonsOnErrorOnly(outcome) ==
  [batch EXCEPT !.pc = "idle", !.outcome = outcome,
                !.job.clean = IF outcome = "raised" THEN "deleting" ELSE @]

(* Its error path: the transcript is not waited for any more. *)
Abandons(outcome) ==
  [batch EXCEPT !.pc = "idle", !.outcome = outcome, !.job.clean = "deleting"]

Least(a, b) == IF a < b THEN a ELSE b

(* _await_completion: the wait grows to a cap and is clipped to the deadline. *)
Poll ==
  /\ IsA("assemblyai", "poll")
  /\ LET job == batch.job
         remaining == JobTimeout - job.waited
     IN \/ /\ job.at = "completed"
           /\ batch' = [batch EXCEPT !.pc = "idle", !.outcome = "answered"]
        \/ job.at = "error" /\ batch' = Abandons("raised")
        \/ job.at = "queued" /\ remaining <= 0 /\ batch' = Abandons("raised")
        \/ /\ job.at = "queued" /\ remaining > 0
           /\ batch' = [batch EXCEPT !.job.waited = @ + Least(job.delay, remaining),
                                     !.job.delay = Least(2 * @, 4)]
        \/ batch' = Abandons("raised")

VendorWorks ==
  /\ batch.job.at = "queued"
  /\ \E end \in {"completed", "error"} : batch' = [batch EXCEPT !.job.at = end]

(* _delete_job: shielded, so it goes on when the call is gone; best effort. *)
DeleteJob ==
  /\ batch.job.clean = "deleting"
  /\ \/ batch' = [batch EXCEPT !.job.clean = "deleted", !.job.at = "none"]
     \/ batch' = [batch EXCEPT !.job.clean = "failed"]

-----------------------------------------------------------------------------
(* OpenAI-compatible: a server model asked for once, verbose_json given up
   once. *)

RequestModel ==
  /\ IsA("openai_compat", "model")
  /\ IF batch.model # "unset" THEN batch' = [batch EXCEPT !.pc = "post"]
     ELSE \E lists \in BOOLEAN :
            batch' = IF lists THEN [batch EXCEPT !.model = "resolved", !.pc = "post", !.listings = @ + 1]
                     ELSE [Fails("raised") EXCEPT !.listings = @ + 1]

(* 400 to a first verbose request: plain json from then on. *)
CompatPost ==
  /\ IsA("openai_compat", "post")
  /\ LET verbose == batch.verbose # "no" IN
     IF verbose /\ ~batch.takesVerbose
     THEN batch' = IF batch.verbose = "unknown"
                   THEN [batch EXCEPT !.verbose = "no", !.refused = @ + 1]
                   ELSE [Fails("raised") EXCEPT !.refused = @ + 1]
     ELSE \E words \in (IF verbose THEN BOOLEAN ELSE {FALSE}) :
            batch' = [batch EXCEPT !.pc = "idle", !.outcome = "answered",
                                   !.verbose = CASE @ # "unknown" -> @
                                                 [] words -> "yes" [] OTHER -> "no"]

(* Deepgram, xAI and Gemini: one POST, whose answer may hold nothing. *)
OnePost ==
  /\ IsA("one_post", "post")
  /\ \E outcome \in {"answered", "no event"} :
       batch' = [batch EXCEPT !.pc = "idle", !.outcome = outcome]

(* A 4xx or 5xx, a refused connection; the router's cancellation. *)
PostFails ==
  /\ batch.pc \in {"model", "post"}
  /\ \E how \in {"raised", "cancelled"} : batch' = Fails(how)

RouterCancels ==
  /\ batch.pc \in {"upload", "poll"}
  /\ batch' = IF batch.pc = "poll" THEN Abandons("cancelled") ELSE Fails("cancelled")

BatchNext ==
  \/ BatchTranscribe \/ Upload \/ CreateJob \/ Poll \/ VendorWorks \/ DeleteJob
  \/ RequestModel \/ CompatPost \/ OnePost \/ PostFails \/ RouterCancels
=============================================================================
