------------------------------ MODULE VideoJobs ------------------------------
(***************************************************************************)
(* VideoManager (video/jobs.py) with the client and the two vendors behind *)
(* it: a job row, a background task that pays for a generation and stores  *)
(* its file, deletions, the deletion of the session, a restart.            *)
(***************************************************************************)
EXTENDS Integers, FiniteSets

CONSTANTS
  MaxVideos,     \* jobs of one session
  MaxPolls       \* polls before _DEADLINE_S

VARIABLES
  vjobs,      \* the rows: job -> its row, or NoRow
  vfiles,     \* jobs whose .mp4 is stored
  vtasks,     \* job -> where its task awaits
  remote,     \* job -> the generation the vendor was asked for
  vops,       \* job -> where a request about it awaits
  verase      \* where the deletion of the session awaits, what it has left to do,
              \* and the jobs it could not know of

videoVars == <<vjobs, vfiles, vtasks, remote, vops, verase>>

Videos == 1..MaxVideos

NoRow == [status |-> "none", remote |-> FALSE]

(* audio: what the GM set.  The vendors differ in what silence means. *)
Wishes == [kind : {"openrouter", "xai"}, audio : BOOLEAN]

NoGeneration == [state |-> "none", asked |-> TRUE, polls |-> 0]

VideoInit ==
  /\ vjobs = [j \in Videos |-> NoRow] /\ vfiles = {}
  /\ vtasks = [j \in Videos |-> "none"] /\ remote = [j \in Videos |-> NoGeneration]
  /\ vops = [j \in Videos |-> "none"]
  /\ verase = [at |-> "there", job |-> 0, queue |-> {}, late |-> {}]

-----------------------------------------------------------------------------
(* build_payload: the fields the submit body carries. *)

Payload(wish) ==
  [audio |-> IF wish.audio THEN "yes" ELSE IF wish.kind = "xai" THEN "no" ELSE "silent"]

(* What the vendor makes of a body: sound by default on one of them. *)
Renders(kind, body) ==
  [audio |-> body.audio = "yes" \/ (kind = "xai" /\ body.audio = "silent")]

(* UPDATE of a row that may be gone. *)
Write(j, row) == [vjobs EXCEPT ![j] = IF @ = NoRow THEN @ ELSE row]

At(j, pc) == vtasks[j] = pc

Moves(j, pc) == vtasks' = [vtasks EXCEPT ![j] = pc]

-----------------------------------------------------------------------------
(* enqueue: the session and the provider are read, then the row is created.
   One that reads while the session is being deleted is one that read before
   and is created then. *)

Erasing == verase.at \notin {"there", "gone"}

EnqueueChecks(j) ==
  /\ vops[j] = "none" /\ vjobs[j] = NoRow /\ remote[j] = NoGeneration /\ At(j, "none")
  /\ verase.at = "there"
  /\ vops' = [vops EXCEPT ![j] = "enqueue"]
  /\ UNCHANGED <<vjobs, vfiles, vtasks, remote, verase>>

(* The foreign key refuses a session that has gone meanwhile. *)
EnqueueCreates(j) ==
  /\ vops[j] = "enqueue"
  /\ vops' = [vops EXCEPT ![j] = "none"]
  /\ IF verase.at = "gone"
     THEN UNCHANGED <<vjobs, vtasks>>
     ELSE /\ vjobs' = [vjobs EXCEPT ![j] = [status |-> "queued", remote |-> FALSE]]
          /\ Moves(j, "start")
  /\ UNCHANGED <<vfiles, remote, verase>>

-----------------------------------------------------------------------------
(* The task: _run, _generate, _await_completion. *)

Runs(j) ==
  /\ At(j, "start") /\ Moves(j, "submit")
  /\ vjobs' = Write(j, [status |-> "running", remote |-> FALSE])
  /\ UNCHANGED <<vfiles, remote, vops, verase>>

(* start_generation: paid for from here on; or refused, or without an id. *)
Submits(j) ==
  /\ At(j, "submit")
  /\ \/ \E wish \in Wishes :
          /\ remote' = [remote EXCEPT ![j] =
               [state |-> "running", polls |-> 0,
                asked |-> Renders(wish.kind, Payload(wish)).audio = wish.audio]]
          /\ Moves(j, "record")
     \/ Moves(j, "fail") /\ UNCHANGED remote
  /\ UNCHANGED <<vjobs, vfiles, vops, verase>>

(* Persisted before the first poll. *)
Records(j) ==
  /\ At(j, "record") /\ Moves(j, "poll")
  /\ vjobs' = Write(j, [vjobs[j] EXCEPT !.remote = TRUE])
  /\ UNCHANGED <<vfiles, remote, vops, verase>>

(* state() of the two vendors, one word for success each; and a poll that raises, or outruns the deadline. *)
Polls(j) ==
  /\ At(j, "poll")
  /\ remote' = [remote EXCEPT ![j].polls = @ + 1]
  /\ \/ remote[j].state = "running" /\ remote[j].polls < MaxPolls /\ UNCHANGED vtasks
     \/ remote[j].state = "done" /\ Moves(j, "download")
     \/ remote[j].state # "done" /\ Moves(j, "fail")
  /\ UNCHANGED <<vjobs, vfiles, vops, verase>>

(* While anybody asks; an expired generation is a failed one. *)
VendorEnds(j) ==
  /\ remote[j].state = "running" /\ vtasks[j] \in {"record", "poll"}
  /\ \E end \in {"done", "failed"} : remote' = [remote EXCEPT ![j].state = end]
  /\ UNCHANGED <<vjobs, vfiles, vtasks, vops, verase>>

(* download_video, then the store's write, which awaits nothing. *)
Downloads(j) ==
  /\ At(j, "download")
  /\ \/ vfiles' = vfiles \cup {j} /\ Moves(j, "finish")
     \/ Moves(j, "fail") /\ UNCHANGED vfiles
  /\ UNCHANGED <<vjobs, remote, vops, verase>>

Ends(j) ==
  /\ vtasks[j] \in {"finish", "fail"} /\ Moves(j, "none")
  /\ vjobs' = Write(j, [vjobs[j] EXCEPT !.status = IF At(j, "finish") THEN "done" ELSE "error"])
  /\ UNCHANGED <<vfiles, remote, vops, verase>>

-----------------------------------------------------------------------------
(* delete: stop the task and wait for it, the file, then the row. *)

DeleteRequest(j) ==
  /\ vops[j] = "none" /\ vjobs[j] # NoRow
  /\ vops' = [vops EXCEPT ![j] = "stop"]
  /\ UNCHANGED <<vjobs, vfiles, vtasks, remote, verase>>

StopsNothing(j) == vfiles' = vfiles \ {j} /\ UNCHANGED <<vjobs, vtasks>>

(* The task is gone; a write under way when it was cancelled may still be
   made.  The file goes in the same step. *)
Stops(j) ==
  /\ Moves(j, "none") /\ vfiles' = vfiles \ {j}
  /\ \/ UNCHANGED vjobs
     \/ /\ vtasks[j] \in {"finish", "fail"}
        /\ vjobs' = Write(j, [vjobs[j] EXCEPT !.status = IF At(j, "finish") THEN "done" ELSE "error"])

Stopped(j) ==
  /\ vops[j] = "stop" /\ vops' = [vops EXCEPT ![j] = "row"]
  /\ Stops(j) /\ UNCHANGED <<remote, verase>>

RowDeleted(j) ==
  /\ vops[j] = "row" /\ vops' = [vops EXCEPT ![j] = "none"]
  /\ vjobs' = [vjobs EXCEPT ![j] = NoRow]
  /\ UNCHANGED <<vfiles, vtasks, remote, verase>>

(* _erase_session: the jobs it finds, one by one, then the session's row,
   whose cascade takes rows and no file. *)
EraseStarts ==
  /\ verase.at = "there"
  /\ verase' = [at |-> "next", job |-> 0, queue |-> {j \in Videos : vjobs[j] # NoRow},
                late |-> verase.late \cup {j \in Videos : vops[j] = "enqueue"}]
  /\ UNCHANGED <<vjobs, vfiles, vtasks, remote, vops>>

EraseTakes(j) ==
  /\ verase.at = "next" /\ j \in verase.queue
  /\ verase' = [verase EXCEPT !.at = "stop", !.job = j, !.queue = @ \ {j}]
  /\ UNCHANGED <<vjobs, vfiles, vtasks, remote, vops>>

EraseStops ==
  /\ verase.at = "stop" /\ verase' = [verase EXCEPT !.at = "row"]
  /\ Stops(verase.job) /\ UNCHANGED <<remote, vops>>

EraseDeletesRow ==
  /\ verase.at = "row" /\ verase' = [verase EXCEPT !.at = "next"]
  /\ vjobs' = [vjobs EXCEPT ![verase.job] = NoRow]
  /\ UNCHANGED <<vfiles, vtasks, remote, vops>>

EraseEnds ==
  /\ verase.at = "next" /\ verase.queue = {}
  /\ verase' = [verase EXCEPT !.at = "gone"] /\ vjobs' = [j \in Videos |-> NoRow]
  /\ UNCHANGED <<vfiles, vtasks, remote, vops>>

(* A kill, or aclose, which leaves a cancelled job's row as it is; then
   reconcile at the next start fails what was left under way. *)
Restarts ==
  /\ vtasks' = [j \in Videos |-> "none"] /\ vops' = [j \in Videos |-> "none"]
  /\ verase' = IF Erasing THEN [verase EXCEPT !.at = "there", !.job = 0, !.queue = {}] ELSE verase
  /\ vjobs' = [j \in Videos |-> IF vjobs[j].status \in {"queued", "running"}
                                THEN [vjobs[j] EXCEPT !.status = "error"] ELSE vjobs[j]]
  /\ UNCHANGED <<vfiles, remote>>

VideoNext ==
  \/ \E j \in Videos :
       \/ EnqueueChecks(j) \/ EnqueueCreates(j) \/ Runs(j) \/ Submits(j) \/ Records(j)
       \/ Polls(j) \/ VendorEnds(j) \/ Downloads(j) \/ Ends(j)
       \/ DeleteRequest(j) \/ Stopped(j) \/ RowDeleted(j) \/ EraseTakes(j)
  \/ EraseStarts \/ EraseStops \/ EraseDeletesRow \/ EraseEnds \/ Restarts
=============================================================================
