--------------------------- MODULE ReprocessProps ---------------------------
(***************************************************************************)
(* What a re-processing job's row, and the versions, promise.              *)
(***************************************************************************)
EXTENDS Reprocess

-----------------------------------------------------------------------------
(* A row that says queued or running has a run behind it: whatever ended the
   run - its end, a failure, a cancel, a shutdown, a crash - somebody wrote
   down that it is over (_run's finally and shield, reconcile). *)
RunningHasRun ==
  up = "up" => \A j \in Job : db.status[j] \in Cancellable =>
                                task[j].pc \notin {"none", "ended"}

(* No shutdown and no crash so far. *)
Undisturbed == up = "up" /\ crashes = 0

(* The verdict is true.  "done" means that the whole recording was handed over
   and everything it gave is stored; "cancelled" means that the run really
   broke off, and never sits on a version that is whole (_CancelRequest), unless
   a shutdown cut the run after the press: that is recorded as the press. *)
VerdictTrue ==
  \A j \in Job : spec[j].op = "transcribe" /\ ~Running(j) =>
    /\ db.status[j] = "done" =>
         task[j].fed = MaxUtts /\ task[j].pend = <<>> /\ task[j].closed = "clean"
    /\ db.status[j] = "cancelled" /\ Undisturbed => task[j].fed < MaxUtts

Deleting(j) == \E c \in Clients : at[c] \in {"copy", "rows"} /\ about[c].v = j

(* The count of a finished transcription is the number of rows its version
   has, although two tasks, a throttle and a final write carry it.  Across a
   process death a version that is done has all of them, or none when a delete
   broke off; the others keep the last count they wrote when they are cut by a
   shutdown or a crash. *)
CountTrue ==
  \A j \in Job : spec[j].op = "transcribe" /\ ~Running(j) /\ ~Deleting(j) =>
    /\ db.status[j] = "done" =>
         \/ db.count[j] = Cardinality(db.segs[j])
         \/ crashes > 0 /\ db.segs[j] = {}
    /\ db.status[j] \in {"cancelled", "error"} /\ Undisturbed =>
         db.count[j] = Cardinality(db.segs[j])

(* What the row of a finished transcription says is what happened to it. *)
JobTellsTruth == VerdictTrue /\ CountTrue

(* A deleted version stays gone: no run writes segments, or a copy, that no
   row explains (delete_version's busy check). *)
DeletedStaysGone ==
  \A v \in Job : db.status[v] = "deleted" =>
                   db.segs[v] = {} /\ db.copy[v] = NoCopy

Writer(v) == \E j \in Job : /\ spec[j].op = "diarize" /\ spec[j].target = v
                            /\ task[j].pc \in {"copy", "tick", "unwind"}

BrokenOff(v) == \E j \in Job : /\ spec[j].op = "diarize" /\ spec[j].target = v
                               /\ task[j].status = "error" /\ task[j].todo # {}

(* A whole copy or none: since any relabelled row hides its version's own, a
   copy nobody is writing covers the version or is empty - after a cancel at any
   await of the copy, a second cancel, a shutdown (_diarize_session).  A copy
   that a failing insert broke off is left out: the code keeps it. *)
WholeCopyOrNone ==
  up = "up" => \A v \in Version : ~Writer(v) /\ ~BrokenOff(v) =>
    db.copy[v] = NoCopy \/ \A u \in db.segs[v] : db.copy[v][u] > 0

(* Every run that started ends, whatever its router, its store or its
   cancellation do: nobody waits on a bus nobody closes. *)
RunsEnd == \A j \in Job : task[j].pc = "new" ~> task[j].pc = "ended"

(* A shutdown that awaits its cancelled tasks ends. *)
ShutdownCompletes == up = "stopping" ~> up = "down"

(* Both ways a job manager could wait for ever. *)
JobsEnd == RunsEnd /\ ShutdownCompletes
=============================================================================
