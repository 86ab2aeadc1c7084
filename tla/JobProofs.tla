----------------------------- MODULE JobProofs ------------------------------
(***************************************************************************)
(* Proofs about re-processing, for any number of clients, jobs, utterances *)
(* and crashes and any failures.                                           *)
(*                                                                         *)
(* First, that a row in progress has a run behind it.                      *)
(*                                                                         *)
(* Then what a finished re-transcription leaves: a verdict, a count and    *)
(* rows that agree, and nothing under a version that was deleted, when no  *)
(* cancel meets a row before its task.                                     *)
(*                                                                         *)
(* What holds of a job is said of its task, of its row as the connection   *)
(* reads it and of its row as it is committed, since a process that dies   *)
(* goes on from the latter.                                                *)
(*                                                                         *)
(* And about what a diarization leaves: a copy that covers its version, or *)
(* none, as long as it is the only one to write that version.              *)
(***************************************************************************)
EXTENDS ReprocessProps, FiniteSetTheorems, TLAPS

(* What the proof needs of the variables' types: which records and functions
   they are, nothing about what they hold. *)
DbShaped(d) ==
  /\ d = [status |-> d.status, count |-> d.count, segs |-> d.segs, copy |-> d.copy]
  /\ d.status = [j \in Job |-> d.status[j]]

TaskFields == {"pc", "status", "count", "asked", "stopped", "fed", "pend",
               "closed", "dropped", "todo"}
TaskShaped(t) == t = [f \in TaskFields |-> t[f]]

AboutShaped(a) == a = [op |-> a.op, v |-> a.v, run |-> a.run]

Shaped ==
  /\ born \in Nat
  /\ at = [c \in Clients |-> at[c]] /\ about = [c \in Clients |-> about[c]]
  /\ \A c \in Clients : AboutShaped(about[c])
  /\ spec = [j \in Job |-> spec[j]]
  /\ DbShaped(db) /\ DbShaped(disk)
  /\ task = [j \in Job |-> task[j]] /\ \A j \in Job : TaskShaped(task[j])

(* A cancel that waits for the row raised the flag of the run it found. *)
AsksKnown ==
  \A c \in Clients : at[c] = "cancel" =>
    about[c].v \in Job /\ (about[c].run => task[about[c].v].asked)

(* Nobody diarizes, so no request ever cuts a task. *)
OnlyTranscripts ==
  /\ \A j \in Job : spec[j].op = "transcribe"
  /\ \A c \in Clients : /\ at[c] = "probe" => about[c].op = "transcribe"
                        /\ at[c] = "cancel" => about[c].v \in Job

Verdicts == {"done", "error", "cancelled"}

(* Until a shutdown, whoever is about to write its last row has a verdict to
   write, and nobody ends before it. *)
VerdictReady(j) ==
  /\ db.status[j] \in Cancellable => task[j].pc \notin {"none", "ended"}
  /\ task[j].pc \in {"early", "shielded", "final"} => task[j].status \in Verdicts
  /\ task[j].pc = "drain" => task[j].status = "error"
  /\ task[j].pc = "unwind" => task[j].asked

(* While the process is down nothing runs and nobody asks. *)
Quiet == up = "down" => /\ \A j \in Job : task[j].pc \in {"none", "ended"}
                        /\ \A c \in Clients : at[c] = "idle"

ReadyInv == /\ Shaped /\ Quiet
            /\ up = "up" => \A j \in Job : VerdictReady(j)
RunInv   == ReadyInv /\ AsksKnown /\ OnlyTranscripts

-----------------------------------------------------------------------------
(* What a step of run j does to the tasks, and to the database: it moves its
   own task, and writes no row (RowStays) or its own (RowWritten). *)
TaskMoves(j, l, status) ==
  /\ task' = [k \in Job |-> task'[k]] /\ TaskShaped(task'[j])
  /\ \A k \in Job \ {j} : task'[k] = task[k]
  /\ task'[j].pc = l /\ task'[j].status = status

OthersStay(j) == /\ DbShaped(db') /\ DbShaped(disk')
                 /\ \A k \in Job \ {j} : db'.status[k] = db.status[k]
RowStays(j)   == OthersStay(j) /\ db'.status[j] = db.status[j]
RowWritten(j) == /\ OthersStay(j)
                 /\ Exists(j) => db'.status[j] = task[j].status
                 /\ ~Exists(j) => db'.status[j] = db.status[j]

LEMMA Moving ==
  ASSUME Shaped, NEW j \in Job, NEW l, NEW status
  PROVE  /\ Goes(j, l) => TaskMoves(j, l, task[j].status)
         /\ Ends(j, l, status) => TaskMoves(j, l, status)
<1>1. /\ task = [k \in Job |-> task[k]] /\ TaskShaped(task[j])
  BY DEF Shaped
<1>2. ASSUME NEW t, TaskShaped(t), task' = [task EXCEPT ![j] = t]
      PROVE  TaskMoves(j, t.pc, t.status)
  BY <1>1, <1>2 DEF TaskMoves
<1>3. ASSUME Goes(j, l) PROVE TaskMoves(j, l, task[j].status)
  <2> DEFINE t == [task[j] EXCEPT !.pc = l]
  <2>1. TaskShaped(t) /\ t.pc = l /\ t.status = task[j].status
    BY <1>1 DEF TaskShaped, TaskFields
  <2>2. task' = [task EXCEPT ![j] = t]
    BY <1>3 DEF Goes
  <2> QED BY <2>1, <2>2, <1>2
<1>4. ASSUME Ends(j, l, status) PROVE TaskMoves(j, l, status)
  <2> DEFINE t == [task[j] EXCEPT !.pc = l, !.status = status]
  <2>1. TaskShaped(t) /\ t.pc = l /\ t.status = status
    BY <1>1 DEF TaskShaped, TaskFields
  <2>2. task' = [task EXCEPT ![j] = t]
    BY <1>4 DEF Ends
  <2> QED BY <2>1, <2>2, <1>2
<1> QED BY <1>3, <1>4

(* The same for an update that is neither Goes nor Ends. *)
LEMMA MovingTo ==
  ASSUME Shaped, NEW j \in Job, NEW t, TaskShaped(t), task' = [task EXCEPT ![j] = t]
  PROVE  TaskMoves(j, t.pc, t.status)
  BY DEF TaskMoves, Shaped

LEMMA WritingRow ==
  ASSUME Shaped, NEW j \in Job, NEW u
  PROVE  /\ UNCHANGED <<db, disk>> => RowStays(j)
         /\ Commit(Added(j, u)) => RowStays(j)
         /\ Commit(Copied(j, u)) => RowStays(j)
         /\ Commit(Wiped(j)) => RowStays(j)
         /\ Commit(Row(j)) => RowWritten(j)
<1> USE DEF Commit, RowStays, OthersStay
<1>1. DbShaped(db) /\ DbShaped(disk)
  BY DEF Shaped
<1>2. DbShaped(Added(j, u)) /\ Added(j, u).status = db.status
  BY <1>1 DEF Added, DbShaped
<1>3. DbShaped(Copied(j, u)) /\ Copied(j, u).status = db.status
  BY <1>1 DEF Copied, DbShaped
<1>4. DbShaped(Wiped(j)) /\ Wiped(j).status = db.status
  BY <1>1 DEF Wiped, DbShaped
<1>5. /\ DbShaped(Row(j))
      /\ \A k \in Job \ {j} : Row(j).status[k] = db.status[k]
      /\ Exists(j) => Row(j).status[j] = task[j].status
      /\ ~Exists(j) => Row(j) = db
  BY <1>1 DEF Row, Exists, DbShaped
<1>6. ASSUME Commit(Row(j)) PROVE RowWritten(j)
  BY <1>5, <1>6 DEF RowWritten
<1> QED BY <1>1, <1>2, <1>3, <1>4, <1>6

-----------------------------------------------------------------------------
(* A step of run j keeps the invariant when it leaves its own run ready. *)
LEMMA RunStepKeeps ==
  ASSUME ReadyInv, up # "down", NEW j \in Job, NEW l, NEW status, TaskFrame,
         TaskMoves(j, l, status), OthersStay(j),
         up = "up" => VerdictReady(j)'
  PROVE  ReadyInv'
<1>1. Shaped'
  <2>1. \A k \in Job : TaskShaped(task'[k])
    <3> TAKE k \in Job
    <3>1. CASE k = j
      BY <3>1 DEF TaskMoves
    <3>2. CASE k # j
      BY <3>2 DEF TaskMoves, ReadyInv, Shaped
    <3> QED BY <3>1, <3>2
  <2>2. task' = [k \in Job |-> task'[k]] /\ DbShaped(db)' /\ DbShaped(disk)'
    BY DEF TaskMoves, OthersStay, DbShaped
  <2>3. \A k \in Job : TaskShaped(task[k])'
    BY <2>1 DEF TaskShaped
  <2> QED BY <2>2, <2>3 DEF Shaped, ReadyInv, TaskFrame, AboutShaped
<1>3. ASSUME up' = "up", NEW k \in Job PROVE VerdictReady(k)'
  <2>1. CASE k = j
    BY <1>3, <2>1 DEF TaskFrame
  <2>2. CASE k # j
    BY <1>3, <2>2 DEF ReadyInv, VerdictReady, TaskMoves, OthersStay, TaskFrame
  <2> QED BY <2>1, <2>2
<1> QED BY <1>1, <1>3 DEF ReadyInv, Quiet, TaskFrame

LEMMA EndingStep ==
  ASSUME ReadyInv, up # "down", NEW j \in Job, Ending(j)
  PROVE  ReadyInv'
<1>1. Shaped /\ (up = "up" => VerdictReady(j))
  BY DEF ReadyInv
<1>2. CASE RunBegins(j)
  <2> DEFINE l == IF task[j].asked THEN "early" ELSE "start"
             status == IF task[j].asked THEN "cancelled" ELSE "running"
  <2> DEFINE t == [task[j] EXCEPT !.pc = l, !.status = status, !.stopped = task[j].asked]
  <2>a. TaskShaped(t) /\ t.pc = l /\ t.status = status
    BY <1>1 DEF Shaped, TaskShaped, TaskFields
  <2>1. TaskMoves(j, l, status)
    BY <1>1, <1>2, <2>a, MovingTo DEF RunBegins
  <2>2. RowStays(j)
    BY <1>1, <1>2, WritingRow DEF RunBegins
  <2>3. up = "up" => VerdictReady(j)'
    BY <1>1, <1>2, <2>1, <2>2 DEF VerdictReady, TaskMoves, RowStays, Verdicts, RunBegins
  <2> QED BY <2>1, <2>2, <2>3, <1>2, RunStepKeeps DEF RowStays, RunBegins
<1>3. CASE RunNever(j) \/ Shields(j) \/ Finalises(j)
  <2>1. TaskMoves(j, "ended", task[j].status)
    BY <1>1, <1>3, Moving DEF RunNever, Shields, Finalises
  <2>2. RowWritten(j)
    BY <1>1, <1>3, WritingRow DEF RunNever, Shields, Finalises
  <2>3. up = "up" => VerdictReady(j)'
    BY <1>1, <1>3, <2>1, <2>2 DEF VerdictReady, TaskMoves, RowWritten, Exists, Verdicts,
       Cancellable, RunNever, Shields, Finalises
  <2> QED BY <1>3, <2>1, <2>2, <2>3, RunStepKeeps DEF RowWritten, RunNever, Shields, Finalises
<1>4. CASE RunStarts(j)
  <2>1. TaskMoves(j, "prepare", task[j].status)
    BY <1>1, <1>4, Moving DEF RunStarts
  <2>2. RowWritten(j)
    BY <1>1, <1>4, WritingRow DEF RunStarts
  <2>3. VerdictReady(j)'
    BY <2>1 DEF VerdictReady, TaskMoves
  <2> QED BY <1>4, <2>1, <2>2, <2>3, RunStepKeeps DEF RowWritten, RunStarts
<1> QED BY <1>2, <1>3, <1>4 DEF Ending

LEMMA DrivingStep ==
  ASSUME ReadyInv, up # "down", NEW j \in Job, Driving(j)
  PROVE  ReadyInv'
<1>1. Shaped /\ (up = "up" => VerdictReady(j))
  BY DEF ReadyInv
<1>2. CASE Prepared(j)
  <2>1. TaskMoves(j, "drive", task[j].status) /\ RowStays(j) /\ TaskFrame
    BY <1>1, <1>2, Moving, WritingRow DEF Prepared
  <2>2. VerdictReady(j)'
    BY <2>1 DEF VerdictReady, TaskMoves
  <2> QED BY <2>1, <2>2, RunStepKeeps DEF RowStays
<1>3. CASE Stores(j)
  <2> DEFINE t == [task[j] EXCEPT !.pc = "tick", !.pend = Tail(task[j].pend),
                                   !.count = task[j].count + 1]
  <2>1. TaskShaped(t) /\ t.pc = "tick"
    BY <1>1 DEF Shaped, TaskShaped, TaskFields
  <2>2. TaskMoves(j, "tick", t.status) /\ RowStays(j) /\ TaskFrame
    BY <1>1, <1>3, <2>1, MovingTo, WritingRow DEF Stores
  <2>3. VerdictReady(j)'
    BY <2>2 DEF VerdictReady, TaskMoves
  <2> QED BY <2>2, <2>3, RunStepKeeps DEF RowStays
<1>4. CASE Ticks(j)
  <2> DEFINE over == spec[j].op = "diarize" /\ task[j].todo = {}
             t == [task[j] EXCEPT
               !.pc = IF over THEN "final"
                      ELSE IF spec[j].op = "diarize" THEN "copy" ELSE "drive",
               !.status = IF over THEN "done" ELSE task[j].status]
  <2>1. TaskShaped(t)
    BY <1>1 DEF Shaped, TaskShaped, TaskFields
  <2>a. t.pc \in {"final", "copy", "drive"} /\ (t.pc = "final" => t.status = "done")
    BY <1>1 DEF Shaped, TaskShaped, TaskFields
  <2>2. task' = [task EXCEPT ![j] = t]
    BY <1>4 DEF Ticks
  <2> HIDE DEF t
  <2>3. TaskMoves(j, t.pc, t.status) /\ OthersStay(j) /\ TaskFrame
    <3>1. TaskMoves(j, t.pc, t.status)
      BY <1>1, <2>1, <2>2, MovingTo
    <3>2. Commit(Row(j)) \/ UNCHANGED <<db, disk>>
      BY <1>4 DEF Ticks
    <3>3. OthersStay(j)
      BY <1>1, <3>2, WritingRow DEF RowStays, RowWritten
    <3> QED BY <1>4, <3>1, <3>3 DEF Ticks
  <2>4. VerdictReady(j)'
    BY <2>a, <2>3 DEF VerdictReady, TaskMoves, Verdicts
  <2> QED BY <2>3, <2>4, RunStepKeeps
<1>5. CASE DriveEnds(j)
  <2>1. PICK status \in Verdicts : Ends(j, "final", status)
    BY <1>5 DEF DriveEnds, Verdicts
  <2>2. TaskMoves(j, "final", status) /\ RowStays(j) /\ TaskFrame
    BY <1>1, <1>5, <2>1, Moving, WritingRow DEF DriveEnds
  <2>3. VerdictReady(j)'
    BY <2>2 DEF VerdictReady, TaskMoves
  <2> QED BY <2>2, <2>3, RunStepKeeps DEF RowStays
<1>6. CASE Drained(j)
  <2> DEFINE error == [task[j] EXCEPT !.pc = "final", !.status = "error"]
             t == IF task[j].closed = "exhausted" \/ task[j].status = "error"
                  THEN error ELSE Lands(task[j])
  <2>1. TaskShaped(task[j])
    BY <1>1 DEF Shaped
  <2>2. TaskShaped(error) /\ error.pc = "final" /\ error.status = "error"
    BY <2>1 DEF TaskShaped, TaskFields
  <2>3. TaskShaped(Lands(task[j]))
    BY <2>1 DEF Lands, TaskShaped, TaskFields
  <2>4. TaskMoves(j, t.pc, t.status) /\ RowStays(j) /\ TaskFrame
    <3>1. task' = [task EXCEPT ![j] = t] /\ TaskFrame /\ UNCHANGED <<db, disk>>
      BY <1>6 DEF Drained
    <3>2. TaskShaped(t)
      BY <2>2, <2>3
    <3> QED BY <1>1, <3>1, <3>2, MovingTo, WritingRow
  <2>5. up = "up" => t = error
    BY <1>1, <1>6 DEF VerdictReady, Drained
  <2>6. up = "up" => VerdictReady(j)'
    BY <2>2, <2>4, <2>5 DEF VerdictReady, TaskMoves, Verdicts
  <2> QED BY <2>4, <2>6, RunStepKeeps DEF RowStays
<1> QED BY <1>2, <1>3, <1>4, <1>5, <1>6 DEF Driving

LEMMA CopyingStep ==
  ASSUME ReadyInv, up # "down", NEW j \in Job, Copying(j)
  PROVE  ReadyInv'
<1>1. Shaped /\ (up = "up" => VerdictReady(j))
  BY DEF ReadyInv
<1>2. CASE Diarized(j)
  <2>1. RowStays(j) /\ TaskFrame
    BY <1>1, <1>2, WritingRow DEF Diarized
  <2>2. \/ TaskMoves(j, "final", "done")
        \/ TaskMoves(j, "read", task[j].status)
    BY <1>1, <1>2, Moving DEF Diarized
  <2>3. VerdictReady(j)'
    BY <2>2 DEF VerdictReady, TaskMoves, Verdicts
  <2> QED BY <2>1, <2>2, <2>3, RunStepKeeps DEF RowStays
<1>3. CASE ReadsBase(j)
  <2> DEFINE t == [task[j] EXCEPT !.pc = "wipe", !.todo = db.segs[spec[j].target]]
  <2>1. TaskShaped(t) /\ t.pc = "wipe"
    BY <1>1 DEF Shaped, TaskShaped, TaskFields
  <2>2. TaskMoves(j, "wipe", t.status) /\ RowStays(j) /\ TaskFrame
    BY <1>1, <1>3, <2>1, MovingTo, WritingRow DEF ReadsBase
  <2>3. VerdictReady(j)'
    BY <2>2 DEF VerdictReady, TaskMoves
  <2> QED BY <2>2, <2>3, RunStepKeeps DEF RowStays
<1>4. CASE Wipes(j)
  <2>1. RowStays(j) /\ TaskFrame
    BY <1>1, <1>4, WritingRow DEF Wipes
  <2>2. \/ TaskMoves(j, "final", "done")
        \/ TaskMoves(j, "copy", task[j].status)
    BY <1>1, <1>4, Moving DEF Wipes
  <2>3. VerdictReady(j)'
    BY <2>2 DEF VerdictReady, TaskMoves, Verdicts
  <2> QED BY <2>1, <2>2, <2>3, RunStepKeeps DEF RowStays
<1>5. CASE Copies(j)
  <2> DEFINE u == Next1(task[j].todo)
             t == [task[j] EXCEPT !.pc = "tick", !.todo = task[j].todo \ {u},
                                   !.count = task[j].count + 1]
  <2>1. TaskShaped(t) /\ t.pc = "tick"
    BY <1>1 DEF Shaped, TaskShaped, TaskFields
  <2>2. TaskMoves(j, "tick", t.status) /\ RowStays(j) /\ TaskFrame
    BY <1>1, <1>5, <2>1, MovingTo, WritingRow DEF Copies
  <2>3. VerdictReady(j)'
    BY <2>2 DEF VerdictReady, TaskMoves
  <2> QED BY <2>2, <2>3, RunStepKeeps DEF RowStays
<1>6. CASE Unwinds(j)
  <2> DEFINE t == Lands(task[j])
  <2>1. TaskShaped(t)
    BY <1>1 DEF Lands, Shaped, TaskShaped, TaskFields
  <2>2. TaskMoves(j, t.pc, t.status) /\ RowStays(j) /\ TaskFrame
    BY <1>1, <1>6, <2>1, MovingTo, WritingRow DEF Unwinds
  <2>3. ASSUME up = "up" PROVE VerdictReady(j)'
    <3>1. task[j].asked
      BY <1>1, <1>6, <2>3 DEF VerdictReady, Unwinds
    <3>2. t.pc = "shielded" /\ t.status = "cancelled"
      BY <1>1, <3>1 DEF Lands, Shaped, TaskShaped, TaskFields
    <3> QED BY <2>2, <3>2 DEF VerdictReady, TaskMoves, Verdicts
  <2> QED BY <2>2, <2>3, RunStepKeeps DEF RowStays
<1> QED BY <1>2, <1>3, <1>4, <1>5, <1>6 DEF Copying

LEMMA RouterStep ==
  ASSUME ReadyInv, up # "down", NEW j \in Job, Router(j) \/ Breaks(j)
  PROVE  ReadyInv'
<1>1. Shaped /\ (up = "up" => VerdictReady(j)) /\ TaskShaped(task[j])
  BY DEF ReadyInv, Shaped
<1>2. ASSUME NEW t, TaskShaped(t), t.pc = task[j].pc, t.status = task[j].status,
             task[j].pc # "unwind",
             task' = [task EXCEPT ![j] = t], TaskFrame, UNCHANGED <<db, disk>>
      PROVE  ReadyInv'
  <2>1. TaskMoves(j, task[j].pc, task[j].status) /\ RowStays(j)
    BY <1>1, <1>2, MovingTo, WritingRow
  <2>2. up = "up" => VerdictReady(j)'
    BY <1>1, <1>2, <2>1 DEF VerdictReady, TaskMoves, RowStays
  <2> QED BY <1>2, <2>1, <2>2, RunStepKeeps DEF RowStays
<1>3. ASSUME NEW l \in {"final", "drain"}, Ends(j, l, "error"), TaskFrame,
             UNCHANGED <<db, disk>>
      PROVE  ReadyInv'
  <2>1. TaskMoves(j, l, "error") /\ RowStays(j)
    BY <1>1, <1>3, Moving, WritingRow
  <2>2. VerdictReady(j)'
    BY <2>1 DEF VerdictReady, TaskMoves, Verdicts
  <2> QED BY <1>3, <2>1, <2>2, RunStepKeeps DEF RowStays
<1>4. CASE Hears(j)
  <2> DEFINE heard == [task[j] EXCEPT !.fed = task[j].fed + 1,
                                      !.pend = Append(task[j].pend, task[j].fed + 1)]
             silent == [task[j] EXCEPT !.fed = task[j].fed + 1]
             dropped == [task[j] EXCEPT !.fed = task[j].fed + 1, !.dropped = TRUE]
  <2>1. \A t \in {heard, silent, dropped} :
          TaskShaped(t) /\ t.pc = task[j].pc /\ t.status = task[j].status
    BY <1>1 DEF TaskShaped, TaskFields
  <2>2. \E t \in {heard, silent, dropped} : task' = [task EXCEPT ![j] = t]
    BY <1>4 DEF Hears
  <2> QED BY <1>2, <1>4, <2>1, <2>2 DEF Hears, Feeding
<1>5. CASE FeedEnds(j)
  <2> DEFINE t == [task[j] EXCEPT !.closed = "clean",
                                  !.stopped = task[j].asked /\ task[j].fed < MaxUtts]
  <2>1. TaskShaped(t) /\ t.pc = task[j].pc /\ t.status = task[j].status
    BY <1>1 DEF TaskShaped, TaskFields
  <2>2. task' = [task EXCEPT ![j] = t]
    BY <1>5 DEF FeedEnds
  <2> QED BY <1>2, <1>5, <2>1, <2>2 DEF FeedEnds, Feeding
<1>6. CASE FeedExhausted(j)
  <2> DEFINE t == [task[j] EXCEPT !.fed = task[j].fed + 1, !.closed = "exhausted"]
  <2>1. TaskShaped(t) /\ t.pc = task[j].pc /\ t.status = task[j].status
    BY <1>1 DEF TaskShaped, TaskFields
  <2>2. task' = [task EXCEPT ![j] = t]
    BY <1>6 DEF FeedExhausted
  <2> QED BY <1>2, <1>6, <2>1, <2>2 DEF FeedExhausted, Feeding
<1>7. CASE PrepareFails(j) \/ StoreFails(j) \/ CopyFails(j)
  BY <1>3, <1>7 DEF PrepareFails, StoreFails, CopyFails
<1> QED BY <1>4, <1>5, <1>6, <1>7 DEF Router, Breaks

(* What a cut leaves, whoever asked for it. *)
LEMMA CutShape ==
  ASSUME Shaped, NEW j \in Job, Cut(j)
  PROVE  /\ DbShaped(db') /\ DbShaped(disk')
         /\ task' = [k \in Job |-> task'[k]] /\ \A k \in Job : TaskShaped(task'[k])
         /\ \A k \in Job \ {j} : task'[k] = task[k] /\ db'.status[k] = db.status[k]
<1>1. Shaped /\ TaskShaped(task[j])
  BY DEF Shaped
<1>2. ASSUME NEW t, TaskShaped(t), task' = [task EXCEPT ![j] = t]
      PROVE  /\ task' = [k \in Job |-> task'[k]] /\ \A k \in Job : TaskShaped(task'[k])
             /\ \A k \in Job \ {j} : task'[k] = task[k]
  BY <1>1, <1>2 DEF Shaped
<1>3. TaskShaped(Lands(task[j]))
  BY <1>1 DEF Lands, TaskShaped, TaskFields
<1>4. \A u : /\ DbShaped(db) /\ DbShaped(disk) /\ DbShaped(Row(j))
             /\ DbShaped(Added(j, u)) /\ DbShaped(Copied(j, u)) /\ DbShaped(Wiped(j))
             /\ Added(j, u).status = db.status /\ Copied(j, u).status = db.status
             /\ Wiped(j).status = db.status
             /\ \A k \in Job \ {j} : Row(j).status[k] = db.status[k]
  <2>1. DbShaped(db) /\ DbShaped(disk)
    BY <1>1 DEF Shaped
  <2>2. DbShaped(Row(j)) /\ \A k \in Job \ {j} : Row(j).status[k] = db.status[k]
    BY <2>1 DEF Row, DbShaped
  <2>3. \A u : DbShaped(Added(j, u)) /\ Added(j, u).status = db.status
    BY <2>1 DEF Added, DbShaped
  <2>4. \A u : DbShaped(Copied(j, u)) /\ Copied(j, u).status = db.status
    BY <2>1 DEF Copied, DbShaped
  <2>5. DbShaped(Wiped(j)) /\ Wiped(j).status = db.status
    BY <2>1 DEF Wiped, DbShaped
  <2> QED BY <2>1, <2>2, <2>3, <2>4, <2>5
<1>5. /\ DbShaped(db') /\ DbShaped(disk')
      /\ \A k \in Job \ {j} : db'.status[k] = db.status[k]
  BY <1>4 DEF Cut, CutCopy, CutDrive, CutWrite, Torn, Commit
<1>6. \E t : TaskShaped(t) /\ task' = [task EXCEPT ![j] = t]
  <2>1. CASE CutCopy(j)
    <3> DEFINE t == [task[j] EXCEPT !.pc = "unwind", !.count = 0]
    <3>1. TaskShaped(t)
      BY <1>1 DEF TaskShaped, TaskFields
    <3> QED BY <2>1, <3>1 DEF CutCopy
  <2>2. CASE CutDrive(j)
    <3> DEFINE t == [task[j] EXCEPT !.pc = "drain",
               !.closed = IF task[j].pc = "drain" /\ task[j].closed = "no" THEN "clean"
                          ELSE task[j].closed,
               !.status = "running"]
    <3>1. TaskShaped(t)
      BY <1>1 DEF TaskShaped, TaskFields
    <3> QED BY <2>2, <3>1 DEF CutDrive
  <2>3. CASE CutWrite(j)
    <3>1. ASSUME NEW l, Goes(j, l)
          PROVE  \E t : TaskShaped(t) /\ task' = [task EXCEPT ![j] = t]
      <4> DEFINE t == [task[j] EXCEPT !.pc = l]
      <4>1. TaskShaped(t)
        BY <1>1 DEF TaskShaped, TaskFields
      <4>2. task' = [task EXCEPT ![j] = t]
        BY <3>1 DEF Goes
      <4> QED BY <4>1, <4>2
    <3>2. \/ task' = [task EXCEPT ![j] = Lands(task[j])]
          \/ Goes(j, "ended") \/ Goes(j, "final")
      BY <2>3 DEF CutWrite
    <3> QED BY <1>3, <3>1, <3>2
  <2> QED BY <2>1, <2>2, <2>3 DEF Cut
<1> QED BY <1>2, <1>5, <1>6

(* A request interrupts a run that it asked to stop and that is not before its
   first write: the row is right, or the run goes on to put it right. *)
LEMMA CutReady ==
  ASSUME Shaped, NEW j \in Job, Cut(j), VerdictReady(j), task[j].asked,
         spec[j].op = "diarize", task[j].pc \notin {"new", "start"}
  PROVE  VerdictReady(j)'
<1>1. TaskShaped(task[j]) /\ task = [k \in Job |-> task[k]]
  BY DEF Shaped
<1>2. ASSUME task' = [task EXCEPT ![j] = Lands(task[j])] PROVE VerdictReady(j)'
  <2>1. Lands(task[j]).pc = "shielded" /\ Lands(task[j]).status = "cancelled"
    BY <1>1 DEF Lands, TaskShaped, TaskFields
  <2>2. task'[j] = Lands(task[j])
    BY <1>1, <1>2
  <2> QED BY <2>1, <2>2 DEF VerdictReady, Verdicts
<1>3. CASE CutCopy(j)
  <2> DEFINE t == [task[j] EXCEPT !.pc = "unwind", !.count = 0]
  <2>1. t.pc = "unwind" /\ t.asked = task[j].asked
    BY <1>1 DEF TaskShaped, TaskFields
  <2>2. task'[j] = t
    BY <1>1, <1>3 DEF CutCopy
  <2>3. task'[j].pc = "unwind" /\ task'[j].asked
    BY <2>1, <2>2
  <2> QED BY <2>3 DEF VerdictReady
<1>4. CASE CutWrite(j) /\ task[j].pc \in {"prepare", "read", "wipe", "unwind"}
  BY <1>2, <1>4 DEF CutWrite
<1>5. CASE CutWrite(j) /\ task[j].pc \in {"early", "final", "shielded"}
  <2>1. /\ Goes(j, "ended") \/ Goes(j, "final")
        /\ db' = Row(j)
    BY <1>5 DEF CutWrite, Torn, Commit
  <2>2. task[j].status \in Verdicts
    BY <1>5 DEF VerdictReady
  <2>3. db'.status[j] \notin Cancellable
    <3>1. DbShaped(db)
      BY DEF Shaped
    <3> QED BY <2>1, <2>2, <3>1 DEF Row, Exists, DbShaped, Verdicts, Cancellable
  <2>4. task'[j].pc \in {"ended", "final"} /\ task'[j].status = task[j].status
    BY <2>1, Moving DEF TaskMoves
  <2> QED BY <2>2, <2>3, <2>4 DEF VerdictReady
<1> QED BY <1>3, <1>4, <1>5 DEF Cut, CutDrive, CutWrite

(* A shutdown cuts a task: whatever it leaves, the process goes down next. *)
LEMMA CutStep ==
  ASSUME ReadyInv, NEW j \in Job, ShutdownCuts(j)
  PROVE  ReadyInv'
<1>1. Shaped /\ up = "stopping"
  BY DEF ReadyInv, ShutdownCuts
<1>2. /\ DbShaped(db') /\ DbShaped(disk')
      /\ task' = [k \in Job |-> task'[k]] /\ \A k \in Job : TaskShaped(task'[k])
  <2>1. CASE Cut(j)
    BY <1>1, <2>1, CutShape
  <2>2. CASE UNCHANGED <<db, disk, task>>
    BY <1>1, <2>2 DEF Shaped
  <2> QED BY <2>1, <2>2 DEF ShutdownCuts
<1>3. Shaped'
  <2>1. (\A k \in Job : TaskShaped(task[k]))' /\ DbShaped(db)' /\ DbShaped(disk)'
    BY <1>2 DEF TaskShaped, DbShaped
  <2> QED BY <1>1, <1>2, <2>1 DEF Shaped, ShutdownCuts, AboutShaped
<1> QED BY <1>1, <1>3 DEF ReadyInv, Quiet, ShutdownCuts

-----------------------------------------------------------------------------
(* The requests.  A request changes one handler, and in most cases no task and
   no status. *)
LEMMA RequestKeeps ==
  ASSUME ReadyInv, up # "down", RequestFrame, NEW c \in Clients, NEW l, NEW a,
         AboutShaped(a),
         at' = [at EXCEPT ![c] = l], about' = [about EXCEPT ![c] = a],
         born' \in Nat, spec' = [j \in Job |-> spec'[j]],
         DbShaped(db'), DbShaped(disk'),
         task' = [j \in Job |-> task'[j]], \A j \in Job : TaskShaped(task'[j]),
         up = "up" => \A j \in Job : VerdictReady(j)'
  PROVE  ReadyInv'
<1>1. Shaped'
  <2>1. (\A d \in Clients : AboutShaped(about[d]))'
    BY DEF ReadyInv, Shaped, AboutShaped
  <2>2. (\A j \in Job : TaskShaped(task[j]))' /\ DbShaped(db)' /\ DbShaped(disk)'
    BY DEF TaskShaped, DbShaped
  <2> QED BY <2>1, <2>2 DEF ReadyInv, Shaped
<1> QED BY <1>1 DEF ReadyInv, Quiet, RequestFrame

(* Requests that leave the rows' statuses and every task's step alone. *)
LEMMA RequestReads ==
  ASSUME ReadyInv, up # "down", RequestFrame, NEW c \in Clients, NEW l, NEW a,
         AboutShaped(a),
         at' = [at EXCEPT ![c] = l], about' = [about EXCEPT ![c] = a],
         UNCHANGED <<born, spec, task>>, DbShaped(db'), DbShaped(disk'),
         \A j \in Job : \/ db'.status[j] = db.status[j]
                        \/ db'.status[j] \notin Cancellable
  PROVE  ReadyInv'
<1>1. up = "up" => \A j \in Job : VerdictReady(j)'
  BY DEF ReadyInv, VerdictReady
<1> QED BY <1>1, RequestKeeps DEF ReadyInv, Shaped

LEMMA EnqueueStep ==
  ASSUME ReadyInv, up # "down", NEW c \in Clients,
         \/ \E op \in Ops, v \in Version : EnqueueAsks(c, op, v)
         \/ EnqueueRefused(c) \/ EnqueueInserts(c) \/ EnqueueLaunches(c)
  PROVE  ReadyInv'
<1>1. Shaped /\ AboutShaped(about[c])
  BY DEF ReadyInv, Shaped
<1>2. DbShaped(db) /\ DbShaped(disk) /\ born \in Nat
  BY <1>1 DEF Shaped
<1>3. ASSUME NEW op \in Ops, NEW v \in Version, EnqueueAsks(c, op, v) PROVE ReadyInv'
  <2> DEFINE a == [op |-> op, v |-> v, run |-> FALSE]
  <2>1. AboutShaped(a)
    BY DEF AboutShaped
  <2> QED BY <1>2, <1>3, <2>1, RequestReads DEF EnqueueAsks
<1>4. CASE EnqueueRefused(c)
  <2>1. about' = [about EXCEPT ![c] = about[c]]
    BY <1>1, <1>4 DEF EnqueueRefused, Shaped
  <2> QED BY <1>1, <1>2, <1>4, <2>1, RequestReads DEF EnqueueRefused
<1>5. CASE EnqueueInserts(c)
  <2> DEFINE k == born + 1
             a == [about[c] EXCEPT !.v = k]
             t == [task[k] EXCEPT !.pc = "creating"]
  <2>1. k \in Job /\ k \in Nat
    BY <1>2, <1>5, ConstantsAssumption DEF EnqueueInserts, Job
  <2>2. AboutShaped(a)
    BY <1>1 DEF AboutShaped
  <2>3. about' = [about EXCEPT ![c] = a] /\ at' = [at EXCEPT ![c] = "commit"]
    BY <1>5 DEF EnqueueInserts
  <2>4. spec' = [j \in Job |-> spec'[j]]
    BY <1>1, <1>5, <2>1 DEF EnqueueInserts, Shaped
  <2>5. /\ DbShaped(db') /\ DbShaped(disk') /\ born' = k
        /\ \A j \in Job \ {k} : db'.status[j] = db.status[j]
    BY <1>2, <1>5 DEF EnqueueInserts, DbShaped
  <2>6. TaskMoves(k, "creating", task[k].status)
    BY <1>1, <1>5, <2>1, Moving DEF EnqueueInserts
  <2>7. \A j \in Job : TaskShaped(task'[j])
    BY <1>1, <2>6 DEF TaskMoves, Shaped
  <2>8. up = "up" => \A j \in Job : VerdictReady(j)'
    BY <2>1, <2>5, <2>6 DEF ReadyInv, VerdictReady, TaskMoves
  <2>9. RequestFrame /\ born' \in Nat /\ task' = [j \in Job |-> task'[j]]
    BY <1>5, <2>1, <2>5, <2>6 DEF EnqueueInserts, TaskMoves
  <2> HIDE DEF a
  <2> QED BY <2>2, <2>3, <2>4, <2>5, <2>7, <2>8, <2>9, RequestKeeps
<1>6. CASE EnqueueLaunches(c)
  <2> DEFINE k == about[c].v
  <2>1. about' = [about EXCEPT ![c] = about[c]]
    BY <1>1, <1>6 DEF EnqueueLaunches, Shaped
  <2>2. /\ task' = [j \in Job |-> task'[j]] /\ \A j \in Job : TaskShaped(task'[j])
        /\ \A j \in Job : \/ task'[j] = task[j]
                           \/ /\ task'[j].pc = "new"
                              /\ task'[j].status = task[j].status
    <3>1. CASE k \in Job
      <4>1. TaskMoves(k, "new", task[k].status)
        BY <1>1, <1>6, <3>1, Moving DEF EnqueueLaunches
      <4> QED BY <1>1, <4>1 DEF TaskMoves, Shaped
    <3>2. CASE k \notin Job
      BY <1>1, <1>6, <3>2 DEF EnqueueLaunches, Goes, Shaped
    <3> QED BY <3>1, <3>2
  <2>3. up = "up" => \A j \in Job : VerdictReady(j)'
    BY <1>6, <2>2 DEF ReadyInv, VerdictReady, EnqueueLaunches
  <2> QED BY <1>1, <1>2, <1>6, <2>1, <2>2, <2>3, RequestKeeps
          DEF EnqueueLaunches, Shaped
<1> QED BY <1>3, <1>4, <1>5, <1>6

LEMMA CancelStep ==
  ASSUME ReadyInv, AsksKnown, up # "down", NEW c \in Clients,
         (\E j \in Job : CancelAsks(c, j)) \/ CancelReads(c) \/ CancelAdopts(c)
  PROVE  ReadyInv'
<1>1. Shaped /\ AboutShaped(about[c])
  BY DEF ReadyInv, Shaped
<1>2. DbShaped(db) /\ DbShaped(disk)
  BY <1>1 DEF Shaped
<1>3. ASSUME NEW j \in Job, CancelAsks(c, j) PROVE ReadyInv'
  <2> DEFINE a == [op |-> "cancel", v |-> j, run |-> Running(j)]
             t == [task[j] EXCEPT !.asked = Running(j) \/ task[j].asked]
  <2>1. AboutShaped(a) /\ a.v = j
    BY DEF AboutShaped
  <2>2. /\ TaskShaped(t) /\ t.pc = task[j].pc /\ t.status = task[j].status
        /\ task[j].pc = "unwind" => t.asked
    BY <1>1 DEF Shaped, TaskShaped, TaskFields, Running
  <2>3. task' = [task EXCEPT ![j] = t]
    BY <1>3 DEF CancelAsks
  <2>a. task'[j].pc = "unwind" => task'[j].asked
    BY <1>1, <2>2, <2>3 DEF Shaped
  <2>4. TaskMoves(j, task[j].pc, task[j].status)
    BY <1>1, <2>2, <2>3, MovingTo
  <2>5. \A k \in Job : TaskShaped(task'[k])
    BY <1>1, <2>4 DEF TaskMoves, Shaped
  <2>6. up = "up" => \A k \in Job : VerdictReady(k)'
    BY <1>3, <2>4, <2>a DEF ReadyInv, VerdictReady, TaskMoves, CancelAsks
  <2>7. at' = [at EXCEPT ![c] = "cancel"] /\ about' = [about EXCEPT ![c] = a]
    BY <1>3 DEF CancelAsks
  <2>8. RequestFrame /\ UNCHANGED <<born, spec, db, disk>> /\ task' = [k \in Job |-> task'[k]]
    BY <1>3, <2>4 DEF CancelAsks, TaskMoves
  <2>9. /\ born' \in Nat /\ spec' = [k \in Job |-> spec'[k]]
        /\ DbShaped(db') /\ DbShaped(disk')
    BY <1>1, <1>2, <2>8 DEF Shaped
  <2> HIDE DEF a
  <2> QED BY <2>1, <2>5, <2>6, <2>7, <2>8, <2>9, RequestKeeps
<1>4. CASE CancelReads(c)
  <2>0. PICK j \in Job : j = about[c].v
    BY <1>4 DEF CancelReads, AsksKnown
  <2>1. about' = [about EXCEPT ![c] = about[c]]
    BY <1>1, <1>4 DEF CancelReads, Shaped
  <2>2. CASE UNCHANGED <<db, disk, task>>
    BY <1>1, <1>2, <1>4, <2>1, <2>2, RequestReads DEF CancelReads
  <2>3. CASE Cut(j) /\ spec[j].op = "diarize"
    <3>1. task[j].asked /\ task[j].pc \notin {"new", "start"}
      BY <1>4, <2>0 DEF CancelReads, AsksKnown
    <3>2. /\ DbShaped(db') /\ DbShaped(disk')
          /\ task' = [k \in Job |-> task'[k]] /\ \A k \in Job : TaskShaped(task'[k])
          /\ \A k \in Job \ {j} : task'[k] = task[k] /\ db'.status[k] = db.status[k]
      BY <1>1, <2>3, CutShape
    <3>3. ASSUME up = "up" PROVE VerdictReady(j)'
      <4>1. VerdictReady(j)
        BY <3>3 DEF ReadyInv
      <4> QED BY <1>1, <2>3, <3>1, <4>1, CutReady
    <3>4. ASSUME up = "up", NEW k \in Job \ {j} PROVE VerdictReady(k)'
      <4>1. VerdictReady(k) /\ task'[k] = task[k] /\ db'.status[k] = db.status[k]
        BY <3>2, <3>4 DEF ReadyInv
      <4> QED BY <4>1 DEF VerdictReady
    <3>5. up = "up" => \A k \in Job : VerdictReady(k)'
      BY <3>3, <3>4
    <3>6. /\ RequestFrame /\ at' = [at EXCEPT ![c] = "idle"]
          /\ born' \in Nat /\ spec' = [k \in Job |-> spec'[k]]
      BY <1>1, <1>4 DEF CancelReads, Shaped
    <3> QED BY <1>1, <2>1, <3>2, <3>5, <3>6, RequestKeeps
  <2> QED BY <1>4, <2>0, <2>2, <2>3 DEF CancelReads
<1>5. CASE CancelAdopts(c)
  <2>1. about' = [about EXCEPT ![c] = about[c]]
    BY <1>1, <1>5 DEF CancelAdopts, Shaped
  <2>2. /\ DbShaped(db') /\ DbShaped(disk')
        /\ \A k \in Job : \/ db'.status[k] = db.status[k]
                          \/ db'.status[k] = "cancelled"
    BY <1>2, <1>5 DEF CancelAdopts, Commit, DbShaped
  <2> QED BY <1>1, <1>5, <2>1, <2>2, RequestReads DEF CancelAdopts, Cancellable
<1> QED BY <1>3, <1>4, <1>5

LEMMA DeleteStep ==
  ASSUME ReadyInv, up # "down", NEW c \in Clients,
         \/ \E v \in Job : DeleteAsks(c, v)
         \/ DeleteSegs(c) \/ DeleteCopy(c) \/ DeleteRows(c)
  PROVE  ReadyInv'
<1>1. Shaped /\ AboutShaped(about[c])
  BY DEF ReadyInv, Shaped
<1>2. DbShaped(db) /\ DbShaped(disk)
  BY <1>1 DEF Shaped
<1>3. ASSUME NEW v \in Job, DeleteAsks(c, v) PROVE ReadyInv'
  <2> DEFINE a == [op |-> "delete", v |-> v, run |-> FALSE]
  <2>1. AboutShaped(a)
    BY DEF AboutShaped
  <2> QED BY <1>2, <1>3, <2>1, RequestReads DEF DeleteAsks
<1>4. CASE DeleteSegs(c) \/ DeleteCopy(c) \/ DeleteRows(c)
  <2>1. about' = [about EXCEPT ![c] = about[c]]
    BY <1>1, <1>4 DEF DeleteSegs, DeleteCopy, DeleteRows, Shaped
  <2>2. /\ DbShaped(db') /\ DbShaped(disk')
        /\ \A k \in Job : \/ db'.status[k] = db.status[k]
                          \/ db'.status[k] = "deleted"
    <3>1. CASE DeleteSegs(c)
      BY <1>2, <3>1 DEF DeleteSegs, Commit, DbShaped
    <3>2. CASE DeleteCopy(c)
      BY <1>2, <3>2 DEF DeleteCopy, Commit, DbShaped
    <3>3. CASE DeleteRows(c)
      BY <1>2, <3>3 DEF DeleteRows, Commit, DbShaped
    <3> QED BY <1>4, <3>1, <3>2, <3>3
  <2>3. \E l \in {"copy", "rows", "idle"} : at' = [at EXCEPT ![c] = l]
    BY <1>4 DEF DeleteSegs, DeleteCopy, DeleteRows
  <2>4. RequestFrame /\ UNCHANGED <<born, spec, task>>
    BY <1>4 DEF DeleteSegs, DeleteCopy, DeleteRows
  <2> QED BY <1>1, <2>1, <2>2, <2>3, <2>4, RequestReads DEF Cancellable
<1> QED BY <1>3, <1>4

(* A shutdown begins; the process goes down, and comes back up. *)
LEMMA LifecycleStep ==
  ASSUME ReadyInv, ShutdownBegins \/ ShutdownEnds \/ Crash \/ Reconciles
  PROVE  ReadyInv'
<1>1. Shaped /\ DbShaped(db) /\ DbShaped(disk)
  BY DEF ReadyInv, Shaped
<1>2. CASE ShutdownBegins
  <2>1. UNCHANGED <<at, about, born, spec, db, disk, task>> /\ up' = "stopping"
    BY <1>2 DEF ShutdownBegins
  <2>2. Shaped'
    BY <1>1, <2>1 DEF Shaped, DbShaped, TaskShaped, AboutShaped
  <2> QED BY <2>1, <2>2 DEF ReadyInv, Quiet
<1>3. CASE GoesDown
  <2>1. /\ task' = [j \in Job |-> task'[j]]
        /\ \A j \in Job : TaskShaped(task'[j]) /\ task'[j].pc \in {"none", "ended"}
    <3>1. task' = [j \in Job |-> task'[j]]
      BY <1>3 DEF GoesDown
    <3>2. ASSUME NEW j \in Job
          PROVE  TaskShaped(task'[j]) /\ task'[j].pc \in {"none", "ended"}
      <4>1. TaskShaped(task[j])
        BY <1>1 DEF Shaped
      <4>2. TaskShaped([task[j] EXCEPT !.pc = "ended"])
            /\ [task[j] EXCEPT !.pc = "ended"].pc = "ended"
        BY <4>1 DEF TaskShaped, TaskFields
      <4>3. task'[j] = IF task[j].pc = "none" THEN task[j]
                       ELSE [task[j] EXCEPT !.pc = "ended"]
        BY <1>3 DEF GoesDown
      <4> QED BY <4>1, <4>2, <4>3
    <3> QED BY <3>1, <3>2
  <2>2. /\ at' = [c \in Clients |-> "idle"] /\ UNCHANGED <<about, born, spec, disk>>
        /\ db' = disk /\ up' = "down"
    BY <1>3 DEF GoesDown
  <2>3. Shaped'
    <3>1. (\A j \in Job : TaskShaped(task[j]))' /\ (\A c \in Clients : AboutShaped(about[c]))'
      BY <1>1, <2>1, <2>2 DEF Shaped, TaskShaped, AboutShaped
    <3>2. DbShaped(db)' /\ DbShaped(disk)'
      BY <1>1, <2>2 DEF DbShaped
    <3> QED BY <1>1, <2>1, <2>2, <3>1, <3>2 DEF Shaped
  <2>4. Quiet'
    BY <1>1, <2>1, <2>2 DEF Quiet
  <2> QED BY <2>2, <2>3, <2>4 DEF ReadyInv
<1>4. CASE Reconciles
  <2>1. UNCHANGED <<at, about, born, spec, task>> /\ up = "down" /\ up' = "up"
    BY <1>4 DEF Reconciles
  <2>2. /\ DbShaped(db') /\ DbShaped(disk')
        /\ \A j \in Job : db'.status[j] \notin Cancellable
    BY <1>1, <1>4 DEF Reconciles, Commit, DbShaped, Cancellable
  <2>3. Shaped'
    <3>1. (\A j \in Job : TaskShaped(task[j]))' /\ (\A c \in Clients : AboutShaped(about[c]))'
      BY <1>1, <2>1 DEF Shaped, TaskShaped, AboutShaped
    <3>2. DbShaped(db)' /\ DbShaped(disk)'
      BY <2>2 DEF DbShaped
    <3> QED BY <1>1, <2>1, <3>1, <3>2 DEF Shaped
  <2>4. \A j \in Job : task[j].pc \in {"none", "ended"}
    BY <2>1 DEF ReadyInv, Quiet
  <2>5. \A j \in Job : VerdictReady(j)'
    BY <2>1, <2>2, <2>4 DEF VerdictReady
  <2>6. Quiet'
    BY <1>1, <2>1 DEF Quiet
  <2> QED BY <2>3, <2>5, <2>6 DEF ReadyInv
<1> QED BY <1>2, <1>3, <1>4 DEF ShutdownEnds, Crash

(* While the process is down only the next start moves. *)
LEMMA DownIsQuiet ==
  ASSUME ReadyInv, up = "down", NEW c \in Clients
  PROVE  /\ \A op \in Ops, v \in Version : ~EnqueueAsks(c, op, v)
         /\ ~EnqueueRefused(c) /\ ~Requesting(c)
         /\ \A j \in Job : ~CancelAsks(c, j) /\ ~DeleteAsks(c, j)
<1>1. at[c] = "idle"
  BY DEF ReadyInv, Quiet
<1> QED BY <1>1 DEF EnqueueAsks, EnqueueRefused, Requesting, CancelAsks, DeleteAsks,
       EnqueueInserts, EnqueueLaunches, CancelReads, CancelAdopts, DeleteSegs,
       DeleteCopy, DeleteRows

LEMMA DownIsIdle ==
  ASSUME ReadyInv, up = "down", NEW j \in Job
  PROVE  /\ ~Driving(j) /\ ~Copying(j) /\ ~Ending(j) /\ ~Router(j) /\ ~Breaks(j)
         /\ ~ShutdownCuts(j)
<1>1. task[j].pc \in {"none", "ended"}
  BY DEF ReadyInv, Quiet
<1>2. ~Driving(j) /\ ~Ending(j)
  BY <1>1 DEF Driving, Ending, Prepared, Stores, Ticks, DriveEnds, Drained,
     RunBegins, RunNever, RunStarts, Shields, Finalises
<1>3. ~Copying(j) /\ ~ShutdownCuts(j)
  BY <1>1 DEF Copying, Diarized, ReadsBase, Wipes, Copies, Unwinds, ShutdownCuts
<1>4. ~Router(j) /\ ~Breaks(j)
  BY <1>1 DEF Router, Breaks, Hears, FeedEnds, Feeding, PrepareFails, FeedExhausted,
     StoreFails, CopyFails
<1> QED BY <1>2, <1>3, <1>4

LEMMA InitReady == Init => ReadyInv
<1> SUFFICES ASSUME Init PROVE ReadyInv
  OBVIOUS
<1>1. TaskShaped(NoTask)
  BY DEF TaskShaped, TaskFields, NoTask
<1>2. DbShaped(EmptyDb)
  BY DEF DbShaped, EmptyDb
<1>3. Shaped
  BY <1>1, <1>2 DEF Init, Shaped, AboutShaped
<1>4. Quiet
  BY DEF Init, Quiet
<1>5. \A j \in Job : db.status[j] = "none" /\ task[j].pc = "none"
  BY DEF Init, EmptyDb, NoTask
<1>6. \A j \in Job : VerdictReady(j)
  BY <1>5 DEF VerdictReady, Cancellable
<1> QED BY <1>3, <1>4, <1>6 DEF ReadyInv

LEMMA NextReady ==
  ASSUME ReadyInv, AsksKnown, [Next]_vars
  PROVE  ReadyInv'
<1>1. CASE UNCHANGED vars
  <2>1. Shaped'
    BY <1>1 DEF vars, ReadyInv, Shaped, DbShaped, TaskShaped, AboutShaped
  <2> QED BY <1>1, <2>1 DEF vars, ReadyInv, Quiet, VerdictReady
<1>2. ASSUME NEW c \in Clients,
             \/ \E op \in Ops, v \in Version : EnqueueAsks(c, op, v)
             \/ EnqueueRefused(c) \/ Requesting(c)
             \/ \E j \in Job : CancelAsks(c, j) \/ DeleteAsks(c, j)
      PROVE  ReadyInv'
  <2>1. up # "down"
    BY <1>2, DownIsQuiet
  <2> QED BY <1>2, <2>1, EnqueueStep, CancelStep, DeleteStep DEF Requesting
<1>3. ASSUME NEW j \in Job,
             \/ Driving(j) \/ Copying(j) \/ Ending(j) \/ Router(j) \/ Breaks(j)
             \/ ShutdownCuts(j)
      PROVE  ReadyInv'
  <2>1. up # "down"
    BY <1>3, DownIsIdle
  <2> QED BY <1>3, <2>1, DrivingStep, CopyingStep, EndingStep, RouterStep, CutStep
<1> QED BY <1>1, <1>2, <1>3, LifecycleStep DEF Next

-----------------------------------------------------------------------------
(* A flag is only ever raised. *)
FlagsStay == \A k \in Job : task[k].asked => task'[k].asked

LEMMA RunFlags ==
  ASSUME Shaped, NEW j \in Job,
         \/ Driving(j) \/ Copying(j) \/ Ending(j) \/ Router(j) \/ Breaks(j)
         \/ Cut(j) \/ (\E l : Goes(j, l)) \/ UNCHANGED task
  PROVE  FlagsStay
<1>1. TaskShaped(task[j]) /\ task = [i \in Job |-> task[i]]
  BY DEF Shaped
<1>2. ASSUME NEW t, task[j].asked => t.asked, task' = [task EXCEPT ![j] = t]
      PROVE  FlagsStay
  BY <1>1, <1>2 DEF FlagsStay
<1>3. ASSUME NEW l, Goes(j, l) PROVE FlagsStay
  <2> DEFINE t == [task[j] EXCEPT !.pc = l]
  <2>1. task[j].asked => t.asked
    BY <1>1 DEF TaskShaped, TaskFields
  <2>2. task' = [task EXCEPT ![j] = t]
    BY <1>3 DEF Goes
  <2> QED BY <1>2, <2>1, <2>2
<1>4. ASSUME NEW l, NEW status, Ends(j, l, status) PROVE FlagsStay
  <2> DEFINE t == [task[j] EXCEPT !.pc = l, !.status = status]
  <2>1. task[j].asked => t.asked
    BY <1>1 DEF TaskShaped, TaskFields
  <2>2. task' = [task EXCEPT ![j] = t]
    BY <1>4 DEF Ends
  <2> QED BY <1>2, <2>1, <2>2
<1>5. ASSUME task' = [task EXCEPT ![j] = Lands(task[j])] PROVE FlagsStay
  <2>1. task[j].asked => Lands(task[j]).asked
    BY <1>1 DEF Lands, TaskShaped, TaskFields
  <2> QED BY <1>2, <1>5, <2>1
<1>6. CASE UNCHANGED task
  BY <1>6 DEF FlagsStay
<1>7. CASE Ending(j)
  <2>1. CASE RunBegins(j)
    <3> DEFINE t == [task[j] EXCEPT
                 !.pc = IF task[j].asked THEN "early" ELSE "start",
                 !.status = IF task[j].asked THEN "cancelled" ELSE "running",
                 !.stopped = task[j].asked]
    <3>1. task[j].asked => t.asked
      BY <1>1 DEF TaskShaped, TaskFields
    <3>2. task' = [task EXCEPT ![j] = t]
      BY <2>1 DEF RunBegins
    <3> QED BY <1>2, <3>1, <3>2
  <2> QED BY <1>3, <1>7, <2>1 DEF Ending, RunNever, RunStarts, Shields, Finalises
<1>8. CASE Driving(j)
  <2>1. CASE Stores(j)
    <3> DEFINE t == [task[j] EXCEPT !.pc = "tick", !.pend = Tail(task[j].pend),
                                     !.count = task[j].count + 1]
    <3>1. task[j].asked => t.asked
      BY <1>1 DEF TaskShaped, TaskFields
    <3>2. task' = [task EXCEPT ![j] = t]
      BY <2>1 DEF Stores
    <3> QED BY <1>2, <3>1, <3>2
  <2>2. CASE Ticks(j)
    <3> DEFINE over == spec[j].op = "diarize" /\ task[j].todo = {}
               t == [task[j] EXCEPT
                 !.pc = IF over THEN "final"
                        ELSE IF spec[j].op = "diarize" THEN "copy" ELSE "drive",
                 !.status = IF over THEN "done" ELSE task[j].status]
    <3>1. task[j].asked => t.asked
      BY <1>1 DEF TaskShaped, TaskFields
    <3>2. task' = [task EXCEPT ![j] = t]
      BY <2>2 DEF Ticks
    <3> QED BY <1>2, <3>1, <3>2
  <2>3. CASE Drained(j)
    <3> DEFINE t == [task[j] EXCEPT !.pc = "final", !.status = "error"]
    <3>1. task[j].asked => t.asked
      BY <1>1 DEF TaskShaped, TaskFields
    <3>2. \/ task' = [task EXCEPT ![j] = t]
          \/ task' = [task EXCEPT ![j] = Lands(task[j])]
      BY <2>3 DEF Drained
    <3> QED BY <1>2, <1>5, <3>1, <3>2
  <2>4. CASE DriveEnds(j)
    BY <1>4, <2>4 DEF DriveEnds
  <2> QED BY <1>3, <1>8, <2>1, <2>2, <2>3, <2>4 DEF Driving, Prepared
<1>9. CASE Copying(j)
  <2>1. CASE ReadsBase(j)
    <3> DEFINE t == [task[j] EXCEPT !.pc = "wipe", !.todo = db.segs[spec[j].target]]
    <3>1. task[j].asked => t.asked
      BY <1>1 DEF TaskShaped, TaskFields
    <3>2. task' = [task EXCEPT ![j] = t]
      BY <2>1 DEF ReadsBase
    <3> QED BY <1>2, <3>1, <3>2
  <2>2. CASE Copies(j)
    <3> DEFINE u == Next1(task[j].todo)
               t == [task[j] EXCEPT !.pc = "tick", !.todo = task[j].todo \ {u},
                                     !.count = task[j].count + 1]
    <3>1. task[j].asked => t.asked
      BY <1>1 DEF TaskShaped, TaskFields
    <3>2. task' = [task EXCEPT ![j] = t]
      BY <2>2 DEF Copies
    <3> QED BY <1>2, <3>1, <3>2
  <2>3. CASE Diarized(j) \/ Wipes(j)
    BY <1>3, <1>4, <2>3 DEF Diarized, Wipes
  <2> QED BY <1>5, <1>9, <2>1, <2>2, <2>3 DEF Copying, Unwinds
<1>10. CASE Router(j) \/ Breaks(j)
  <2> DEFINE heard == [task[j] EXCEPT !.fed = task[j].fed + 1,
                                      !.pend = Append(task[j].pend, task[j].fed + 1)]
             silent == [task[j] EXCEPT !.fed = task[j].fed + 1]
             dropped == [task[j] EXCEPT !.fed = task[j].fed + 1, !.dropped = TRUE]
             ended == [task[j] EXCEPT !.closed = "clean",
                                      !.stopped = task[j].asked /\ task[j].fed < MaxUtts]
             exhausted == [task[j] EXCEPT !.fed = task[j].fed + 1, !.closed = "exhausted"]
  <2>1. \A t \in {heard, silent, dropped, ended, exhausted} : task[j].asked => t.asked
    BY <1>1 DEF TaskShaped, TaskFields
  <2>2. CASE Hears(j) \/ FeedEnds(j) \/ FeedExhausted(j)
    <3>1. \E t \in {heard, silent, dropped, ended, exhausted} : task' = [task EXCEPT ![j] = t]
      BY <2>2 DEF Hears, FeedEnds, FeedExhausted
    <3> QED BY <1>2, <2>1, <3>1
  <2> QED BY <1>4, <1>10, <2>2 DEF Router, Breaks, PrepareFails, StoreFails, CopyFails
<1>11. CASE Cut(j)
  <2>1. CASE CutCopy(j)
    <3> DEFINE t == [task[j] EXCEPT !.pc = "unwind", !.count = 0]
    <3>1. task[j].asked => t.asked
      BY <1>1 DEF TaskShaped, TaskFields
    <3> QED BY <1>2, <2>1, <3>1 DEF CutCopy
  <2>2. CASE CutDrive(j)
    <3> DEFINE t == [task[j] EXCEPT !.pc = "drain",
               !.closed = IF task[j].pc = "drain" /\ task[j].closed = "no" THEN "clean"
                          ELSE task[j].closed,
               !.status = "running"]
    <3>1. task[j].asked => t.asked
      BY <1>1 DEF TaskShaped, TaskFields
    <3> QED BY <1>2, <2>2, <3>1 DEF CutDrive
  <2>3. CASE CutWrite(j)
    BY <1>3, <1>5, <2>3 DEF CutWrite
  <2> QED BY <1>11, <2>1, <2>2, <2>3 DEF Cut
<1> QED BY <1>3, <1>6, <1>7, <1>8, <1>9, <1>10, <1>11

LEMMA AsksStay ==
  ASSUME Shaped, AsksKnown, [Next]_vars
  PROVE  AsksKnown'
<1>1. ASSUME FlagsStay, NEW c \in Clients, NEW l, l # "cancel",
             at' = [at EXCEPT ![c] = l], \A d \in Clients \ {c} : about'[d] = about[d]
      PROVE  AsksKnown'
  BY <1>1 DEF Shaped, AsksKnown, FlagsStay
<1>2. ASSUME FlagsStay, UNCHANGED <<at, about>> PROVE AsksKnown'
  BY <1>2 DEF AsksKnown, FlagsStay
<1>3. CASE UNCHANGED vars
  BY <1>2, <1>3 DEF vars, FlagsStay
<1>4. ASSUME NEW c \in Clients, NEW op \in Ops, NEW v \in Version, EnqueueAsks(c, op, v)
      PROVE  AsksKnown'
  BY <1>1, <1>4 DEF EnqueueAsks, FlagsStay, Shaped
<1>5. ASSUME NEW c \in Clients,
             \/ EnqueueRefused(c) \/ CancelAdopts(c)
             \/ DeleteSegs(c) \/ DeleteCopy(c) \/ DeleteRows(c)
      PROVE  AsksKnown'
  BY <1>1, <1>5 DEF EnqueueRefused, CancelAdopts, DeleteSegs, DeleteCopy, DeleteRows,
     FlagsStay, Shaped
<1>6. ASSUME NEW c \in Clients, EnqueueInserts(c) PROVE AsksKnown'
  <2>1. born + 1 \in Job
    BY <1>6, ConstantsAssumption DEF EnqueueInserts, Job, Shaped
  <2>2. FlagsStay
    BY <1>6, <2>1, RunFlags DEF EnqueueInserts
  <2> QED BY <1>1, <1>6, <2>2 DEF EnqueueInserts, Shaped
<1>7. ASSUME NEW c \in Clients, EnqueueLaunches(c) PROVE AsksKnown'
  <2>1. CASE about[c].v \in Job
    BY <1>1, <1>7, <2>1, RunFlags DEF EnqueueLaunches
  <2>2. CASE about[c].v \notin Job
    BY <1>1, <1>7, <2>2 DEF EnqueueLaunches, Goes, Shaped, FlagsStay
  <2> QED BY <2>1, <2>2
<1>8. ASSUME NEW c \in Clients, CancelReads(c) PROVE AsksKnown'
  <2>1. CASE Cut(about[c].v)
    <3>1. about[c].v \in Job
      BY <1>8 DEF CancelReads, AsksKnown
    <3> QED BY <1>1, <1>8, <2>1, <3>1, RunFlags DEF CancelReads
  <2>2. CASE UNCHANGED task
    BY <1>1, <1>8, <2>2 DEF CancelReads, FlagsStay
  <2> QED BY <1>8, <2>1, <2>2 DEF CancelReads
<1>9. ASSUME NEW c \in Clients, NEW j \in Job, CancelAsks(c, j) PROVE AsksKnown'
  <2> DEFINE t == [task[j] EXCEPT !.asked = Running(j) \/ task[j].asked]
             a == [op |-> "cancel", v |-> j, run |-> Running(j)]
  <2>1. (Running(j) \/ task[j].asked) => t.asked
    BY DEF Shaped, TaskShaped, TaskFields
  <2>2. /\ task' = [task EXCEPT ![j] = t] /\ about' = [about EXCEPT ![c] = a]
        /\ at' = [at EXCEPT ![c] = "cancel"]
    BY <1>9 DEF CancelAsks
  <2>3. FlagsStay /\ (Running(j) => task'[j].asked)
    BY <2>1, <2>2 DEF FlagsStay, Shaped
  <2>4. about'[c] = a /\ \A d \in Clients \ {c} : about'[d] = about[d] /\ at'[d] = at[d]
    BY <2>2 DEF Shaped
  <2>5. a.v = j /\ a.run = Running(j)
    OBVIOUS
  <2> HIDE DEF a, t
  <2>6. about'[c].v \in Job /\ (about'[c].run => task'[about'[c].v].asked)
    BY <2>3, <2>4, <2>5
  <2> QED BY <2>3, <2>4, <2>6 DEF AsksKnown, FlagsStay
<1>10. ASSUME NEW c \in Clients, NEW v \in Job, DeleteAsks(c, v) PROVE AsksKnown'
  BY <1>1, <1>10 DEF DeleteAsks, FlagsStay, Shaped
<1>11. ASSUME NEW j \in Job,
              \/ Driving(j) \/ Copying(j) \/ Ending(j) \/ Router(j) \/ Breaks(j)
              \/ ShutdownCuts(j)
       PROVE  AsksKnown'
  <2>1. UNCHANGED <<at, about>>
    <3>1. CASE Driving(j) \/ Ending(j)
      BY <3>1 DEF Driving, Ending, Prepared, Stores, Ticks, DriveEnds, Drained,
         RunBegins, RunNever, RunStarts, Shields, Finalises, TaskFrame
    <3>2. CASE Copying(j) \/ ShutdownCuts(j)
      BY <3>2 DEF Copying, Diarized, ReadsBase, Wipes, Copies, Unwinds, ShutdownCuts, TaskFrame
    <3>3. CASE Router(j) \/ Breaks(j)
      BY <3>3 DEF Router, Breaks, Hears, FeedEnds, PrepareFails, FeedExhausted,
         StoreFails, CopyFails, TaskFrame
    <3> QED BY <1>11, <3>1, <3>2, <3>3
  <2>2. FlagsStay
    BY <1>11, RunFlags DEF ShutdownCuts
  <2> QED BY <1>2, <2>1, <2>2
<1>12. CASE ShutdownEnds \/ Crash
  BY <1>12 DEF ShutdownEnds, Crash, GoesDown, AsksKnown
<1>13. CASE ShutdownBegins \/ Reconciles
  BY <1>2, <1>13 DEF ShutdownBegins, Reconciles, FlagsStay
<1> QED BY <1>3, <1>4, <1>5, <1>6, <1>7, <1>8, <1>9, <1>10, <1>11, <1>12, <1>13
        DEF Next, Requesting

-----------------------------------------------------------------------------
(* A row that says queued or running has a run behind it, whatever clients
   enqueue, cancel, adopt and delete, whatever fails, shuts down or dies:
   _run's shield and finally, a cancelled copy's way out, and reconcile miss
   no way a run may end. *)
THEOREM RunningRowsHaveRuns == Spec => []RunningHasRun
<1>1. Init => ReadyInv /\ AsksKnown
  BY InitReady DEF Init, AsksKnown
<1>2. ReadyInv /\ AsksKnown /\ [Next]_vars => (ReadyInv /\ AsksKnown)'
  BY NextReady, AsksStay DEF ReadyInv
<1>3. ReadyInv => RunningHasRun
  BY DEF ReadyInv, RunningHasRun, VerdictReady
<1> QED BY <1>1, <1>2, <1>3, PTL DEF Spec

(* With re-transcriptions alone: for what a finished one leaves. *)
LEMMA InitTranscripts == Init => RunInv
  BY InitReady DEF Init, RunInv, AsksKnown, OnlyTranscripts, Unborn

LEMMA NextTranscripts ==
  ASSUME RunInv, [Next]_vars, "diarize" \notin Ops
  PROVE  RunInv'
<1>1. Shaped /\ OnlyTranscripts
  BY DEF RunInv, ReadyInv
<1>2. ASSUME NEW c \in Clients, NEW op \in Ops, NEW v \in Version, EnqueueAsks(c, op, v)
      PROVE  OnlyTranscripts'
  <2>1. op = "transcribe"
    BY ConstantsAssumption DEF OpKinds
  <2> QED BY <1>1, <1>2, <2>1 DEF EnqueueAsks, OnlyTranscripts, Shaped
<1>3. ASSUME NEW c \in Clients, EnqueueInserts(c) PROVE OnlyTranscripts'
  <2>1. \A j \in Job : spec'[j].op = "transcribe"
    BY <1>1, <1>3 DEF EnqueueInserts, Shaped, OnlyTranscripts
  <2> QED BY <1>1, <1>3, <2>1 DEF EnqueueInserts, OnlyTranscripts, Shaped
<1>4. ASSUME NEW c \in Clients,
             EnqueueRefused(c) \/ (Requesting(c) /\ ~EnqueueInserts(c))
      PROVE  OnlyTranscripts'
  BY <1>1, <1>4 DEF EnqueueRefused, Requesting, EnqueueLaunches, CancelReads, CancelAdopts,
     DeleteSegs, DeleteCopy, DeleteRows, OnlyTranscripts, Shaped
<1>5. ASSUME NEW c \in Clients, NEW j \in Job, CancelAsks(c, j) \/ DeleteAsks(c, j)
      PROVE  OnlyTranscripts'
  BY <1>1, <1>5 DEF CancelAsks, DeleteAsks, OnlyTranscripts, Shaped
<1>6. ASSUME UNCHANGED <<at, about, spec>> PROVE OnlyTranscripts'
  BY <1>1, <1>6 DEF OnlyTranscripts
<1>7. ASSUME NEW j \in Job,
             \/ Driving(j) \/ Copying(j) \/ Ending(j) \/ Router(j) \/ Breaks(j)
             \/ ShutdownCuts(j)
      PROVE  OnlyTranscripts'
  <2>1. CASE Driving(j) \/ Ending(j)
    BY <1>6, <2>1 DEF Driving, Ending, Prepared, Stores, Ticks, DriveEnds, Drained,
       RunBegins, RunNever, RunStarts, Shields, Finalises, TaskFrame
  <2>2. CASE Copying(j) \/ ShutdownCuts(j)
    BY <1>6, <2>2 DEF Copying, Diarized, ReadsBase, Wipes, Copies, Unwinds,
       ShutdownCuts, TaskFrame
  <2>3. CASE Router(j) \/ Breaks(j)
    BY <1>6, <2>3 DEF Router, Breaks, Hears, FeedEnds, PrepareFails, FeedExhausted,
       StoreFails, CopyFails, TaskFrame
  <2> QED BY <1>7, <2>1, <2>2, <2>3
<1>8. ASSUME UNCHANGED vars \/ ShutdownBegins \/ ShutdownEnds \/ Crash \/ Reconciles
      PROVE  OnlyTranscripts'
  <2>1. ASSUME GoesDown PROVE OnlyTranscripts'
    <3>1. spec' = spec /\ \A c \in Clients : at'[c] = "idle"
      BY <2>1 DEF GoesDown
    <3> QED BY <1>1, <3>1 DEF OnlyTranscripts
  <2>2. CASE UNCHANGED vars \/ ShutdownBegins \/ Reconciles
    BY <1>6, <2>2 DEF vars, ShutdownBegins, Reconciles
  <2>3. CASE ShutdownEnds \/ Crash
    BY <2>1, <2>3 DEF ShutdownEnds, Crash
  <2> QED BY <1>8, <2>2, <2>3
<1>9. ASSUME NEW c \in Clients,
             \/ \E op \in Ops, v \in Version : EnqueueAsks(c, op, v)
             \/ EnqueueRefused(c) \/ Requesting(c)
             \/ \E j \in Job : CancelAsks(c, j) \/ DeleteAsks(c, j)
      PROVE  OnlyTranscripts'
  BY <1>2, <1>3, <1>4, <1>5, <1>9
<1>10. OnlyTranscripts'
  BY <1>7, <1>8, <1>9 DEF Next
<1> QED BY <1>10, NextReady, AsksStay DEF RunInv, ReadyInv

-----------------------------------------------------------------------------
(* The parts of the shape of a database that RunInv had no need of. *)
DbFull(d) ==
  /\ d.count = [j \in Job |-> d.count[j]]
  /\ d.segs = [v \in Version |-> d.segs[v]]
  /\ d.copy = [v \in Version |-> d.copy[v]]

View(d, j) == <<d.status[j], d.count[j], d.segs[j], d.copy[j]>>

Fresh    == {"none", "creating", "new", "early", "start", "prepare"}
Hearing  == {"drive", "tick"}
Stages   == Fresh \cup Hearing \cup {"drain", "shielded", "final", "ended"}
Statuses == {"queued", "running", "done", "error", "cancelled"}
Erasing  == {"segs", "copy", "rows"}

Whole(t) == t.fed = MaxUtts /\ t.pend = <<>> /\ t.closed = "clean"

(* The events on a job's bus are newer than what is stored, and in order. *)
InOrder(t, stored) ==
  /\ \A i \in 1 .. Len(t.pend) : t.pend[i] \in 1 .. t.fed
  /\ \A i, k \in 1 .. Len(t.pend) : i < k => t.pend[i] < t.pend[k]
  /\ \A u \in stored : u \in 1 .. t.fed /\ \A i \in 1 .. Len(t.pend) : u < t.pend[i]

(* A task counts what it stored for as long as it is not cut, and is done only
   when the recording was handed over and its bus emptied. *)
TaskGood(t, stored) ==
  /\ t.pc \in Stages /\ t.status \in Statuses /\ t.closed \in {"no", "clean", "exhausted"}
  /\ t.fed \in 0 .. MaxUtts /\ t.count \in Nat /\ t.pend \in Seq(Nat)
  /\ t.pc \in Fresh => /\ t.fed = 0 /\ t.pend = <<>> /\ t.count = 0 /\ t.closed = "no"
                       /\ stored = {}
                       /\ t.pc # "early" => ~t.stopped
  /\ t.pc \in Hearing => /\ InOrder(t, stored) /\ IsFiniteSet(stored)
                         /\ t.count = Cardinality(stored)
                         /\ t.closed = "clean" => t.stopped \/ t.fed = MaxUtts
  /\ t.pc \in Hearing \cup {"start", "prepare"} => t.status = "running"
  /\ t.status = "done" => /\ t.pc \in {"final", "ended"} /\ Whole(t)
                          /\ t.pc = "final" => t.count = Cardinality(stored)
  /\ t.status = "cancelled" => t.pc \in {"early", "shielded", "final", "ended"}

(* While the process is up, a run's row says so and its count is right; and as
   long as it has never gone down, so are the verdicts of those that broke off. *)
UpGood(t, status, count, stored, calm, deleting) ==
  /\ t.pc \notin {"none", "ended"} => status \in Cancellable /\ t.count = Cardinality(stored)
  /\ calm =>
       /\ t.stopped => t.fed < MaxUtts /\ (t.closed = "clean" \/ t.pc \in {"early", "ended"})
       /\ t.status = "cancelled" => t.fed < MaxUtts
       /\ status = "cancelled" => t.fed < MaxUtts
       /\ status \in {"cancelled", "error"} => count = Cardinality(stored) \/ deleting

(* A row is done or deleted only when its run is over, and tells its rows. *)
RowGood(status, count, stored, copy, t, calm, deleting) ==
  /\ copy = NoCopy
  /\ status \in {"done", "deleted"} => t.pc = "ended"
  /\ status = "done" =>
       Whole(t) /\ (count = Cardinality(stored) \/ deleting \/ (~calm /\ stored = {}))
  /\ status = "deleted" \/ deleting => stored = {}
  /\ t.pc = "none" => status = "none" /\ stored = {}

Up(t, d, j)  == UpGood(t, d.status[j], d.count[j], d.segs[j], crashes = 0, Deleting(j))
Has(t, d, j) == RowGood(d.status[j], d.count[j], d.segs[j], d.copy[j], t, crashes = 0, Deleting(j))

JobGood(j) ==
  /\ TaskGood(task[j], db.segs[j])
  /\ up = "up" => Up(task[j], db, j)
  /\ Has(task[j], db, j) /\ Has(task[j], disk, j)
  /\ born < j => task[j].pc = "none"

(* What the requests have in hand. *)
ClientsGood ==
  /\ \A c \in Clients : at[c] = "commit" => about[c].v \in Job /\ task[about[c].v].pc = "creating"
  /\ \A c, d \in Clients :
       at[c] = "commit" /\ at[d] = "commit" /\ about[c].v = about[d].v => c = d
  /\ \A c \in Clients : at[c] \in Erasing => about[c].v \in Job /\ task[about[c].v].pc = "ended"
  /\ \A c \in Clients : at[c] = "cancel" => about[c].run
  /\ up # "up" => \A c \in Clients : at[c] = "idle"

JobsInv == /\ DbFull(db) /\ DbFull(disk) /\ ClientsGood
           /\ crashes \in Nat /\ (up = "down" => crashes > 0)
           /\ \A j \in Job : JobGood(j)

-----------------------------------------------------------------------------
(* The writes of a run, as they are seen from each job. *)

Elsewhere(d, j) == DbFull(d) /\ \A k \in Job \ {j} : View(d, k) = View(db, k)

LEMMA Views ==
  ASSUME Shaped, DbFull(db), NEW j \in Job, NEW u
  PROVE  /\ Elsewhere(Row(j), j) /\ Elsewhere(Added(j, u), j) /\ Elsewhere(db, j)
         /\ Row(j).segs[j] = db.segs[j] /\ Row(j).copy[j] = db.copy[j]
         /\ Exists(j) => Row(j).status[j] = task[j].status /\ Row(j).count[j] = task[j].count
         /\ ~Exists(j) => Row(j) = db
         /\ Added(j, u).segs[j] = db.segs[j] \cup {u}
         /\ Added(j, u).status[j] = db.status[j] /\ Added(j, u).count[j] = db.count[j]
         /\ Added(j, u).copy[j] = db.copy[j]
<1>1. DbShaped(db) /\ Job \subseteq Version
  BY DEF Shaped, Version
<1>2. /\ Elsewhere(Row(j), j)
      /\ Row(j).segs[j] = db.segs[j] /\ Row(j).copy[j] = db.copy[j]
      /\ Exists(j) => Row(j).status[j] = task[j].status /\ Row(j).count[j] = task[j].count
      /\ ~Exists(j) => Row(j) = db
  BY <1>1 DEF Row, Exists, DbShaped, DbFull, Elsewhere, View
<1>3. /\ Elsewhere(Added(j, u), j)
      /\ Added(j, u).segs[j] = db.segs[j] \cup {u}
      /\ Added(j, u).status[j] = db.status[j] /\ Added(j, u).count[j] = db.count[j]
      /\ Added(j, u).copy[j] = db.copy[j]
  BY <1>1 DEF Added, DbShaped, DbFull, Elsewhere, View
<1> QED
  BY <1>2, <1>3 DEF Elsewhere

(* A run is neither unborn nor being launched, and nobody erases its version. *)
LEMMA NobodyErases ==
  ASSUME JobsInv, NEW j \in Job, task[j].pc # "ended"
  PROVE  ~Deleting(j) /\ \A c \in Clients : at[c] \in Erasing => about[c].v # j
  BY DEF JobsInv, ClientsGood, Deleting, Erasing

(* A step of run j keeps the invariant when it keeps what is said of j. *)
LEMMA RunKeeps ==
  ASSUME RunInv, JobsInv, NEW j \in Job, NEW t, task' = [task EXCEPT ![j] = t],
         UNCHANGED <<up, crashes, at, about, born, spec>>,
         Elsewhere(db', j), Elsewhere(disk', j) \/ disk' = disk,
         task[j].pc \notin {"none", "creating", "ended"},
         TaskGood(t, db'.segs[j]), up = "up" => Up(t, db', j),
         Has(t, db', j), Has(t, disk', j)
  PROVE  JobsInv'
<1>1. task'[j] = t /\ \A k \in Job \ {j} : task'[k] = task[k]
  BY DEF RunInv, ReadyInv, Shaped
<1>2. \A k \in Job : Deleting(k)' = Deleting(k)
  BY DEF Deleting
<1>3. JobGood(j)'
  BY <1>1, <1>2 DEF JobGood, JobsInv, Up, Has
<1>4. ASSUME NEW k \in Job \ {j} PROVE JobGood(k)'
  <2>1. View(db', k) = View(db, k) /\ (View(disk', k) = View(db, k) \/ View(disk', k) = View(disk, k))
    BY DEF Elsewhere
  <2>2. JobGood(k)
    BY DEF JobsInv
  <2> QED
    BY <1>1, <1>2, <2>1, <2>2 DEF JobGood, Up, Has, View
<1>5. ClientsGood'
  BY <1>1 DEF JobsInv, ClientsGood, Erasing
<1>6. DbFull(db)' /\ DbFull(disk)'
  BY DEF Elsewhere, JobsInv, DbFull
<1> QED
  BY <1>3, <1>4, <1>5, <1>6 DEF JobsInv
-----------------------------------------------------------------------------
(* The steps of a run. *)

Under(j) == task[j].pc \notin {"none", "creating", "ended"}

(* What the fields of a task are that a proof about it needs. *)
Fields(t, pc, status, count, stopped, fed, pend, closed) ==
  /\ t.pc = pc /\ t.status = status /\ t.count = count /\ t.stopped = stopped
  /\ t.fed = fed /\ t.pend = pend /\ t.closed = closed

LEMMA UnderWay ==
  ASSUME RunInv, JobsInv, NEW j \in Job, Under(j)
  PROVE  /\ TaskGood(task[j], db.segs[j]) /\ (up = "up" => Up(task[j], db, j))
         /\ (up = "up" => Exists(j)) /\ ~Deleting(j)
         /\ db.status[j] \notin {"done", "deleted"} /\ disk.status[j] \notin {"done", "deleted"}
         /\ db.copy[j] = NoCopy /\ disk.copy[j] = NoCopy
         /\ TaskShaped(task[j]) /\ spec[j].op = "transcribe"
         /\ up # "down"
<1>1. JobGood(j)
  BY DEF JobsInv
<1>2. ~Deleting(j)
  BY NobodyErases DEF Under
<1>3. TaskShaped(task[j]) /\ spec[j].op = "transcribe" /\ up # "down"
  BY DEF RunInv, ReadyInv, Shaped, OnlyTranscripts, Quiet, Under
<1>4. up = "up" => Exists(j)
  BY <1>1 DEF JobGood, Up, UpGood, Under, Exists, Cancellable
<1> QED
  BY <1>1, <1>2, <1>3, <1>4 DEF JobGood, Has, RowGood, Under

(* A row that is neither done nor deleted promises nothing. *)
LEMMA OpenRow ==
  ASSUME NEW j \in Job, NEW t, NEW d, ~Deleting(j), d.copy[j] = NoCopy,
         d.status[j] \notin {"done", "deleted"}, t.pc # "none"
  PROVE  Has(t, d, j)
  BY DEF Has, RowGood

LEMMA MovesOnly ==
  ASSUME RunInv, JobsInv, NEW j \in Job, Under(j), NEW t, task' = [task EXCEPT ![j] = t],
         TaskFrame \/ UNCHANGED <<up, crashes, at, about, born, spec>>, UNCHANGED <<db, disk>>,
         t.pc # "none", TaskGood(t, db.segs[j]), up = "up" => Up(t, db, j)
  PROVE  JobsInv'
<1>1. Elsewhere(db, j)
  BY Views DEF RunInv, ReadyInv, JobsInv
<1>2. Has(t, db, j) /\ Has(t, disk, j)
  BY UnderWay, OpenRow
<1>3. UNCHANGED <<up, crashes, at, about, born, spec>>
  BY DEF TaskFrame
<1>4. Has(t, db', j) /\ Has(t, disk', j) /\ TaskGood(t, db'.segs[j]) /\ Elsewhere(db', j)
      /\ (up = "up" => Up(t, db', j))
  BY <1>1, <1>2
<1> QED
  BY <1>3, <1>4, RunKeeps DEF Under

(* A run that writes its row, whether or not the commit follows. *)
LEMMA WritesRow ==
  ASSUME RunInv, JobsInv, NEW j \in Job, Under(j), NEW t, task' = [task EXCEPT ![j] = t],
         TaskFrame \/ UNCHANGED <<up, crashes, at, about, born, spec>>,
         Commit(Row(j)) \/ Torn(Row(j)),
         t.pc # "none", TaskGood(t, db.segs[j]),
         up = "up" => UpGood(t, task[j].status, task[j].count, db.segs[j], crashes = 0, FALSE),
         task[j].status = "done" =>
           t.pc = "ended" /\ Whole(t) /\ task[j].count = Cardinality(db.segs[j])
  PROVE  JobsInv'
<1> DEFINE d == Row(j)
<1>1. /\ Elsewhere(d, j) /\ d.segs[j] = db.segs[j] /\ d.copy[j] = db.copy[j]
      /\ Exists(j) => d.status[j] = task[j].status /\ d.count[j] = task[j].count
      /\ ~Exists(j) => d = db
  BY Views DEF RunInv, ReadyInv, JobsInv
<1>2. /\ ~Deleting(j) /\ (up = "up" => Exists(j)) /\ db.copy[j] = NoCopy
      /\ db.status[j] \notin {"done", "deleted"} /\ task[j].status # "deleted"
  BY UnderWay DEF TaskGood, Statuses
<1>3. Has(t, disk, j) /\ Has(t, db, j)
  BY UnderWay, OpenRow
<1>4. Has(t, d, j)
  BY <1>1, <1>2, <1>3 DEF Has, RowGood
<1>5. up = "up" => Up(t, d, j)
  BY <1>1, <1>2 DEF Up, UpGood
<1>6. db' = d /\ (disk' = d \/ disk' = disk) /\ UNCHANGED <<up, crashes, at, about, born, spec>>
  BY DEF Commit, Torn, TaskFrame
<1> HIDE DEF d
<1>7. /\ Elsewhere(db', j) /\ (Elsewhere(disk', j) \/ disk' = disk)
      /\ TaskGood(t, db'.segs[j]) /\ (up = "up" => Up(t, db', j))
      /\ Has(t, db', j) /\ Has(t, disk', j)
  BY <1>1, <1>3, <1>4, <1>5, <1>6
<1> QED
  BY <1>6, <1>7, RunKeeps DEF Under

LEMMA EndingKeeps ==
  ASSUME RunInv, JobsInv, NEW j \in Job, Ending(j)
  PROVE  JobsInv'
<1>1. Under(j) /\ MaxUtts \in Nat \ {0}
  BY ConstantsAssumption DEF Ending, RunBegins, RunNever, RunStarts, Shields, Finalises, Under
<1>2. /\ TaskGood(task[j], db.segs[j]) /\ (up = "up" => Up(task[j], db, j))
      /\ TaskShaped(task[j]) /\ ~Deleting(j)
  BY <1>1, UnderWay
<1>3. CASE RunBegins(j)
  <2> DEFINE t == [task[j] EXCEPT !.pc = IF task[j].asked THEN "early" ELSE "start",
                                  !.status = IF task[j].asked THEN "cancelled" ELSE "running",
                                  !.stopped = task[j].asked]
  <2>1. Fields(t, IF task[j].asked THEN "early" ELSE "start",
               IF task[j].asked THEN "cancelled" ELSE "running", task[j].count,
               task[j].asked, task[j].fed, task[j].pend, task[j].closed)
    BY <1>2 DEF TaskShaped, TaskFields, Fields
  <2>2. task' = [task EXCEPT ![j] = t] /\ TaskFrame /\ UNCHANGED <<db, disk>>
        /\ task[j].pc = "new"
    BY <1>3 DEF RunBegins
  <2> HIDE DEF t
  <2>3. TaskGood(t, db.segs[j])
    BY <1>1, <1>2, <2>1, <2>2 DEF TaskGood, Fields, Fresh, Hearing, Stages, Statuses
  <2>4. up = "up" => Up(t, db, j)
    BY <1>1, <1>2, <2>1, <2>2 DEF TaskGood, Up, UpGood, Fields, Fresh, Cancellable
  <2>5. t.pc # "none"
    BY <2>1 DEF Fields
  <2> QED
    BY <1>1, <2>2, <2>3, <2>4, <2>5, MovesOnly
<1>4. CASE RunNever(j) \/ Shields(j) \/ Finalises(j)
  <2> DEFINE t == [task[j] EXCEPT !.pc = "ended"]
  <2>1. Fields(t, "ended", task[j].status, task[j].count, task[j].stopped, task[j].fed,
               task[j].pend, task[j].closed)
    BY <1>2 DEF TaskShaped, TaskFields, Fields
  <2>2. task' = [task EXCEPT ![j] = t] /\ TaskFrame /\ Commit(Row(j))
        /\ task[j].pc \in {"early", "shielded", "final"}
    BY <1>4 DEF RunNever, Shields, Finalises, Goes
  <2> HIDE DEF t
  <2>3. TaskGood(t, db.segs[j])
    BY <1>1, <1>2, <2>1, <2>2 DEF TaskGood, Fields, Fresh, Hearing, Stages, Whole
  <2>4. up = "up" => UpGood(t, task[j].status, task[j].count, db.segs[j], crashes = 0, FALSE)
    BY <1>2, <2>1, <2>2 DEF Up, UpGood, Fields
  <2>5. task[j].status = "done" =>
          t.pc = "ended" /\ Whole(t) /\ task[j].count = Cardinality(db.segs[j])
    BY <1>2, <2>1, <2>2 DEF TaskGood, Whole, Fields
  <2>6. t.pc # "none"
    BY <2>1 DEF Fields
  <2> QED
    BY <1>1, <2>2, <2>3, <2>4, <2>5, <2>6, WritesRow
<1>5. CASE RunStarts(j)
  <2> DEFINE t == [task[j] EXCEPT !.pc = "prepare"]
  <2>1. Fields(t, "prepare", task[j].status, task[j].count, task[j].stopped, task[j].fed,
               task[j].pend, task[j].closed)
    BY <1>2 DEF TaskShaped, TaskFields, Fields
  <2>2. task' = [task EXCEPT ![j] = t] /\ TaskFrame /\ Commit(Row(j)) /\ task[j].pc = "start"
    BY <1>5 DEF RunStarts, Goes
  <2> HIDE DEF t
  <2>3. TaskGood(t, db.segs[j]) /\ task[j].status = "running"
    BY <1>1, <1>2, <2>1, <2>2 DEF TaskGood, Fields, Fresh, Hearing, Stages, Whole
  <2>4. up = "up" => UpGood(t, task[j].status, task[j].count, db.segs[j], crashes = 0, FALSE)
    BY <1>2, <2>1, <2>2, <2>3 DEF TaskGood, Fresh, Up, UpGood, Fields, Cancellable
  <2>5. t.pc # "none"
    BY <2>1 DEF Fields
  <2> QED
    BY <1>1, <2>2, <2>3, <2>4, <2>5, WritesRow
<1> QED
  BY <1>3, <1>4, <1>5 DEF Ending
(* What a bus holds stays in order when an event is added and when one is stored. *)
LEMMA Heard ==
  ASSUME NEW t, NEW u, NEW stored, InOrder(t, stored), t.pend \in Seq(Nat), t.fed \in Nat,
         u.fed = t.fed + 1, u.pend = t.pend \/ u.pend = Append(t.pend, t.fed + 1)
  PROVE  InOrder(u, stored) /\ u.pend \in Seq(Nat)
<1>1. CASE u.pend = t.pend
  BY <1>1 DEF InOrder
<1>2. CASE u.pend = Append(t.pend, t.fed + 1)
  <2>1. /\ u.pend \in Seq(Nat) /\ Len(u.pend) = Len(t.pend) + 1 /\ Len(t.pend) \in Nat
        /\ \A i \in 1 .. Len(t.pend) : u.pend[i] = t.pend[i]
        /\ u.pend[Len(t.pend) + 1] = t.fed + 1
    BY <1>2
  <2>2. \A i \in 1 .. Len(u.pend) : i \in 1 .. Len(t.pend) \/ i = Len(t.pend) + 1
    BY <2>1
  <2>3. \A i \in 1 .. Len(t.pend) : t.pend[i] \in 1 .. t.fed /\ t.pend[i] < t.fed + 1
    BY DEF InOrder
  <2>4. ASSUME NEW i \in 1 .. Len(u.pend) PROVE u.pend[i] \in 1 .. u.fed
    <3>1. CASE i \in 1 .. Len(t.pend)
      <4>1. u.pend[i] = t.pend[i] /\ t.pend[i] \in 1 .. t.fed
        BY <2>1, <2>3, <3>1
      <4> QED
        BY <4>1
    <3>2. CASE i = Len(t.pend) + 1
      BY <2>1, <3>2
    <3> QED
      BY <2>2, <3>1, <3>2
  <2>5. \A i, k \in 1 .. Len(u.pend) : i < k => i \in 1 .. Len(t.pend)
    BY <2>1, <2>2
  <2>6. ASSUME NEW i \in 1 .. Len(u.pend), NEW k \in 1 .. Len(u.pend), i < k
        PROVE  u.pend[i] < u.pend[k]
    <3>1. i \in 1 .. Len(t.pend) /\ u.pend[i] = t.pend[i]
      BY <2>1, <2>5, <2>6
    <3>2. CASE k \in 1 .. Len(t.pend)
      BY <2>1, <2>6, <3>1, <3>2 DEF InOrder
    <3>3. CASE k = Len(t.pend) + 1
      BY <2>1, <2>3, <3>1, <3>3
    <3> QED
      BY <2>2, <3>2, <3>3
  <2>7. ASSUME NEW v \in stored
        PROVE  v \in 1 .. u.fed /\ \A i \in 1 .. Len(u.pend) : v < u.pend[i]
    <3>1. v \in 1 .. t.fed /\ \A i \in 1 .. Len(t.pend) : v < t.pend[i]
      BY <2>7 DEF InOrder
    <3>2. v \in 1 .. u.fed /\ v < t.fed + 1
      BY <3>1
    <3>3. ASSUME NEW i \in 1 .. Len(u.pend) PROVE v < u.pend[i]
      <4>1. CASE i \in 1 .. Len(t.pend)
        BY <2>1, <3>1, <4>1
      <4>2. CASE i = Len(t.pend) + 1
        BY <2>1, <3>2, <4>2
      <4> QED
        BY <2>2, <4>1, <4>2
    <3> QED
      BY <3>2, <3>3
  <2> QED
    BY <2>1, <2>4, <2>6, <2>7 DEF InOrder
<1> QED
  BY <1>1, <1>2

LEMMA Stored ==
  ASSUME NEW t, NEW u, NEW stored, InOrder(t, stored), t.pend \in Seq(Nat), t.pend # <<>>,
         t.fed \in Nat, u.fed = t.fed, u.pend = Tail(t.pend), IsFiniteSet(stored)
  PROVE  /\ InOrder(u, stored \cup {Head(t.pend)}) /\ u.pend \in Seq(Nat)
         /\ IsFiniteSet(stored \cup {Head(t.pend)})
         /\ Cardinality(stored \cup {Head(t.pend)}) = Cardinality(stored) + 1
         /\ Cardinality(stored) \in Nat
<1>1. /\ Len(t.pend) \in Nat /\ Len(t.pend) > 0 /\ Head(t.pend) = t.pend[1]
      /\ u.pend \in Seq(Nat) /\ Len(u.pend) = Len(t.pend) - 1
      /\ \A i \in 1 .. Len(u.pend) : u.pend[i] = t.pend[i + 1]
  BY DEF InOrder
<1>2. Head(t.pend) \notin stored
  BY <1>1 DEF InOrder
<1>3. InOrder(u, stored \cup {Head(t.pend)})
  <2>1. \A i \in 1 .. Len(u.pend) : i + 1 \in 1 .. Len(t.pend) /\ 1 < i + 1
    BY <1>1
  <2>2. 1 \in 1 .. Len(t.pend)
    BY <1>1
  <2>3. \A i \in 1 .. Len(u.pend) : u.pend[i] \in 1 .. u.fed /\ t.pend[1] < u.pend[i]
    BY <1>1, <2>1, <2>2 DEF InOrder
  <2>4. ASSUME NEW i \in 1 .. Len(u.pend), NEW k \in 1 .. Len(u.pend), i < k
        PROVE  u.pend[i] < u.pend[k]
    <3>1. i + 1 \in 1 .. Len(t.pend) /\ k + 1 \in 1 .. Len(t.pend) /\ i + 1 < k + 1
      BY <2>1, <2>4
    <3>2. t.pend[i + 1] < t.pend[k + 1]
      BY <3>1 DEF InOrder
    <3> QED
      BY <1>1, <3>2
  <2>5. ASSUME NEW v \in stored
        PROVE  v \in 1 .. u.fed /\ \A i \in 1 .. Len(u.pend) : v < u.pend[i]
    <3>1. v \in 1 .. t.fed /\ \A i \in 1 .. Len(t.pend) : v < t.pend[i]
      BY <2>5 DEF InOrder
    <3> QED
      BY <1>1, <2>1, <3>1
  <2>6. t.pend[1] \in 1 .. u.fed
    BY <2>2 DEF InOrder
  <2> QED
    BY <1>1, <2>3, <2>4, <2>5, <2>6 DEF InOrder
<1> QED
  BY <1>1, <1>2, <1>3, FS_AddElement, FS_CardinalityType

LEMMA RouterKeeps ==
  ASSUME RunInv, JobsInv, NEW j \in Job, Router(j) \/ Breaks(j)
  PROVE  JobsInv'
<1>1. Under(j) /\ MaxUtts \in Nat \ {0} /\ ~CopyFails(j)
  <2>1. Under(j)
    BY DEF Router, Breaks, Hears, FeedEnds, FeedExhausted, Feeding, PrepareFails,
       StoreFails, CopyFails, Under
  <2>2. task[j].pc \in Stages
    BY <2>1, UnderWay DEF TaskGood
  <2> QED
    BY <2>1, <2>2, ConstantsAssumption DEF CopyFails, Stages, Fresh, Hearing
<1>2. /\ TaskGood(task[j], db.segs[j]) /\ (up = "up" => Up(task[j], db, j))
      /\ TaskShaped(task[j])
  BY <1>1, UnderWay
<1>3. ASSUME NEW t, NEW pend, NEW stopped, NEW closed, NEW fed,
             Feeding(j), task' = [task EXCEPT ![j] = t], TaskFrame, UNCHANGED <<db, disk>>,
             Fields(t, task[j].pc, task[j].status, task[j].count, stopped, fed, pend, closed),
             fed \in 0 .. MaxUtts, closed \in {"no", "clean", "exhausted"},
             closed = "clean" => stopped \/ fed = MaxUtts,
             stopped => stopped = task[j].stopped \/ (closed = "clean" /\ fed < MaxUtts),
             task[j].pc \in Hearing => InOrder(t, db.segs[j]),
             pend \in Seq(Nat)
      PROVE  JobsInv'
  <2>1. task[j].pc \in Hearing \cup {"drain"} /\ task[j].closed = "no"
    BY <1>3 DEF Feeding, Hearing
  <2>2. TaskGood(t, db.segs[j]) /\ task[j].status \notin {"done", "cancelled"}
    BY <1>2, <1>3, <2>1 DEF TaskGood, Fields, Hearing, Fresh, Stages
  <2>3. up = "up" => Up(t, db, j)
    BY <1>2, <1>3, <2>1, <2>2 DEF Up, UpGood, Fields, Hearing, Cancellable
  <2>4. t.pc # "none"
    BY <1>3, <2>1 DEF Fields, Hearing
  <2> QED
    BY <1>1, <1>3, <2>2, <2>3, <2>4, MovesOnly
<1>4. Feeding(j) => task[j].pc \in Hearing \cup {"drain"} /\ task[j].closed = "no"
                    /\ task[j].fed \in 0 .. MaxUtts /\ task[j].pend \in Seq(Nat)
                    /\ (task[j].pc \in Hearing => InOrder(task[j], db.segs[j]))
  BY <1>2 DEF Feeding, Hearing, TaskGood
<1>5. CASE Hears(j)
  <2> DEFINE heard == [task[j] EXCEPT !.fed = task[j].fed + 1,
                                      !.pend = Append(task[j].pend, task[j].fed + 1)]
             silent == [task[j] EXCEPT !.fed = task[j].fed + 1]
             dropped == [task[j] EXCEPT !.fed = task[j].fed + 1, !.dropped = TRUE]
  <2>1. \A t \in {heard, silent, dropped} : \E pend \in {task[j].pend, Append(task[j].pend, task[j].fed + 1)} :
          Fields(t, task[j].pc, task[j].status, task[j].count, task[j].stopped,
                 task[j].fed + 1, pend, task[j].closed)
    BY <1>2 DEF TaskShaped, TaskFields, Fields
  <2>2. PICK t \in {heard, silent, dropped} : task' = [task EXCEPT ![j] = t]
    BY <1>5 DEF Hears
  <2> HIDE DEF heard, silent, dropped
  <2>3. PICK pend \in {task[j].pend, Append(task[j].pend, task[j].fed + 1)} :
          Fields(t, task[j].pc, task[j].status, task[j].count, task[j].stopped,
                 task[j].fed + 1, pend, task[j].closed)
    BY <2>1
  <2>4. Feeding(j) /\ TaskFrame /\ UNCHANGED <<db, disk>> /\ task[j].fed < MaxUtts
    BY <1>5 DEF Hears
  <2>5. task[j].fed + 1 \in 0 .. MaxUtts /\ task[j].fed \in Nat /\ pend \in Seq(Nat)
    <3>1. task[j].fed + 1 \in 0 .. MaxUtts /\ task[j].fed \in Nat /\ task[j].fed + 1 \in Nat
      BY <1>1, <1>4, <2>4
    <3>2. Append(task[j].pend, task[j].fed + 1) \in Seq(Nat)
      BY <1>4, <2>4, <3>1
    <3> QED
      BY <1>4, <2>4, <3>1, <3>2
  <2>6. task[j].pc \in Hearing => InOrder(t, db.segs[j])
    BY <1>4, <2>3, <2>4, <2>5, Heard DEF Fields
  <2> QED
    BY <1>3, <1>4, <2>2, <2>3, <2>4, <2>5, <2>6
<1>6. CASE FeedEnds(j)
  <2> DEFINE stopped == task[j].asked /\ task[j].fed < MaxUtts
             t == [task[j] EXCEPT !.closed = "clean", !.stopped = stopped]
  <2>1. Fields(t, task[j].pc, task[j].status, task[j].count, stopped, task[j].fed,
               task[j].pend, "clean")
    BY <1>2 DEF TaskShaped, TaskFields, Fields
  <2>2. /\ task' = [task EXCEPT ![j] = t] /\ Feeding(j) /\ TaskFrame /\ UNCHANGED <<db, disk>>
        /\ task[j].asked \/ task[j].fed = MaxUtts
    BY <1>6 DEF FeedEnds
  <2> HIDE DEF t
  <2>3. stopped \/ task[j].fed = MaxUtts
    BY <1>1, <1>4, <2>2
  <2>4. task[j].pc \in Hearing => InOrder(t, db.segs[j])
    BY <1>4, <2>1, <2>2 DEF InOrder, Fields
  <2>5. stopped => task[j].fed < MaxUtts
    OBVIOUS
  <2> HIDE DEF stopped
  <2> QED
    BY <1>3, <1>4, <2>1, <2>2, <2>3, <2>4, <2>5
<1>7. CASE FeedExhausted(j)
  <2> DEFINE t == [task[j] EXCEPT !.fed = task[j].fed + 1, !.closed = "exhausted"]
  <2>1. Fields(t, task[j].pc, task[j].status, task[j].count, task[j].stopped, task[j].fed + 1,
               task[j].pend, "exhausted")
    BY <1>2 DEF TaskShaped, TaskFields, Fields
  <2>2. /\ task' = [task EXCEPT ![j] = t] /\ Feeding(j) /\ TaskFrame /\ UNCHANGED <<db, disk>>
        /\ task[j].fed < MaxUtts
    BY <1>7 DEF FeedExhausted
  <2> HIDE DEF t
  <2>3. task[j].fed + 1 \in 0 .. MaxUtts /\ task[j].fed \in Nat
    BY <1>1, <1>4, <2>2
  <2>4. task[j].pc \in Hearing => InOrder(t, db.segs[j])
    BY <1>4, <2>1, <2>2, <2>3, Heard DEF Fields
  <2>5. task[j].pend \in Seq(Nat)
    BY <1>4, <2>2
  <2> DEFINE closed == "exhausted"
  <2>6. closed \in {"no", "clean", "exhausted"} /\ closed # "clean"
    OBVIOUS
  <2>7. Fields(t, task[j].pc, task[j].status, task[j].count, task[j].stopped, task[j].fed + 1,
               task[j].pend, closed)
    BY <2>1
  <2> HIDE DEF closed
  <2> QED
    BY <1>3, <2>2, <2>3, <2>4, <2>5, <2>6, <2>7
<1>8. CASE PrepareFails(j) \/ StoreFails(j)
  <2> DEFINE l == IF task[j].pc = "prepare" THEN "final" ELSE "drain"
             t == [task[j] EXCEPT !.pc = l, !.status = "error"]
  <2>1. Fields(t, l, "error", task[j].count, task[j].stopped, task[j].fed, task[j].pend,
               task[j].closed)
    BY <1>2 DEF TaskShaped, TaskFields, Fields
  <2>2. /\ task' = [task EXCEPT ![j] = t] /\ TaskFrame /\ UNCHANGED <<db, disk>>
        /\ task[j].pc \in {"prepare", "drive"}
    BY <1>8 DEF PrepareFails, StoreFails, Ends
  <2> HIDE DEF t
  <2>3. TaskGood(t, db.segs[j])
    BY <1>2, <2>1, <2>2 DEF TaskGood, Fields, Hearing, Fresh, Stages, Statuses
  <2>4. up = "up" => Up(t, db, j)
    BY <1>2, <2>1, <2>2 DEF Up, UpGood, Fields, Cancellable
  <2>5. t.pc # "none"
    BY <2>1 DEF Fields
  <2> QED
    BY <1>1, <2>2, <2>3, <2>4, <2>5, MovesOnly
<1> QED
  BY <1>1, <1>5, <1>6, <1>7, <1>8 DEF Router, Breaks
LEMMA DrivingKeeps ==
  ASSUME RunInv, JobsInv, NEW j \in Job, Driving(j)
  PROVE  JobsInv'
<1>1. Under(j) /\ MaxUtts \in Nat \ {0}
  BY ConstantsAssumption DEF Driving, Prepared, Stores, Ticks, DriveEnds, Drained, Under
<1>2. /\ TaskGood(task[j], db.segs[j]) /\ (up = "up" => Up(task[j], db, j) /\ Exists(j))
      /\ TaskShaped(task[j]) /\ spec[j].op = "transcribe"
  BY <1>1, UnderWay
<1>3. CASE Prepared(j)
  <2> DEFINE t == [task[j] EXCEPT !.pc = "drive"]
  <2>1. Fields(t, "drive", task[j].status, task[j].count, task[j].stopped, task[j].fed,
               task[j].pend, task[j].closed)
    BY <1>2 DEF TaskShaped, TaskFields, Fields
  <2>2. /\ task' = [task EXCEPT ![j] = t] /\ TaskFrame /\ UNCHANGED <<db, disk>>
        /\ task[j].pc = "prepare"
    BY <1>3 DEF Prepared, Goes
  <2> HIDE DEF t
  <2>3. InOrder(t, db.segs[j]) /\ IsFiniteSet(db.segs[j]) /\ Cardinality(db.segs[j]) = 0
    <3>1. t.pend = <<>> /\ db.segs[j] = {} /\ Len(<<>>) = 0
      BY <1>2, <2>1, <2>2 DEF TaskGood, Fresh, Fields
    <3>2. \A i \in 1 .. 0 : FALSE
      OBVIOUS
    <3>3. InOrder(t, {})
      BY <3>1, <3>2 DEF InOrder
    <3> QED
      BY <3>1, <3>3, FS_EmptySet
  <2>4. TaskGood(t, db.segs[j])
    BY <1>2, <2>1, <2>2, <2>3 DEF TaskGood, Fields, Hearing, Fresh, Stages, Statuses
  <2>5. up = "up" => Up(t, db, j)
    BY <1>2, <2>1, <2>2, <2>3 DEF TaskGood, Fresh, Up, UpGood, Fields, Cancellable
  <2>6. t.pc # "none"
    BY <2>1 DEF Fields
  <2> QED
    BY <1>1, <2>2, <2>4, <2>5, <2>6, MovesOnly
<1>4. CASE Stores(j)
  <2> DEFINE u == Head(task[j].pend)
             t == [task[j] EXCEPT !.pc = "tick", !.pend = Tail(task[j].pend),
                                  !.count = task[j].count + 1]
  <2>1. Fields(t, "tick", task[j].status, task[j].count + 1, task[j].stopped, task[j].fed,
               Tail(task[j].pend), task[j].closed)
    BY <1>2 DEF TaskShaped, TaskFields, Fields
  <2>2. /\ task' = [task EXCEPT ![j] = t] /\ TaskFrame /\ Commit(Added(j, u))
        /\ task[j].pc = "drive" /\ task[j].pend # <<>>
    BY <1>4 DEF Stores
  <2>3. /\ InOrder(task[j], db.segs[j]) /\ IsFiniteSet(db.segs[j]) /\ task[j].pend \in Seq(Nat)
        /\ task[j].count = Cardinality(db.segs[j]) /\ task[j].fed \in Nat
    BY <1>1, <1>2, <2>2 DEF TaskGood, Hearing
  <2>4. t.fed = task[j].fed /\ t.pend = Tail(task[j].pend)
    BY <2>1 DEF Fields
  <2> HIDE DEF t
  <2>5. /\ InOrder(t, db.segs[j] \cup {u}) /\ IsFiniteSet(db.segs[j] \cup {u})
        /\ t.pend \in Seq(Nat) /\ t.count = Cardinality(db.segs[j] \cup {u}) /\ t.count \in Nat
    <3>1. /\ InOrder(t, db.segs[j] \cup {u}) /\ t.pend \in Seq(Nat)
          /\ IsFiniteSet(db.segs[j] \cup {u})
          /\ Cardinality(db.segs[j] \cup {u}) = Cardinality(db.segs[j]) + 1
          /\ Cardinality(db.segs[j]) \in Nat
      BY <2>2, <2>3, <2>4, Stored
    <3>2. t.count = task[j].count + 1
      BY <2>1 DEF Fields
    <3> HIDE DEF u
    <3> QED
      BY <2>3, <3>1, <3>2
  <2> HIDE DEF u
  <2>6. /\ Elsewhere(Added(j, u), j) /\ Added(j, u).segs[j] = db.segs[j] \cup {u}
        /\ Added(j, u).status[j] = db.status[j] /\ Added(j, u).copy[j] = db.copy[j]
        /\ db' = Added(j, u) /\ disk' = Added(j, u)
    BY <2>2, Views DEF RunInv, ReadyInv, JobsInv, Commit
  <2>7. TaskGood(t, db'.segs[j])
    <3>1. TaskGood(t, db.segs[j] \cup {u})
      BY <1>2, <2>1, <2>2, <2>4, <2>5 DEF TaskGood, Fields, Hearing, Fresh, Stages
    <3> QED
      BY <2>6, <3>1
  <2>8. up = "up" => Up(t, db', j)
    <3>1. t.pc = "tick" /\ t.stopped = task[j].stopped /\ t.closed = task[j].closed
          /\ t.status = task[j].status
      BY <2>1 DEF Fields
    <3>2. up = "up" => /\ db'.status[j] \in Cancellable /\ t.count = Cardinality(db'.segs[j])
                       /\ crashes = 0 /\ t.stopped => t.fed < MaxUtts /\ t.closed = "clean"
                       /\ crashes = 0 /\ t.status = "cancelled" => t.fed < MaxUtts
      BY <1>2, <2>2, <2>4, <2>5, <2>6, <3>1 DEF Up, UpGood
    <3> QED
      BY <3>2 DEF Up, UpGood, Cancellable
  <2>9. Has(t, Added(j, u), j)
    <3>1. t.pc # "none"
      BY <2>1 DEF Fields
    <3> QED
      BY <1>1, <2>6, <3>1, UnderWay, OpenRow
  <2> QED
    BY <1>1, <2>2, <2>6, <2>7, <2>8, <2>9, RunKeeps DEF Under, TaskFrame
<1>5. CASE Ticks(j)
  <2> DEFINE over == spec[j].op = "diarize" /\ task[j].todo = {}
             t == [task[j] EXCEPT
               !.pc = IF over THEN "final"
                      ELSE IF spec[j].op = "diarize" THEN "copy" ELSE "drive",
               !.status = IF over THEN "done" ELSE task[j].status]
  <2>1. Fields(t, "drive", task[j].status, task[j].count, task[j].stopped, task[j].fed,
               task[j].pend, task[j].closed)
    BY <1>2 DEF TaskShaped, TaskFields, Fields
  <2>2. /\ task' = [task EXCEPT ![j] = t] /\ TaskFrame /\ task[j].pc = "tick"
        /\ Commit(Row(j)) \/ UNCHANGED <<db, disk>>
    BY <1>5 DEF Ticks
  <2> HIDE DEF t
  <2>3. TaskGood(t, db.segs[j]) /\ task[j].status = "running"
    BY <1>2, <2>1, <2>2 DEF TaskGood, Fields, Hearing, Fresh, Stages, InOrder
  <2>4. t.pc # "none"
    BY <2>1 DEF Fields
  <2>5. CASE Commit(Row(j))
    <3>1. up = "up" => UpGood(t, task[j].status, task[j].count, db.segs[j], crashes = 0, FALSE)
      BY <1>2, <2>1, <2>2, <2>3 DEF Up, UpGood, Fields, Cancellable
    <3> QED
      BY <1>1, <2>2, <2>3, <2>4, <2>5, <3>1, WritesRow
  <2>6. CASE UNCHANGED <<db, disk>>
    <3>1. up = "up" => Up(t, db, j)
      BY <1>2, <2>1, <2>2, <2>3 DEF Up, UpGood, Fields
    <3> QED
      BY <1>1, <2>2, <2>3, <2>4, <2>6, <3>1, MovesOnly
  <2> QED
    BY <2>2, <2>5, <2>6
<1>6. CASE DriveEnds(j)
  <2> DEFINE status == IF task[j].closed = "exhausted" THEN "error"
                       ELSE IF task[j].count = 0 /\ task[j].dropped /\ ~task[j].stopped
                       THEN "error"
                       ELSE IF task[j].stopped THEN "cancelled" ELSE "done"
             t == [task[j] EXCEPT !.pc = "final", !.status = status]
  <2>1. Fields(t, "final", status, task[j].count, task[j].stopped, task[j].fed,
               task[j].pend, task[j].closed)
    BY <1>2 DEF TaskShaped, TaskFields, Fields
  <2>2. /\ task' = [task EXCEPT ![j] = t] /\ TaskFrame /\ UNCHANGED <<db, disk>>
        /\ task[j].pc = "drive" /\ task[j].pend = <<>> /\ task[j].closed # "no"
    BY <1>6 DEF DriveEnds, Ends
  <2>3. /\ status \in {"error", "cancelled", "done"}
        /\ status = "cancelled" => task[j].stopped
        /\ status = "done" => ~task[j].stopped /\ task[j].closed # "exhausted"
    OBVIOUS
  <2> HIDE DEF status, t
  <2>4. status = "done" => Whole(task[j])
    BY <1>2, <2>2, <2>3 DEF TaskGood, Hearing, Whole
  <2>5. TaskGood(t, db.segs[j])
    BY <1>2, <2>1, <2>2, <2>3, <2>4 DEF TaskGood, Fields, Hearing, Fresh, Stages, Statuses, Whole
  <2>6. up = "up" => Up(t, db, j)
    BY <1>2, <2>1, <2>2, <2>3 DEF Up, UpGood, Fields, Cancellable
  <2>7. t.pc # "none"
    BY <2>1 DEF Fields
  <2> QED
    BY <1>1, <2>2, <2>5, <2>6, <2>7, MovesOnly
<1>7. CASE Drained(j)
  <2> DEFINE ends == [task[j] EXCEPT !.pc = "final", !.status = "error"]
             t == IF task[j].closed = "exhausted" \/ task[j].status = "error"
                  THEN ends ELSE Lands(task[j])
  <2>1. Fields(ends, "final", "error", task[j].count, task[j].stopped, task[j].fed,
               task[j].pend, task[j].closed)
    BY <1>2 DEF TaskShaped, TaskFields, Fields
  <2>2. /\ task' = [task EXCEPT ![j] = t] /\ TaskFrame /\ UNCHANGED <<db, disk>>
        /\ task[j].pc = "drain"
    BY <1>7 DEF Drained
  <2>3. up = "up" => t = ends
    BY <2>2 DEF RunInv, ReadyInv, VerdictReady
  <2>4. t = ends \/ t = Lands(task[j])
    OBVIOUS
  <2>5. /\ t.pc \in {"final", "shielded"} /\ t.count = task[j].count /\ t.fed = task[j].fed
        /\ t.pend = task[j].pend /\ t.closed = task[j].closed
        /\ t.pc = "shielded" => t.status = "cancelled"
        /\ t.status \in {"error", "cancelled", task[j].status}
        /\ t.pc = "final" => t.status \in {"error", task[j].status}
    BY <1>2, <2>4 DEF Lands, TaskShaped, TaskFields
  <2>6. TaskGood(t, db.segs[j])
    <3> HIDE DEF t
    <3> QED
      BY <1>2, <2>2, <2>5 DEF TaskGood, Hearing, Fresh, Stages, Statuses
  <2>7. up = "up" => Up(t, db, j)
    <3> HIDE DEF t, ends
    <3> QED
      BY <1>2, <2>1, <2>2, <2>3 DEF Up, UpGood, Fields, Cancellable
  <2>8. t.pc # "none"
    BY <2>5
  <2> HIDE DEF t
  <2> QED
    BY <1>1, <2>2, <2>6, <2>7, <2>8, MovesOnly
<1> QED
  BY <1>3, <1>4, <1>5, <1>6, <1>7 DEF Driving

(* Nobody diarizes, so nobody copies. *)
LEMMA NobodyCopies ==
  ASSUME RunInv, JobsInv, NEW j \in Job
  PROVE  ~Copying(j)
<1>1. spec[j].op = "transcribe" /\ (Under(j) => task[j].pc \in Stages)
  BY UnderWay DEF RunInv, ReadyInv, OnlyTranscripts, TaskGood
<1> QED
  BY <1>1 DEF Copying, Diarized, ReadsBase, Wipes, Copies, Unwinds, Under, Stages, Fresh, Hearing
LEMMA NothingMoves ==
  ASSUME JobsInv, UNCHANGED <<up, crashes, at, about, born, db, disk, task>>
  PROVE  JobsInv'
<1>1. \A j \in Job : Deleting(j)' = Deleting(j)
  BY DEF Deleting
<1>2. \A j \in Job : JobGood(j)'
  BY <1>1 DEF JobsInv, JobGood, Up, Has
<1>3. ClientsGood' /\ DbFull(db)' /\ DbFull(disk)'
  BY DEF JobsInv, ClientsGood, DbFull
<1> QED
  BY <1>2, <1>3 DEF JobsInv

(* A shutdown cuts a task.  A process that is stopping answers for no count. *)
LEMMA CutKeeps ==
  ASSUME RunInv, JobsInv, NEW j \in Job, ShutdownCuts(j)
  PROVE  JobsInv'
<1>1. CASE ~Running(j)
  BY <1>1, NothingMoves DEF ShutdownCuts
<1>2. CASE Running(j)
  <2>1. Under(j) /\ up = "stopping" /\ UNCHANGED <<up, crashes, at, about, born, spec>> /\ Cut(j)
    BY <1>2 DEF Running, Under, ShutdownCuts
  <2>2. TaskGood(task[j], db.segs[j]) /\ TaskShaped(task[j]) /\ spec[j].op = "transcribe"
    BY <2>1, UnderWay
  <2>3. CASE CutDrive(j)
    <3> DEFINE u == Head(task[j].pend)
               t == [task[j] EXCEPT !.pc = "drain",
                       !.closed = IF task[j].pc = "drain" /\ task[j].closed = "no" THEN "clean"
                                  ELSE task[j].closed,
                       !.status = "running"]
    <3>1. /\ t.pc = "drain" /\ t.status = "running" /\ t.count = task[j].count
          /\ t.fed = task[j].fed /\ t.pend = task[j].pend
          /\ t.closed \in {"clean", task[j].closed}
      BY <2>2 DEF TaskShaped, TaskFields
    <3>2. /\ task' = [task EXCEPT ![j] = t]
          /\ Torn(Added(j, u)) \/ Torn(Row(j)) \/ UNCHANGED <<db, disk>>
          /\ task[j].pc \in Hearing \cup {"drain"}
      BY <2>3 DEF CutDrive, Hearing
    <3> HIDE DEF t, u
    <3>3. \A stored : TaskGood(t, stored)
      BY <2>2, <3>1, <3>2 DEF TaskGood, Hearing, Fresh, Stages, Statuses
    <3>4. task[j].status # "done" /\ t.pc # "none"
      BY <2>2, <3>1, <3>2 DEF TaskGood, Hearing
    <3>5. CASE Torn(Added(j, u))
      <4>1. /\ Elsewhere(Added(j, u), j) /\ Added(j, u).status[j] = db.status[j]
            /\ Added(j, u).copy[j] = db.copy[j]
            /\ db' = Added(j, u) /\ (disk' = Added(j, u) \/ disk' = disk)
        BY <3>5, Views DEF RunInv, ReadyInv, JobsInv, Torn
      <4>2. Has(t, Added(j, u), j) /\ Has(t, disk, j)
        BY <2>1, <3>4, <4>1, UnderWay, OpenRow
      <4>3. TaskGood(t, db'.segs[j]) /\ Has(t, db', j) /\ Has(t, disk', j)
            /\ Elsewhere(db', j) /\ (Elsewhere(disk', j) \/ disk' = disk)
        BY <3>3, <4>1, <4>2
      <4> QED
        BY <2>1, <3>2, <4>3, RunKeeps DEF Under
    <3>6. CASE Torn(Row(j))
      BY <2>1, <3>2, <3>3, <3>4, <3>6, WritesRow
    <3>7. CASE UNCHANGED <<db, disk>>
      BY <2>1, <3>2, <3>3, <3>4, <3>7, MovesOnly
    <3> QED
      BY <3>2, <3>5, <3>6, <3>7
  <2>4. CASE CutWrite(j)
    <3>1. task[j].pc \in Stages
      BY <2>2 DEF TaskGood
    <3>2. \/ task[j].pc = "new" /\ Goes(j, "ended") /\ UNCHANGED <<db, disk>>
          \/ task[j].pc \in {"early", "start", "final"} /\ Goes(j, "ended") /\ Torn(Row(j))
          \/ /\ task[j].pc = "prepare" /\ task' = [task EXCEPT ![j] = Lands(task[j])]
             /\ UNCHANGED <<db, disk>>
          \/ task[j].pc = "shielded" /\ Goes(j, "final") /\ Commit(Row(j))
      BY <2>4, <3>1 DEF CutWrite, Stages, Fresh, Hearing
    <3>3. CASE /\ task[j].pc \in {"new", "early", "start", "final"} /\ Goes(j, "ended")
               /\ UNCHANGED <<db, disk>> \/ Torn(Row(j))
      <4> DEFINE t == [task[j] EXCEPT !.pc = "ended"]
      <4>1. Fields(t, "ended", task[j].status, task[j].count, task[j].stopped, task[j].fed,
                   task[j].pend, task[j].closed)
        BY <2>2 DEF TaskShaped, TaskFields, Fields
      <4>2. task' = [task EXCEPT ![j] = t] /\ task[j].pc \in {"new", "early", "start", "final"}
        BY <3>3 DEF Goes
      <4> HIDE DEF t
      <4>3. TaskGood(t, db.segs[j])
        BY <2>2, <4>1, <4>2 DEF TaskGood, Fields, Fresh, Hearing, Stages, Whole
      <4>4. task[j].status = "done" =>
              t.pc = "ended" /\ Whole(t) /\ task[j].count = Cardinality(db.segs[j])
        BY <2>2, <4>1, <4>2 DEF TaskGood, Whole, Fields
      <4>5. t.pc # "none"
        BY <4>1 DEF Fields
      <4> QED
        BY <2>1, <3>3, <4>2, <4>3, <4>4, <4>5, WritesRow, MovesOnly
    <3>4. CASE task[j].pc = "prepare" /\ task' = [task EXCEPT ![j] = Lands(task[j])]
               /\ UNCHANGED <<db, disk>>
      <4> DEFINE t == Lands(task[j])
      <4>1. /\ t.pc \in {"final", "shielded"} /\ t.count = task[j].count /\ t.fed = task[j].fed
            /\ t.pend = task[j].pend /\ t.closed = task[j].closed
            /\ t.pc = "shielded" => t.status = "cancelled"
            /\ t.pc = "final" => t.status = task[j].status
        BY <2>2 DEF Lands, TaskShaped, TaskFields
      <4>2. task' = [task EXCEPT ![j] = t]
        BY <3>4
      <4> HIDE DEF t
      <4>3. TaskGood(t, db.segs[j]) /\ t.pc # "none"
        BY <2>2, <3>4, <4>1 DEF TaskGood, Hearing, Fresh, Stages, Statuses
      <4> QED
        BY <2>1, <3>4, <4>2, <4>3, MovesOnly
    <3>5. CASE task[j].pc = "shielded" /\ Goes(j, "final") /\ Commit(Row(j))
      <4> DEFINE t == [task[j] EXCEPT !.pc = "final"]
      <4>1. Fields(t, "final", task[j].status, task[j].count, task[j].stopped, task[j].fed,
                   task[j].pend, task[j].closed)
        BY <2>2 DEF TaskShaped, TaskFields, Fields
      <4>2. task' = [task EXCEPT ![j] = t]
        BY <3>5 DEF Goes
      <4> HIDE DEF t
      <4>3. TaskGood(t, db.segs[j]) /\ t.pc # "none" /\ task[j].status # "done"
        BY <2>2, <3>5, <4>1 DEF TaskGood, Fields, Fresh, Hearing, Stages, Statuses
      <4> QED
        BY <2>1, <3>5, <4>2, <4>3, WritesRow
    <3> QED
      BY <3>2, <3>3, <3>4, <3>5
  <2> QED
    BY <2>1, <2>2, <2>3, <2>4 DEF Cut, CutCopy
<1> QED
  BY <1>1, <1>2
-----------------------------------------------------------------------------
(* The steps of a request. *)

(* All that is said of a task. *)
SameTask(t, u) == Fields(t, u.pc, u.status, u.count, u.stopped, u.fed, u.pend, u.closed)

(* A handler asks, or answers: nothing of a job changes. *)
LEMMA AskKeeps ==
  ASSUME RunInv, JobsInv, NEW c \in Clients, NEW l \in {"idle", "probe", "cancel", "segs"}, NEW a,
         up = "up", at[c] \in {"idle", "probe", "cancel"},
         at' = [at EXCEPT ![c] = l], about' = [about EXCEPT ![c] = a],
         l = "cancel" => a.run, l = "segs" => a.v \in Job /\ task[a.v].pc = "ended",
         UNCHANGED <<up, crashes, born, db, disk>>,
         \A j \in Job : SameTask(task'[j], task[j])
  PROVE  JobsInv'
<1>1. /\ at'[c] = l /\ about'[c] = a
      /\ \A d \in Clients \ {c} : at'[d] = at[d] /\ about'[d] = about[d]
  BY DEF RunInv, ReadyInv, Shaped
<1>2. \A j \in Job : Deleting(j)' = Deleting(j)
  BY <1>1 DEF Deleting
<1>3. ASSUME NEW j \in Job PROVE JobGood(j)'
  <2>1. JobGood(j) /\ SameTask(task'[j], task[j]) /\ Deleting(j)' = Deleting(j)
    BY <1>2 DEF JobsInv
  <2>2. TaskGood(task'[j], db.segs[j])
    BY <2>1 DEF JobGood, SameTask, Fields, TaskGood, InOrder, Whole
  <2>3. up = "up" => Up(task'[j], db, j)
    BY <2>1 DEF JobGood, SameTask, Fields, Up, UpGood
  <2>4. Has(task'[j], db, j) /\ Has(task'[j], disk, j)
    BY <2>1 DEF JobGood, SameTask, Fields, Has, RowGood, Whole
  <2>5. born < j => task'[j].pc = "none"
    BY <2>1 DEF JobGood, SameTask, Fields
  <2> QED
    BY <2>1, <2>2, <2>3, <2>4, <2>5 DEF JobGood, Up, Has
<1>4. ClientsGood'
  BY <1>1 DEF JobsInv, ClientsGood, Erasing, SameTask, Fields
<1> QED
  BY <1>3, <1>4 DEF JobsInv, DbFull

LEMMA EnqueueKeeps ==
  ASSUME RunInv, JobsInv, NEW c \in Clients,
         \/ \E op \in Ops, v \in Version : EnqueueAsks(c, op, v)
         \/ EnqueueRefused(c) \/ EnqueueInserts(c) \/ EnqueueLaunches(c)
  PROVE  JobsInv'
<1>1. Shaped /\ (at[c] # "idle" => up = "up") /\ born \in Nat /\ DbShaped(db)
  BY DEF RunInv, ReadyInv, Shaped, JobsInv, ClientsGood
<1>2. task' = task => \A j \in Job : SameTask(task'[j], task[j])
  BY DEF SameTask, Fields
<1>3. ASSUME NEW op \in Ops, NEW v \in Version, EnqueueAsks(c, op, v) PROVE JobsInv'
  <2> DEFINE a == [op |-> op, v |-> v, run |-> FALSE]
  <2>1. /\ at' = [at EXCEPT ![c] = "probe"] /\ about' = [about EXCEPT ![c] = a]
        /\ up = "up" /\ at[c] = "idle" /\ UNCHANGED <<up, crashes, born, db, disk, task>>
    BY <1>3 DEF EnqueueAsks, RequestFrame
  <2> HIDE DEF a
  <2> QED
    BY <1>2, <2>1, AskKeeps
<1>4. CASE EnqueueRefused(c)
  <2>1. /\ at' = [at EXCEPT ![c] = "idle"] /\ about' = [about EXCEPT ![c] = about[c]]
        /\ at[c] = "probe" /\ UNCHANGED <<up, crashes, born, db, disk, task>>
    BY <1>1, <1>4 DEF EnqueueRefused, RequestFrame, Shaped
  <2> QED
    BY <1>1, <1>2, <2>1, AskKeeps
<1>5. CASE EnqueueInserts(c)
  <2>1. PICK k \in Job : k = born + 1 /\ k \in Nat
    BY <1>1, <1>5, ConstantsAssumption DEF EnqueueInserts, Job
  <2> DEFINE t == [task[k] EXCEPT !.pc = "creating"]
  <2>2. JobGood(k) /\ task[k].pc = "none" /\ TaskShaped(task[k]) /\ up = "up" /\ up' = "up"
        /\ crashes' = crashes /\ disk' = disk
    BY <1>1, <1>5, <2>1 DEF JobsInv, JobGood, Shaped, EnqueueInserts, RequestFrame
  <2>3. Fields(t, "creating", task[k].status, task[k].count, task[k].stopped, task[k].fed,
               task[k].pend, task[k].closed)
    BY <2>2 DEF TaskShaped, TaskFields, Fields
  <2>4. task'[k] = t /\ \A j \in Job \ {k} : task'[j] = task[j]
    BY <1>1, <1>5, <2>1 DEF EnqueueInserts, Goes, Shaped
  <2>5. /\ DbFull(db') /\ db'.status[k] = "queued" /\ db'.count = db.count
        /\ db'.segs = db.segs /\ db'.copy = db.copy
        /\ \A j \in Job \ {k} : db'.status[j] = db.status[j]
    BY <1>1, <1>5, <2>1 DEF EnqueueInserts, DbShaped, DbFull, JobsInv
  <2>6. /\ at[c] = "probe" /\ at'[c] = "commit" /\ about'[c].v = k /\ born' = k
        /\ \A d \in Clients \ {c} : at'[d] = at[d] /\ about'[d] = about[d]
    <3>1. about[c] = [op |-> about[c].op, v |-> about[c].v, run |-> about[c].run]
      BY <1>1 DEF Shaped, AboutShaped
    <3> QED
      BY <1>1, <1>5, <2>1, <3>1 DEF EnqueueInserts, Shaped
  <2> HIDE DEF t
  <2>7. \A j \in Job : Deleting(j)' = Deleting(j)
    BY <2>6 DEF Deleting
  <2>8. JobGood(k)'
    <3>1. /\ db.segs[k] = {} /\ disk.segs[k] = {} /\ disk.status[k] = "none"
          /\ db.copy[k] = NoCopy /\ disk.copy[k] = NoCopy
          /\ task[k].count = 0 /\ ~task[k].stopped /\ task[k].status \notin {"done", "cancelled"}
          /\ TaskGood(t, db.segs[k])
      BY <2>2, <2>3 DEF JobGood, TaskGood, Has, RowGood, Fields, Fresh, Hearing, Stages
    <3>2. Up(t, db', k)
      BY <2>3, <2>5, <3>1, FS_EmptySet DEF Up, UpGood, Fields, Cancellable
    <3>3. Has(t, db', k) /\ Has(t, disk', k)
      BY <2>2, <2>3, <2>5, <3>1 DEF Has, RowGood, Fields
    <3>4. ~(born' < k)
      BY <2>1, <2>6
    <3> QED
      BY <2>2, <2>4, <2>5, <2>7, <3>1, <3>2, <3>3, <3>4 DEF JobGood, Up, Has
  <2>9. ASSUME NEW j \in Job \ {k} PROVE JobGood(j)'
    <3>1. JobGood(j) /\ (born' < j => born < j)
      BY <1>1, <2>1, <2>6 DEF JobsInv, Job
    <3> QED
      BY <2>2, <2>4, <2>5, <2>7, <3>1 DEF JobGood, Up, Has
  <2>10. ClientsGood'
    <3>1. \A d \in Clients : at[d] \in Erasing \cup {"commit"} => about[d].v \in Job \ {k}
      BY <2>2 DEF JobsInv, ClientsGood
    <3>2. task'[k].pc = "creating" /\ \A j \in Job \ {k} : task'[j].pc = task[j].pc
      BY <2>3, <2>4 DEF Fields
    <3>3. \A d \in Clients : at'[d] = "commit" =>
            about'[d].v \in Job /\ task'[about'[d].v].pc = "creating"
      BY <2>6, <3>1, <3>2 DEF JobsInv, ClientsGood
    <3>4. \A d, e \in Clients :
            at'[d] = "commit" /\ at'[e] = "commit" /\ about'[d].v = about'[e].v => d = e
      BY <2>6, <3>1 DEF JobsInv, ClientsGood
    <3>5. \A d \in Clients : at'[d] \in Erasing =>
            about'[d].v \in Job /\ task'[about'[d].v].pc = "ended"
      BY <2>6, <3>1, <3>2 DEF JobsInv, ClientsGood, Erasing
    <3>6. \A d \in Clients : at'[d] = "cancel" => about'[d].run
      BY <2>6 DEF JobsInv, ClientsGood
    <3> QED
      BY <2>2, <3>3, <3>4, <3>5, <3>6 DEF ClientsGood
  <2> QED
    BY <2>2, <2>5, <2>8, <2>9, <2>10 DEF JobsInv, DbFull
<1>6. CASE EnqueueLaunches(c)
  <2>1. PICK k \in Job : /\ k = about[c].v /\ task[k].pc = "creating"
                         /\ at[c] = "commit" /\ up = "up"
    BY <1>1, <1>6 DEF EnqueueLaunches, JobsInv, ClientsGood
  <2> DEFINE t == [task[k] EXCEPT !.pc = "new"]
  <2>2. Fields(t, "new", task[k].status, task[k].count, task[k].stopped, task[k].fed,
               task[k].pend, task[k].closed)
    BY <1>1, <2>1 DEF Shaped, TaskShaped, TaskFields, Fields
  <2>3. /\ task'[k] = t /\ \A j \in Job \ {k} : task'[j] = task[j]
        /\ disk' = db /\ UNCHANGED <<up, crashes, about, born, db>>
        /\ at'[c] = "idle" /\ \A d \in Clients \ {c} : at'[d] = at[d]
    BY <1>1, <1>6, <2>1 DEF EnqueueLaunches, Goes, Shaped, RequestFrame
  <2> HIDE DEF t
  <2>4. \A j \in Job : Deleting(j)' = Deleting(j)
    BY <2>1, <2>3 DEF Deleting
  <2>5. JobGood(k)'
    <3>1. JobGood(k)
      BY <2>1 DEF JobsInv
    <3>2. TaskGood(t, db.segs[k])
      BY <2>1, <2>2, <3>1 DEF JobGood, TaskGood, Fields, Fresh, Hearing, Stages
    <3>3. Up(t, db, k)
      BY <2>1, <2>2, <3>1 DEF JobGood, Up, UpGood, Fields
    <3>4. Has(t, db, k)
      BY <2>1, <2>2, <3>1 DEF JobGood, Has, RowGood, Fields
    <3>5. ~(born < k)
      BY <2>1, <3>1 DEF JobGood
    <3> QED
      BY <2>3, <2>4, <3>2, <3>3, <3>4, <3>5 DEF JobGood, Up, Has
  <2>6. ASSUME NEW j \in Job \ {k} PROVE JobGood(j)'
    <3>1. JobGood(j)
      BY DEF JobsInv
    <3> QED
      BY <2>3, <2>4, <3>1 DEF JobGood, Up, Has
  <2>7. ClientsGood'
    <3>1. \A d \in Clients \ {c} : at[d] \in Erasing \cup {"commit"} => about[d].v \in Job \ {k}
      BY <2>1 DEF JobsInv, ClientsGood
    <3> QED
      BY <2>1, <2>3, <3>1 DEF JobsInv, ClientsGood, Erasing
  <2> QED
    BY <2>3, <2>5, <2>6, <2>7 DEF JobsInv, DbFull
<1> QED
  BY <1>3, <1>4, <1>5, <1>6
LEMMA CancelKeeps ==
  ASSUME RunInv, JobsInv, NEW c \in Clients, "adopt" \notin Requests,
         (\E j \in Job : CancelAsks(c, j)) \/ CancelReads(c) \/ CancelAdopts(c)
  PROVE  JobsInv'
<1>1. /\ Shaped /\ (at[c] # "idle" => up = "up") /\ (at[c] = "cancel" => about[c].run)
      /\ OnlyTranscripts
  BY DEF RunInv, ReadyInv, JobsInv, ClientsGood
<1>2. ASSUME NEW j \in Job, CancelAsks(c, j) PROVE JobsInv'
  <2> DEFINE a == [op |-> "cancel", v |-> j, run |-> Running(j)]
             t == [task[j] EXCEPT !.asked = Running(j) \/ task[j].asked]
  <2>1. /\ at' = [at EXCEPT ![c] = "cancel"] /\ about' = [about EXCEPT ![c] = a]
        /\ up = "up" /\ at[c] = "idle" /\ UNCHANGED <<up, crashes, born, db, disk>>
        /\ task' = [task EXCEPT ![j] = t] /\ a.run
    BY <1>2 DEF CancelAsks, RequestFrame
  <2>2. SameTask(t, task[j])
    BY <1>1 DEF Shaped, TaskShaped, TaskFields, SameTask, Fields
  <2> HIDE DEF a, t
  <2>3. \A k \in Job : SameTask(task'[k], task[k])
    BY <1>1, <2>1, <2>2 DEF Shaped, SameTask, Fields
  <2> QED
    BY <2>1, <2>3, AskKeeps
<1>3. CASE CancelReads(c)
  <2>1. /\ at' = [at EXCEPT ![c] = "idle"] /\ about' = [about EXCEPT ![c] = about[c]]
        /\ at[c] = "cancel" /\ UNCHANGED <<up, crashes, born, db, disk, task>>
    BY <1>1, <1>3 DEF CancelReads, RequestFrame, Shaped, OnlyTranscripts
  <2>2. \A k \in Job : SameTask(task'[k], task[k])
    BY <2>1 DEF SameTask, Fields
  <2> QED
    BY <1>1, <2>1, <2>2, AskKeeps
<1>4. ~CancelAdopts(c)
  BY <1>1 DEF CancelAdopts
<1> QED
  BY <1>2, <1>3, <1>4

LEMMA DeleteKeeps ==
  ASSUME RunInv, JobsInv, NEW c \in Clients,
         (\E v \in Job : DeleteAsks(c, v)) \/ DeleteSegs(c) \/ DeleteCopy(c) \/ DeleteRows(c)
  PROVE  JobsInv'
<1>1. Shaped /\ DbShaped(db) /\ DbFull(db) /\ OnlyTranscripts /\ \A j \in Job : JobGood(j)
  BY DEF RunInv, ReadyInv, Shaped, JobsInv
<1>2. ASSUME NEW v \in Job, DeleteAsks(c, v) PROVE JobsInv'
  <2> DEFINE a == [op |-> "delete", v |-> v, run |-> FALSE]
  <2>1. /\ at' = [at EXCEPT ![c] = "segs"] /\ about' = [about EXCEPT ![c] = a]
        /\ up = "up" /\ at[c] = "idle" /\ UNCHANGED <<up, crashes, born, db, disk, task>>
        /\ Exists(v) /\ Writing(v) = {} /\ a.v = v
    BY <1>2 DEF DeleteAsks, RequestFrame
  <2>2. task[v].pc = "ended"
    <3>1. db.status[v] \notin Cancellable \cup {"none"}
      BY <2>1 DEF Writing, Exists
    <3> QED
      BY <1>1, <2>1, <3>1 DEF JobGood, Up, UpGood, Has, RowGood
  <2>3. \A k \in Job : SameTask(task'[k], task[k])
    BY <2>1 DEF SameTask, Fields
  <2> HIDE DEF a
  <2> QED
    BY <2>1, <2>2, <2>3, AskKeeps
<1>3. CASE DeleteSegs(c) \/ DeleteCopy(c) \/ DeleteRows(c)
  <2>1. PICK v \in Job : v = about[c].v /\ task[v].pc = "ended" /\ up = "up"
    BY <1>3 DEF DeleteSegs, DeleteCopy, DeleteRows, JobsInv, ClientsGood, Erasing
  <2>2. /\ task' = task /\ UNCHANGED <<up, crashes, about, born>> /\ disk' = db'
        /\ at' = [at EXCEPT ![c] = at'[c]] /\ at'[c] \in {"copy", "rows", "idle"}
        /\ \A d \in Clients \ {c} : at'[d] = at[d]
        /\ at[c] \in {"segs", "copy", "rows"}
    BY <1>1, <1>3 DEF DeleteSegs, DeleteCopy, DeleteRows, Commit, RequestFrame, Shaped
  <2>3. \A k \in Job \ {v} : Deleting(k)' = Deleting(k)
    BY <2>1, <2>2 DEF Deleting
  <2>4. ClientsGood'
    BY <2>1, <2>2 DEF JobsInv, ClientsGood, Erasing
  <2>5. ASSUME DbFull(db'), \A k \in Job \ {v} : View(db', k) = View(db, k), JobGood(v)'
        PROVE  JobsInv'
    <3>1. ASSUME NEW k \in Job \ {v} PROVE JobGood(k)'
      BY <1>1, <2>2, <2>3, <2>5 DEF JobGood, Up, Has, View
    <3> QED
      BY <2>2, <2>4, <2>5, <3>1 DEF JobsInv, DbFull
  <2>6. ASSUME db'.copy[v] = db.copy[v], db'.segs[v] = {}, db'.count[v] = db.count[v],
               \/ db'.status[v] = db.status[v] /\ (at[c] = "segs" => Deleting(v)')
               \/ db'.status[v] = "deleted"
               \/ db.status[v] = "none" /\ db'.status[v] = "none",
               db'.status[v] \in {"deleted", "none"} \/ Deleting(v)'
        PROVE  JobGood(v)'
    <3>1. JobGood(v)
      BY <1>1
    <3>2. TaskGood(task[v], {})
      BY <2>1, <3>1 DEF JobGood, TaskGood, Fresh, Hearing
    <3>3. UpGood(task[v], db'.status[v], db'.count[v], {}, crashes = 0, Deleting(v)')
      BY <2>1, <2>6, <3>1 DEF JobGood, Up, UpGood
    <3>4. RowGood(db'.status[v], db'.count[v], {}, db'.copy[v], task[v], crashes = 0, Deleting(v)')
      BY <2>1, <2>6, <3>1 DEF JobGood, Has, RowGood
    <3> QED
      BY <2>2, <2>6, <3>1, <3>2, <3>3, <3>4 DEF JobGood, Up, Has
  <2>7. CASE DeleteSegs(c)
    <3>1. /\ DbFull(db') /\ db'.status = db.status /\ db'.count = db.count /\ db'.copy = db.copy
          /\ db'.segs[v] = {} /\ \A k \in Job \ {v} : db'.segs[k] = db.segs[k]
      BY <1>1, <2>1, <2>7 DEF DeleteSegs, Commit, DbShaped, DbFull, Version
    <3>2. Deleting(v)'
      BY <1>1, <2>1, <2>2, <2>7 DEF DeleteSegs, Deleting, Shaped
    <3> QED
      BY <2>5, <2>6, <3>1, <3>2 DEF View
  <2>8. CASE DeleteCopy(c)
    <3>1. Deleting(v) /\ Deleting(v)'
      BY <1>1, <2>1, <2>2, <2>8 DEF DeleteCopy, Deleting, Shaped
    <3>2. db.segs[v] = {} /\ db.copy[v] = NoCopy
      BY <1>1, <3>1 DEF JobGood, Has, RowGood
    <3>3. /\ DbFull(db') /\ db'.status = db.status /\ db'.count = db.count /\ db'.segs = db.segs
          /\ db'.copy[v] = NoCopy /\ \A k \in Job \ {v} : db'.copy[k] = db.copy[k]
      BY <1>1, <2>1, <2>8 DEF DeleteCopy, Commit, DbShaped, DbFull, Version
    <3> QED
      BY <2>5, <2>6, <3>1, <3>2, <3>3 DEF View
  <2>9. CASE DeleteRows(c)
    <3>1. Deleting(v)
      BY <2>1, <2>9 DEF DeleteRows, Deleting
    <3>2. db.segs[v] = {}
      BY <1>1, <3>1 DEF JobGood, Has, RowGood
    <3>3. /\ DbFull(db') /\ db'.count = db.count /\ db'.segs = db.segs /\ db'.copy = db.copy
          /\ db'.status = [j \in Job |-> IF Exists(j) /\ j = v THEN "deleted" ELSE db.status[j]]
      BY <1>1, <2>1, <2>9 DEF DeleteRows, Commit, DbShaped, DbFull, OnlyTranscripts
    <3>4. \/ db'.status[v] = "deleted"
          \/ db.status[v] = "none" /\ db'.status[v] = "none"
      BY <3>3 DEF Exists
    <3> QED
      BY <2>5, <2>6, <3>2, <3>3, <3>4 DEF View
  <2> QED
    BY <1>3, <2>7, <2>8, <2>9
<1> QED
  BY <1>2, <1>3
-----------------------------------------------------------------------------
(* A shutdown begins; the process goes down, and comes back up. *)
LEMMA LifecycleKeeps ==
  ASSUME RunInv, JobsInv, ShutdownBegins \/ ShutdownEnds \/ Crash \/ Reconciles
  PROVE  JobsInv'
<1>1. Shaped /\ DbShaped(db) /\ DbFull(db) /\ DbFull(disk) /\ \A j \in Job : JobGood(j)
  BY DEF RunInv, ReadyInv, Shaped, JobsInv
<1>2. CASE ShutdownBegins
  <2>1. /\ up' = "stopping" /\ UNCHANGED <<crashes, at, about, born, db, disk, task>>
        /\ \A c \in Clients : at[c] = "idle"
    BY <1>2 DEF ShutdownBegins
  <2>2. \A j \in Job : Deleting(j)' = Deleting(j)
    BY <2>1 DEF Deleting
  <2>3. \A j \in Job : JobGood(j)'
    BY <1>1, <2>1, <2>2 DEF JobGood, Has
  <2> QED
    BY <2>1, <2>3 DEF JobsInv, ClientsGood, DbFull, Erasing
<1>3. CASE GoesDown
  <2>1. /\ up' = "down" /\ crashes' = crashes + 1 /\ crashes \in Nat /\ born' = born
        /\ db' = disk /\ disk' = disk /\ \A c \in Clients : at'[c] = "idle"
    BY <1>3 DEF GoesDown, JobsInv
  <2>2. \A j \in Job : ~Deleting(j)'
    BY <2>1 DEF Deleting
  <2>3. ASSUME NEW j \in Job PROVE JobGood(j)'
    <3> DEFINE t == IF task[j].pc = "none" THEN task[j] ELSE [task[j] EXCEPT !.pc = "ended"]
    <3>1. Fields(t, IF task[j].pc = "none" THEN "none" ELSE "ended", task[j].status,
                 task[j].count, task[j].stopped, task[j].fed, task[j].pend, task[j].closed)
      BY <1>1 DEF Shaped, TaskShaped, TaskFields, Fields
    <3>2. task'[j] = t
      BY <1>3 DEF GoesDown
    <3> HIDE DEF t
    <3>3. JobGood(j)
      BY <1>1
    <3>4. task[j].pc = "none" => disk.segs[j] = {}
      BY <3>3 DEF JobGood, Has, RowGood
    <3>5. TaskGood(t, disk.segs[j])
      BY <3>1, <3>3, <3>4 DEF JobGood, TaskGood, Fields, Fresh, Hearing, Stages, Whole
    <3>6. RowGood(disk.status[j], disk.count[j], disk.segs[j], disk.copy[j], t, FALSE, FALSE)
      BY <3>1, <3>3 DEF JobGood, Has, RowGood, Fields, Whole
    <3>7. born < j => t.pc = "none"
      BY <3>1, <3>3 DEF JobGood, Fields
    <3>8. /\ TaskGood(task[j], db.segs[j])' /\ Has(task[j], db, j)' /\ Has(task[j], disk, j)'
          /\ ~(up = "up")' /\ (born < j => task[j].pc = "none")'
      <4>1. RowGood(disk.status[j], disk.count[j], disk.segs[j], disk.copy[j], t,
                    crashes' = 0, Deleting(j)')
        BY <2>1, <2>2, <3>6 DEF RowGood
      <4> QED
        BY <2>1, <3>2, <3>5, <3>7, <4>1 DEF Has
    <3> QED
      BY <3>8 DEF JobGood
  <2>4. ClientsGood' /\ DbFull(db)' /\ DbFull(disk)' /\ (crashes \in Nat /\ crashes > 0)'
    BY <1>1, <2>1 DEF ClientsGood, Erasing, DbFull
  <2> QED
    BY <2>1, <2>3, <2>4 DEF JobsInv
<1>4. CASE Reconciles
  <2>1. /\ up = "down" /\ up' = "up" /\ disk' = db'
        /\ UNCHANGED <<crashes, at, about, born, task>>
        /\ crashes \in Nat /\ crashes > 0
        /\ \A j \in Job : task[j].pc \in {"none", "ended"}
    BY <1>4 DEF Reconciles, Commit, JobsInv, RunInv, ReadyInv, Quiet
  <2>2. /\ DbFull(db') /\ db'.count = db.count /\ db'.segs = db.segs /\ db'.copy = db.copy
        /\ \A j \in Job : db'.status[j] = IF db.status[j] \in Cancellable THEN "error"
                                          ELSE db.status[j]
    BY <1>1, <1>4 DEF Reconciles, Commit, DbShaped, DbFull
  <2>3. \A j \in Job : Deleting(j)' = Deleting(j)
    BY <2>1 DEF Deleting
  <2>4. ASSUME NEW j \in Job PROVE JobGood(j)'
    <3>1. JobGood(j)
      BY <1>1
    <3>2. UpGood(task[j], db'.status[j], db'.count[j], db'.segs[j], crashes = 0, Deleting(j))
      BY <2>1 DEF UpGood
    <3>3. RowGood(db'.status[j], db'.count[j], db'.segs[j], db'.copy[j], task[j], crashes = 0,
                  Deleting(j))
      BY <2>2, <3>1 DEF JobGood, Has, RowGood, Cancellable
    <3> QED
      BY <2>1, <2>2, <2>3, <3>1, <3>2, <3>3 DEF JobGood, Up, Has
  <2>5. ClientsGood'
    BY <2>1 DEF JobsInv, ClientsGood, Erasing
  <2> QED
    BY <2>1, <2>2, <2>4, <2>5 DEF JobsInv, DbFull
<1> QED
  BY <1>2, <1>3, <1>4 DEF ShutdownEnds, Crash

LEMMA InitTells == Init => JobsInv
<1> SUFFICES ASSUME Init PROVE JobsInv
  OBVIOUS
<1>1. DbFull(EmptyDb) /\ Job \subseteq Version /\ \A j \in Job : j # Original
  BY DEF DbFull, EmptyDb, Job, Version, Original
<1>2. ASSUME NEW j \in Job PROVE JobGood(j)
  <2>1. /\ task[j] = NoTask /\ db.status[j] = "none" /\ disk.status[j] = "none"
        /\ db.segs[j] = {} /\ disk.segs[j] = {} /\ db.copy[j] = NoCopy /\ disk.copy[j] = NoCopy
        /\ ~Deleting(j)
    BY <1>1 DEF Init, EmptyDb, Deleting
  <2>2. /\ NoTask.pc = "none" /\ NoTask.status = "queued" /\ NoTask.count = 0 /\ NoTask.fed = 0
        /\ NoTask.pend = <<>> /\ NoTask.closed = "no" /\ ~NoTask.stopped
    BY DEF NoTask
  <2>3. TaskGood(NoTask, {})
    BY <2>2, ConstantsAssumption DEF TaskGood, Fresh, Hearing, Stages, Statuses
  <2>4. Up(NoTask, db, j) /\ Has(NoTask, db, j) /\ Has(NoTask, disk, j)
    BY <2>1, <2>2 DEF Up, UpGood, Has, RowGood
  <2> QED
    BY <2>1, <2>2, <2>3, <2>4 DEF JobGood
<1>3. ClientsGood /\ crashes \in Nat /\ up = "up"
  BY DEF Init, ClientsGood, Erasing
<1> QED
  BY <1>1, <1>2, <1>3 DEF JobsInv, Init

LEMMA NextTells ==
  ASSUME RunInv, JobsInv, [Next]_vars, "adopt" \notin Requests
  PROVE  JobsInv'
<1>1. CASE UNCHANGED vars
  BY <1>1, NothingMoves DEF vars
<1>2. ASSUME NEW c \in Clients,
             \/ \E op \in Ops, v \in Version : EnqueueAsks(c, op, v)
             \/ EnqueueRefused(c) \/ Requesting(c)
             \/ \E j \in Job : CancelAsks(c, j) \/ DeleteAsks(c, j)
      PROVE  JobsInv'
  BY <1>2, EnqueueKeeps, CancelKeeps, DeleteKeeps DEF Requesting
<1>3. ASSUME NEW j \in Job,
             \/ Driving(j) \/ Copying(j) \/ Ending(j) \/ Router(j) \/ Breaks(j)
             \/ ShutdownCuts(j)
      PROVE  JobsInv'
  BY <1>3, DrivingKeeps, NobodyCopies, EndingKeeps, RouterKeeps, CutKeeps
<1> QED
  BY <1>1, <1>2, <1>3, LifecycleKeeps DEF Next

LEMMA TellsTheTruth ==
  ASSUME JobsInv
  PROVE  JobTellsTruth /\ DeletedStaysGone
<1>1. \A j \in Job : JobGood(j) /\ crashes \in Nat
  BY DEF JobsInv
<1>2. ASSUME NEW j \in Job, ~Running(j)
      PROVE  /\ db.status[j] = "done" => Whole(task[j])
             /\ db.status[j] = "cancelled" /\ Undisturbed => task[j].fed < MaxUtts
  BY <1>1 DEF JobGood, Up, UpGood, Has, RowGood, Undisturbed
<1>3. ASSUME NEW j \in Job, ~Running(j), ~Deleting(j)
      PROVE  /\ db.status[j] = "done" =>
                  \/ db.count[j] = Cardinality(db.segs[j])
                  \/ crashes > 0 /\ db.segs[j] = {}
             /\ db.status[j] \in {"cancelled", "error"} /\ Undisturbed =>
                  db.count[j] = Cardinality(db.segs[j])
  BY <1>1, <1>3 DEF JobGood, Up, UpGood, Has, RowGood, Undisturbed
<1>4. DeletedStaysGone
  BY <1>1 DEF DeletedStaysGone, JobGood, Has, RowGood
<1> QED
  BY <1>2, <1>3, <1>4 DEF JobTellsTruth, VerdictTrue, CountTrue, Whole

-----------------------------------------------------------------------------
(* What the row of a finished re-transcription says is what happened to it:
   "done" after the whole recording, "cancelled" only where the run broke off,
   and the count its version's rows have - whatever is cancelled, fails, shuts
   down or dies in between, as long as nobody diarizes and no cancel meets a row
   before its task (_run, _drive, _LiveSegmentCount, reconcile). *)
THEOREM JobsTellTruth ==
  ASSUME "diarize" \notin Ops, "adopt" \notin Requests
  PROVE  Spec => []JobTellsTruth
<1>1. Init => RunInv /\ JobsInv
  BY InitTranscripts, InitTells
<1>2. RunInv /\ JobsInv /\ [Next]_vars => (RunInv /\ JobsInv)'
  BY NextTranscripts, NextTells
<1>3. RunInv /\ JobsInv => JobTellsTruth
  BY TellsTheTruth
<1> QED
  BY <1>1, <1>2, <1>3, PTL DEF Spec

(* Under the same assumptions no row is ever found under a deleted version: the
   busy check of delete_version keeps it from a run that would write on. *)
THEOREM DeletedVersionsStayGone ==
  ASSUME "diarize" \notin Ops, "adopt" \notin Requests
  PROVE  Spec => []DeletedStaysGone
<1>1. Init => RunInv /\ JobsInv
  BY InitTranscripts, InitTells
<1>2. RunInv /\ JobsInv /\ [Next]_vars => (RunInv /\ JobsInv)'
  BY NextTranscripts, NextTells
<1>3. RunInv /\ JobsInv => DeletedStaysGone
  BY TellsTheTruth
<1> QED
  BY <1>1, <1>2, <1>3, PTL DEF Spec

-----------------------------------------------------------------------------
(* Copies.  From here on there are diarizations, and no row is looked at: what
   counts is which of a version's rows its copy covers.  Two diarizations of
   one version, or one of a version that is still being written or deleted,
   are left out: nothing in the code keeps them apart. *)

Relabels(j, v) == spec[j].op = "diarize" /\ spec[j].target = v

OneWriter ==
  \A j \in Job, v \in Version : Relabels(j, v) /\ Running(j) =>
    /\ \A k \in Job \ {j} : Relabels(k, v) => ~Running(k)
    /\ v \in Job => ~Running(v) /\ ~Deleting(v)

(* A version whose rows may be read: the original, or one whose run began. *)
Started(v) == v = Original \/ task[v].pc \notin {"none", "creating"}

CopyWhole(d, v) == d.copy[v] = NoCopy \/ \A u \in d.segs[v] : d.copy[v][u] > 0

(* A version as one of the two databases has it. *)
VersionGood(d, v) ==
  /\ d.segs[v] \subseteq Utt /\ d.copy[v] \in [Utt -> Nat]
  /\ d.segs[v] # {} => Started(v)
  /\ d.copy[v] # NoCopy => v = Original \/ task[v].pc = "ended"
  /\ Writer(v) \/ BrokenOff(v) \/ CopyWhole(d, v)

Unread == {"none", "creating", "new", "early", "start", "prepare", "read"}

(* What a run may still have to copy, whichever database is read. *)
Covers(d, j) ==
  LET t == task[j]  v == spec[j].target IN
  /\ t.pc = "wipe" => d.segs[v] \subseteq t.todo
  /\ t.pc \in {"copy", "tick"} => \A u \in d.segs[v] : u \in t.todo \/ d.copy[v][u] > 0

RunGood(j) ==
  LET t == task[j] IN
  /\ born < j => t.pc = "none" /\ t.status # "error"
  /\ t.pc \in Unread => t.todo = {}
  /\ t.fed \in Nat /\ t.pend \in Seq(Utt)
  /\ spec[j].op \in OpKinds
  /\ spec[j].op = "transcribe" => t.todo = {} /\ t.pc \notin {"read", "wipe", "copy", "unwind"}
  /\ spec[j].op = "diarize" =>
       /\ spec[j].target \in Version \ {j} /\ Started(spec[j].target)
       /\ t.pc \notin {"drive", "drain"}
       /\ t.pc = "copy" => t.todo # {}
       /\ t.status = "error" => t.pc \in {"final", "ended"}
       /\ Covers(db, j) /\ Covers(disk, j)

HandsGood ==
  /\ \A c \in Clients : at[c] = "probe" =>
       /\ about[c].op \in OpKinds
       /\ about[c].op = "diarize" => about[c].v \in Version /\ Started(about[c].v)
  /\ \A c \in Clients : at[c] = "commit" => about[c].v \in Job /\ task[about[c].v].pc = "creating"
  /\ \A c, d \in Clients :
       at[c] = "commit" /\ at[d] = "commit" /\ about[c].v = about[d].v => c = d
  /\ \A c \in Clients : at[c] \in Erasing \cup {"cancel"} => about[c].v \in Job

CopyInv ==
  /\ Shaped /\ DbFull(db) /\ DbFull(disk) /\ HandsGood
  /\ \A v \in Version : /\ VersionGood(db, v) /\ VersionGood(disk, v)
                        /\ disk.segs[v] \subseteq db.segs[v]
  /\ \A j \in Job : RunGood(j)

-----------------------------------------------------------------------------
(* What the writes of a run leave of the words, version by version. *)

Elsewise(x, w) ==
  /\ DbShaped(x) /\ DbFull(x)
  /\ \A v \in Version \ {w} : x.segs[v] = db.segs[v] /\ x.copy[v] = db.copy[v]

SameWords(x) ==
  /\ DbShaped(x) /\ DbFull(x)
  /\ \A v \in Version : x.segs[v] = db.segs[v] /\ x.copy[v] = db.copy[v]

LEMMA Words ==
  ASSUME Shaped, DbFull(db), NEW j \in Job, NEW u
  PROVE  /\ SameWords(db) /\ SameWords(Row(j))
         /\ Elsewise(Added(j, u), j)
         /\ Added(j, u).segs[j] = db.segs[j] \cup {u} /\ Added(j, u).copy[j] = db.copy[j]
<1>1. DbShaped(db) /\ Job \subseteq Version
  BY DEF Shaped, Version
<1>2. SameWords(db)
  BY <1>1 DEF SameWords
<1>3. SameWords(Row(j))
  BY <1>1 DEF Row, Exists, DbShaped, DbFull, SameWords
<1>4. /\ Elsewise(Added(j, u), j)
      /\ Added(j, u).segs[j] = db.segs[j] \cup {u} /\ Added(j, u).copy[j] = db.copy[j]
  <2>1. /\ DbShaped(Added(j, u)) /\ Added(j, u).copy = db.copy /\ Added(j, u).count = db.count
        /\ Added(j, u).segs = [db.segs EXCEPT ![j] = db.segs[j] \cup {u}]
    BY <1>1 DEF Added, DbShaped
  <2> QED BY <1>1, <2>1 DEF DbFull, Elsewise
<1> QED BY <1>2, <1>3, <1>4

LEMMA CopyWords ==
  ASSUME Shaped, DbFull(db), NEW j \in Job, NEW v \in Version, v = spec[j].target, NEW u,
         db.copy[v] \in [Utt -> Nat]
  PROVE  /\ Elsewise(Wiped(j), v) /\ Wiped(j).segs[v] = db.segs[v] /\ Wiped(j).copy[v] = NoCopy
         /\ Elsewise(Copied(j, u), v) /\ Copied(j, u).segs[v] = db.segs[v]
         /\ Copied(j, u).copy[v] \in [Utt -> Nat]
         /\ \A w \in Utt : Copied(j, u).copy[v][w] =
                             IF w = u THEN db.copy[v][w] + 1 ELSE db.copy[v][w]
<1>1. DbShaped(db)
  BY DEF Shaped
<1>2. Elsewise(Wiped(j), v) /\ Wiped(j).segs[v] = db.segs[v] /\ Wiped(j).copy[v] = NoCopy
  BY <1>1 DEF Wiped, DbShaped, DbFull, Elsewise
<1>3. /\ Elsewise(Copied(j, u), v) /\ Copied(j, u).segs[v] = db.segs[v]
      /\ Copied(j, u).copy[v] = [db.copy[v] EXCEPT ![u] = db.copy[v][u] + 1]
  BY <1>1 DEF Copied, DbShaped, DbFull, Elsewise
<1>4. /\ Copied(j, u).copy[v] \in [Utt -> Nat]
      /\ \A w \in Utt : Copied(j, u).copy[v][w] =
                          IF w = u THEN db.copy[v][w] + 1 ELSE db.copy[v][w]
  <2>1. CASE u \in Utt
    <3>1. db.copy[v][u] + 1 \in Nat
      BY <2>1
    <3> QED BY <1>3, <2>1, <3>1
  <2>2. CASE u \notin Utt
    <3>1. Copied(j, u).copy[v] = db.copy[v]
      BY <1>3, <2>2
    <3> QED BY <2>2, <3>1
  <2> QED BY <2>1, <2>2
<1> QED BY <1>2, <1>3, <1>4

-----------------------------------------------------------------------------
(* A run touches one version: a re-transcription its own, a diarization its
   target. *)

Own(j) == IF spec[j].op = "diarize" THEN spec[j].target ELSE j

(* Nobody else copies what a run touches. *)
LEMMA Alone ==
  ASSUME OneWriter, CopyInv, NEW j \in Job, Running(j), NEW k \in Job \ {j},
         spec[k].op = "diarize", spec[k].target = Own(j)
  PROVE  ~Running(k)
<1>1. CASE spec[j].op = "diarize"
  <2>1. Own(j) \in Version /\ Relabels(j, Own(j)) /\ Relabels(k, Own(j))
    BY <1>1 DEF CopyInv, RunGood, Own, Relabels
  <2> QED BY <2>1 DEF OneWriter
<1>2. CASE spec[j].op # "diarize"
  <2>1. j \in Version /\ Relabels(k, j)
    BY <1>2 DEF Own, Relabels, Version
  <2> QED BY <2>1 DEF OneWriter
<1> QED BY <1>1, <1>2

(* Meanwhile the requests stay where they are, or are answered. *)
Answered == /\ at' = [c \in Clients |-> at'[c]]
            /\ \A c \in Clients : at'[c] \in {at[c], "idle"}

(* A step of a run keeps the invariant when it keeps what is said of the run
   and of the version it touches. *)
LEMMA RunCopies ==
  ASSUME CopyInv, OneWriter, NEW j \in Job, Running(j), NEW w \in Version, w = Own(j),
         NEW t, TaskShaped(t), task' = [task EXCEPT ![j] = t],
         t.pc \notin {"none", "creating"}, UNCHANGED <<about, born, spec>>, Answered,
         NEW x, Torn(x), Elsewise(x, w), disk.segs[w] \subseteq x.segs[w],
         VersionGood(db, w)', VersionGood(disk, w)', RunGood(j)'
  PROVE  CopyInv'
<1>1. task'[j] = t /\ \A k \in Job \ {j} : task'[k] = task[k]
  BY DEF CopyInv, Shaped
<1>2. db' = x /\ disk' \in {x, disk}
  BY DEF Torn
<1>3. Shaped' /\ DbFull(db)' /\ DbFull(disk)'
  <2>1. DbShaped(db') /\ DbFull(db') /\ DbShaped(disk') /\ DbFull(disk')
    BY <1>2 DEF Elsewise, CopyInv, Shaped
  <2>2. task' = [k \in Job |-> task'[k]] /\ \A k \in Job : TaskShaped(task'[k])
    BY <1>1 DEF CopyInv, Shaped
  <2>3. DbShaped(db)' /\ DbFull(db)' /\ DbShaped(disk)' /\ DbFull(disk)'
    BY <2>1 DEF DbShaped, DbFull
  <2>4. \A k \in Job : TaskShaped(task[k])'
    BY <2>2 DEF TaskShaped
  <2> QED BY <2>2, <2>3, <2>4 DEF Shaped, CopyInv, AboutShaped, Answered
<1>4. ASSUME NEW v \in Version
      PROVE  /\ Started(v) => Started(v)'
             /\ v = Original \/ task[v].pc = "ended" => v = Original \/ task'[v].pc = "ended"
  <2>1. CASE v \in Job
    BY <1>1, <2>1 DEF Started, Running
  <2>2. CASE v = Original
    BY <2>2 DEF Started
  <2> QED BY <2>1, <2>2 DEF Version
<1>5. ASSUME NEW v \in Version \ {w}
      PROVE  /\ Writer(v) => Writer(v)'
             /\ BrokenOff(v) => BrokenOff(v)'
  <2>1. ASSUME NEW k \in Job, spec[k].op = "diarize", spec[k].target = v PROVE task'[k] = task[k]
    BY <1>1, <2>1 DEF Own
  <2> QED BY <2>1 DEF Writer, BrokenOff
<1>6. ASSUME NEW v \in Version
      PROVE  /\ VersionGood(db, v)' /\ VersionGood(disk, v)'
             /\ disk'.segs[v] \subseteq db'.segs[v]
  <2>1. CASE v = w
    BY <1>2, <2>1
  <2>2. CASE v # w
    <3>1. VersionGood(db, v) /\ VersionGood(disk, v) /\ disk.segs[v] \subseteq db.segs[v]
      BY DEF CopyInv
    <3>2. x.segs[v] = db.segs[v] /\ x.copy[v] = db.copy[v]
      BY <2>2 DEF Elsewise
    <3>3. VersionGood(db, v)'
      BY <1>2, <1>4, <1>5, <2>2, <3>1, <3>2 DEF VersionGood, CopyWhole
    <3>4. VersionGood(disk, v)'
      BY <1>2, <1>4, <1>5, <2>2, <3>1, <3>2 DEF VersionGood, CopyWhole
    <3> QED BY <1>2, <3>1, <3>2, <3>3, <3>4
  <2> QED BY <2>1, <2>2
<1>7. ASSUME NEW k \in Job PROVE RunGood(k)'
  <2>1. CASE k = j
    BY <2>1
  <2>2. CASE k # j
    <3>1. RunGood(k) /\ task'[k] = task[k]
      BY <1>1, <2>2 DEF CopyInv
    <3>2. ASSUME spec[k].op = "diarize"
          PROVE  Started(spec[k].target)' /\ Covers(db, k)' /\ Covers(disk, k)'
      <4>1. spec[k].target \in Version /\ Started(spec[k].target)
            /\ Covers(db, k) /\ Covers(disk, k)
        BY <3>1, <3>2 DEF RunGood
      <4>2. Started(spec[k].target)'
        BY <1>4, <4>1 DEF Started
      <4>3. CASE task[k].pc \in {"wipe", "copy", "tick"}
        <5>1. spec[k].target # w
          BY <2>2, <3>2, <4>3, Alone DEF Running
        <5>2. x.segs[spec[k].target] = db.segs[spec[k].target]
              /\ x.copy[spec[k].target] = db.copy[spec[k].target]
          BY <4>1, <5>1 DEF Elsewise
        <5> QED BY <1>2, <3>1, <4>1, <4>2, <5>2 DEF Covers
      <4>4. CASE task[k].pc \notin {"wipe", "copy", "tick"}
        BY <3>1, <4>2, <4>4 DEF Covers
      <4> QED BY <4>3, <4>4
    <3> QED BY <3>1, <3>2 DEF RunGood
  <2> QED BY <2>1, <2>2
<1>8. HandsGood'
  <2>1. HandsGood
    BY DEF CopyInv
  <2>2. ASSUME NEW c \in Clients, at[c] = "commit" PROVE task'[about[c].v].pc = "creating"
    BY <1>1, <2>1, <2>2 DEF HandsGood, Running
  <2>3. ASSUME NEW c \in Clients, at[c] = "probe", about[c].op = "diarize"
        PROVE  Started(about[c].v)'
    <3>1. about[c].v \in Version /\ Started(about[c].v)
      BY <2>1, <2>3 DEF HandsGood
    <3> QED BY <1>4, <3>1 DEF Started
  <2>4. \A c \in Clients : at'[c] # "idle" => at'[c] = at[c]
    BY DEF Answered
  <2>5. "idle" \notin {"probe", "commit", "cancel"} \cup Erasing
    BY DEF Erasing
  <2> QED BY <2>1, <2>2, <2>3, <2>4, <2>5 DEF HandsGood
<1> QED BY <1>3, <1>6, <1>7, <1>8 DEF CopyInv

(* A re-transcription has no copy while it runs, so whatever it writes there is
   nothing a copy could have missed. *)
LEMMA TranscribeCopies ==
  ASSUME CopyInv, OneWriter, NEW j \in Job, Running(j), spec[j].op = "transcribe",
         NEW t, TaskShaped(t), task' = [task EXCEPT ![j] = t],
         t.pc \notin {"none", "creating", "read", "wipe", "copy", "unwind"}, t.todo = {},
         t.fed \in Nat, t.pend \in Seq(Utt), UNCHANGED <<about, born, spec>>, Answered,
         NEW x, Torn(x), Elsewise(x, j), x.copy[j] = db.copy[j],
         db.segs[j] \subseteq x.segs[j], x.segs[j] \subseteq Utt
  PROVE  CopyInv'
<1>0. j \in Version /\ j = Own(j) /\ task'[j] = t /\ j # Original
  BY DEF Version, Own, CopyInv, Shaped, Job, Original
<1>1. /\ VersionGood(db, j) /\ VersionGood(disk, j) /\ disk.segs[j] \subseteq db.segs[j]
      /\ RunGood(j) /\ task[j].pc \notin {"none", "creating", "ended"}
  BY <1>0 DEF CopyInv, Running
<1>2. db.copy[j] = NoCopy /\ disk.copy[j] = NoCopy
  BY <1>0, <1>1 DEF VersionGood
<1>3. db' = x /\ disk' \in {x, disk}
  BY DEF Torn
<1>4. Started(j)'
  BY <1>0 DEF Started
<1>5. VersionGood(db, j)'
  BY <1>1, <1>2, <1>3, <1>4 DEF VersionGood, CopyWhole
<1>6. VersionGood(disk, j)'
  BY <1>1, <1>2, <1>3, <1>4 DEF VersionGood, CopyWhole
<1>7. RunGood(j)'
  BY <1>0, <1>1 DEF RunGood
<1> QED BY <1>0, <1>1, <1>5, <1>6, <1>7, RunCopies

(* A diarization: it is alone on a version whose own run is over, and all that
   is left to show is that it writes the version's copy, broke it off, or left
   it whole. *)
LEMMA DiarizeCopies ==
  ASSUME CopyInv, OneWriter, NEW j \in Job, Running(j), spec[j].op = "diarize",
         NEW v, v = spec[j].target,
         NEW t, TaskShaped(t), task' = [task EXCEPT ![j] = t],
         t.pc \notin {"none", "creating", "drive", "drain"},
         t.pc \in Unread => t.todo = {},
         t.status = "error" => t.pc \in {"final", "ended"},
         t.pc = "copy" => t.todo # {}, t.fed = task[j].fed, t.pend = task[j].pend,
         UNCHANGED <<about, born, spec>>, Answered,
         NEW x, Torn(x), Elsewise(x, v), x.copy[v] \in [Utt -> Nat], x.segs[v] = db.segs[v],
         Covers(db, j)', Covers(disk, j)',
         \/ Writer(v)' \/ BrokenOff(v)'
         \/ (CopyWhole(db, v)' /\ CopyWhole(disk, v)')
  PROVE  CopyInv'
<1>0. /\ v \in Version /\ v = Own(j) /\ task'[j] = t /\ \A k \in Job \ {j} : task'[k] = task[k]
      /\ RunGood(j) /\ Started(v)
  BY DEF Own, CopyInv, Shaped, RunGood
<1>1. VersionGood(db, v) /\ VersionGood(disk, v) /\ disk.segs[v] \subseteq db.segs[v]
  BY <1>0 DEF CopyInv
<1>2. db' = x /\ disk' \in {x, disk}
  BY DEF Torn
<1>3. v = Original \/ (v # j /\ task[v].pc = "ended" /\ task'[v].pc = "ended")
  <2>1. CASE v \in Job
    <3>1. ~Running(v)
      BY <1>0, <2>1 DEF OneWriter, Relabels
    <3>2. v # j /\ v # Original
      BY <2>1, <3>1 DEF Job, Original
    <3> QED BY <1>0, <2>1, <3>1, <3>2 DEF Running, Started
  <2> QED BY <1>0, <2>1 DEF Version
<1>4. Started(v)'
  BY <1>3 DEF Started
<1>5. VersionGood(db, v)'
  BY <1>1, <1>2, <1>3, <1>4 DEF VersionGood
<1>6. VersionGood(disk, v)'
  BY <1>1, <1>2, <1>3, <1>4 DEF VersionGood
<1>7. RunGood(j)'
  <2>1. /\ spec'[j] = spec[j] /\ spec[j].op # "transcribe" /\ spec[j].op \in OpKinds
        /\ born' = born /\ ~(born < j)
    BY <1>0 DEF RunGood, Running
  <2>2. t.fed \in Nat /\ t.pend \in Seq(Utt)
    BY <1>0 DEF RunGood
  <2>3. Started(spec[j].target)'
    BY <1>4, <2>1 DEF Started
  <2> QED BY <1>0, <2>1, <2>2, <2>3 DEF RunGood
<1> QED BY <1>0, <1>1, <1>5, <1>6, <1>7, RunCopies

(* Nobody writes the version of a diarization but itself. *)
LEMMA Unwritten ==
  ASSUME CopyInv, OneWriter, NEW j \in Job, Running(j), spec[j].op = "diarize",
         NEW v, v = spec[j].target, task[j].pc \notin {"copy", "tick", "unwind"}
  PROVE  v \in Version /\ (BrokenOff(v) \/ (CopyWhole(db, v) /\ CopyWhole(disk, v)))
<1>0. v \in Version /\ v = Own(j)
  BY DEF CopyInv, RunGood, Own
<1>1. ~Writer(v)
  <2>1. ASSUME NEW k \in Job, spec[k].op = "diarize", spec[k].target = v,
               task[k].pc \in {"copy", "tick", "unwind"}
        PROVE  FALSE
    <3>1. k # j /\ Running(k)
      BY <2>1 DEF Running
    <3> QED BY <1>0, <2>1, <3>1, Alone
  <2> QED BY <2>1 DEF Writer
<1> QED BY <1>0, <1>1 DEF CopyInv, VersionGood

(* A step outside the copy leaves it as it was. *)
LEMMA QuietCopies ==
  ASSUME CopyInv, OneWriter, NEW j \in Job, Running(j), spec[j].op = "diarize",
         task[j].pc \notin {"copy", "tick", "unwind"},
         NEW t, TaskShaped(t), task' = [task EXCEPT ![j] = t],
         t.pc \in {"early", "start", "prepare", "read", "shielded", "final", "ended"},
         t.todo = task[j].todo, t.fed = task[j].fed, t.pend = task[j].pend,
         t.pc \in Unread => task[j].pc \in Unread,
         t.status = "error" => t.pc \in {"final", "ended"},
         t.todo # {} /\ task[j].status = "error" => t.status = "error",
         UNCHANGED <<about, born, spec>>, Answered, NEW x, Torn(x), SameWords(x)
  PROVE  CopyInv'
<1> DEFINE v == spec[j].target
<1>0. /\ RunGood(j) /\ v \in Version /\ task'[j] = t
      /\ \A k \in Job \ {j} : task'[k] = task[k]
  BY DEF CopyInv, Shaped, RunGood
<1>1. BrokenOff(v) \/ (CopyWhole(db, v) /\ CopyWhole(disk, v))
  BY Unwritten
<1>2. db' = x /\ disk' \in {x, disk} /\ x.segs[v] = db.segs[v] /\ x.copy[v] = db.copy[v]
  BY <1>0 DEF Torn, SameWords
<1>3. x.copy[v] \in [Utt -> Nat]
  BY <1>0, <1>2 DEF CopyInv, VersionGood
<1>4. BrokenOff(v)' \/ (CopyWhole(db, v)' /\ CopyWhole(disk, v)')
  <2>1. CASE CopyWhole(db, v) /\ CopyWhole(disk, v)
    BY <1>2, <2>1 DEF CopyWhole
  <2>2. CASE BrokenOff(v)
    <3>1. PICK k \in Job : spec[k].op = "diarize" /\ spec[k].target = v
                           /\ task[k].status = "error" /\ task[k].todo # {}
      BY <2>2 DEF BrokenOff
    <3>2. task'[k].status = "error" /\ task'[k].todo # {}
      BY <1>0, <3>1
    <3> QED BY <3>1, <3>2 DEF BrokenOff
  <2> QED BY <1>1, <2>1, <2>2
<1>5. Covers(db, j)' /\ Covers(disk, j)'
  BY <1>0 DEF Covers
<1>6. t.pc \in Unread => t.todo = {}
  BY <1>0 DEF RunGood
<1>7. Elsewise(x, v)
  BY DEF SameWords, Elsewise
<1>8. t.pc \notin {"none", "creating", "drive", "drain", "copy"}
  OBVIOUS
<1> QED BY <1>2, <1>3, <1>4, <1>5, <1>6, <1>7, <1>8, DiarizeCopies

-----------------------------------------------------------------------------
(* The steps of a run. *)

(* Moving on without having anything to do with the words. *)
LEMMA MovesCopies ==
  ASSUME CopyInv, OneWriter, NEW j \in Job, Running(j),
         task[j].pc \notin {"copy", "tick", "unwind"},
         NEW t, TaskShaped(t), task' = [task EXCEPT ![j] = t],
         t.pc \in {"early", "start", "prepare", "shielded", "final", "ended"},
         t.todo = task[j].todo, t.fed = task[j].fed, t.pend = task[j].pend,
         t.pc \in Unread => task[j].pc \in Unread,
         spec[j].op = "diarize" /\ t.status = "error" => t.pc \in {"final", "ended"},
         t.todo # {} /\ task[j].status = "error" => t.status = "error",
         UNCHANGED <<about, born, spec>>, Answered, NEW x, Torn(x), SameWords(x)
  PROVE  CopyInv'
<1>1. RunGood(j) /\ j \in Version
  BY DEF CopyInv, Version
<1>2. CASE spec[j].op = "transcribe"
  <2>1. t.todo = {} /\ t.fed \in Nat /\ t.pend \in Seq(Utt)
    BY <1>1, <1>2 DEF RunGood
  <2>2. Elsewise(x, j) /\ x.copy[j] = db.copy[j] /\ x.segs[j] = db.segs[j] /\ db.segs[j] \subseteq Utt
    BY <1>1 DEF SameWords, Elsewise, CopyInv, VersionGood
  <2>3. t.pc \notin {"none", "creating", "read", "wipe", "copy", "unwind"}
    OBVIOUS
  <2> QED BY <1>2, <2>1, <2>2, <2>3, TranscribeCopies
<1>3. CASE spec[j].op = "diarize"
  BY <1>3, QuietCopies
<1> QED BY <1>1, <1>2, <1>3 DEF RunGood, OpKinds

(* Lands, as far as the copies are concerned. *)
LEMMA Landing ==
  ASSUME Shaped, NEW j \in Job, NEW t, t = Lands(task[j])
  PROVE  /\ TaskShaped(t) /\ t.pc \in {"shielded", "final"} /\ t.todo = task[j].todo
         /\ t.fed = task[j].fed /\ t.pend = task[j].pend
         /\ t.status = "error" => t.pc = "final" /\ task[j].status = "error"
<1>1. TaskShaped(task[j])
  BY DEF Shaped
<1> QED BY <1>1 DEF Lands, TaskShaped, TaskFields

LEMMA TornIs ==
  /\ UNCHANGED <<db, disk>> => Torn(db)
  /\ \A x : Commit(x) => Torn(x)
  BY DEF Torn, Commit

LEMMA EndingCopies ==
  ASSUME CopyInv, OneWriter, NEW j \in Job, Ending(j)
  PROVE  CopyInv'
<1>1. Shaped /\ DbFull(db) /\ RunGood(j) /\ SameWords(db) /\ SameWords(Row(j))
  BY Words DEF CopyInv
<1>2. Running(j) /\ UNCHANGED <<about, born, spec>> /\ Answered
  <2>1. at = [c \in Clients |-> at[c]]
    BY <1>1 DEF Shaped
  <2> QED BY <2>1 DEF Ending, RunBegins, RunNever, RunStarts, Shields, Finalises, TaskFrame,
                      Running, Answered
<1>3. CASE RunBegins(j)
  <2> DEFINE t == [task[j] EXCEPT !.pc = IF task[j].asked THEN "early" ELSE "start",
                     !.status = IF task[j].asked THEN "cancelled" ELSE "running",
                     !.stopped = task[j].asked]
  <2>1. TaskShaped(task[j])
    BY <1>1 DEF Shaped
  <2>2. /\ TaskShaped(t) /\ t.pc \in {"early", "start"} /\ t.todo = task[j].todo
        /\ t.fed = task[j].fed /\ t.pend = task[j].pend /\ t.status # "error"
    BY <2>1 DEF TaskShaped, TaskFields
  <2>3. task[j].pc = "new" /\ task[j].todo = {} /\ task' = [task EXCEPT ![j] = t] /\ Torn(db)
    BY <1>1, <1>3, TornIs DEF RunBegins, RunGood, Unread
  <2> HIDE DEF t
  <2>4. t.todo = {} /\ task[j].pc \in Unread
    BY <2>2, <2>3 DEF Unread
  <2> QED BY <1>1, <1>2, <2>2, <2>3, <2>4, MovesCopies
<1>4. ASSUME NEW l \in {"prepare", "ended"}, Goes(j, l), Commit(Row(j)),
             task[j].pc \in {"early", "start", "shielded", "final"},
             l = "prepare" => task[j].pc = "start"
      PROVE  CopyInv'
  <2> DEFINE t == [task[j] EXCEPT !.pc = l]
  <2>1. TaskShaped(task[j])
    BY <1>1 DEF Shaped
  <2>2. /\ TaskShaped(t) /\ t.pc = l /\ t.todo = task[j].todo /\ t.status = task[j].status
        /\ t.fed = task[j].fed /\ t.pend = task[j].pend
    BY <2>1 DEF TaskShaped, TaskFields
  <2>3. task' = [task EXCEPT ![j] = t] /\ Torn(Row(j))
    BY <1>4, TornIs DEF Goes
  <2> HIDE DEF t
  <2>4. spec[j].op = "diarize" /\ t.status = "error" => t.pc \in {"final", "ended"}
    BY <1>1, <1>4, <2>2 DEF RunGood
  <2>5. t.pc \in Unread => task[j].pc \in Unread
    BY <1>4, <2>2 DEF Unread
  <2> QED BY <1>1, <1>2, <1>4, <2>2, <2>3, <2>4, <2>5, MovesCopies
<1> QED BY <1>3, <1>4 DEF Ending, RunNever, RunStarts, Shields, Finalises

(* What a re-transcription does besides: nothing that has to do with copies. *)
LEMMA HearingCopies ==
  ASSUME CopyInv, OneWriter, NEW j \in Job, Running(j), spec[j].op = "transcribe",
         UNCHANGED <<about, born, spec>>, Answered,
         NEW t, TaskShaped(t), task' = [task EXCEPT ![j] = t],
         t.pc \in {"drive", "tick", "drain", "shielded", "final", "ended"}, t.todo = task[j].todo,
         t.fed \in {task[j].fed, task[j].fed + 1},
         \/ t.pend = task[j].pend
         \/ task[j].pend # <<>> /\ t.pend = Tail(task[j].pend)
         \/ task[j].fed < MaxUtts /\ t.pend = Append(task[j].pend, task[j].fed + 1),
         NEW x, Torn(x),
         SameWords(x) \/ (task[j].pend # <<>> /\ x = Added(j, Head(task[j].pend)))
  PROVE  CopyInv'
<1>1. Shaped /\ DbFull(db) /\ RunGood(j) /\ j \in Version
  BY DEF CopyInv, Version
<1>2. task[j].fed \in Nat /\ task[j].pend \in Seq(Utt) /\ task[j].todo = {} /\ MaxUtts \in Nat
  BY <1>1, ConstantsAssumption DEF RunGood
<1>3. t.fed \in Nat /\ t.todo = {}
  BY <1>2
<1>4. t.pend \in Seq(Utt)
  <2>1. CASE t.pend = task[j].pend
    BY <1>2, <2>1
  <2>2. CASE task[j].pend # <<>> /\ t.pend = Tail(task[j].pend)
    BY <1>2, <2>2
  <2>3. CASE task[j].fed < MaxUtts /\ t.pend = Append(task[j].pend, task[j].fed + 1)
    <3>1. task[j].fed + 1 \in Utt
      BY <1>2, <2>3 DEF Utt
    <3> QED BY <1>2, <2>3, <3>1
  <2> QED BY <2>1, <2>2, <2>3
<1>5. db.segs[j] \subseteq Utt
  BY <1>1 DEF CopyInv, VersionGood
<1>6. /\ Elsewise(x, j) /\ x.copy[j] = db.copy[j]
      /\ db.segs[j] \subseteq x.segs[j] /\ x.segs[j] \subseteq Utt
  <2>1. CASE SameWords(x)
    BY <1>1, <1>5, <2>1 DEF SameWords, Elsewise
  <2>2. CASE task[j].pend # <<>> /\ x = Added(j, Head(task[j].pend))
    <3>1. Head(task[j].pend) \in Utt
      BY <1>2, <2>2
    <3> QED BY <1>1, <1>5, <2>2, <3>1, Words
  <2> QED BY <2>1, <2>2
<1>7. t.pc \notin {"none", "creating", "read", "wipe", "copy", "unwind"}
  OBVIOUS
<1> QED BY <1>3, <1>4, <1>6, <1>7, TranscribeCopies

LEMMA DrivingCopies ==
  ASSUME CopyInv, OneWriter, NEW j \in Job, spec[j].op = "transcribe",
         Driving(j) \/ Router(j) \/ FeedExhausted(j) \/ StoreFails(j) \/ CutDrive(j),
         UNCHANGED <<about, born, spec>>, Answered
  PROVE  CopyInv'
<1> DEFINE Pcs == {"drive", "tick", "drain", "shielded", "final", "ended"}
           x    == Added(j, Head(task[j].pend))
<1>1. Shaped /\ DbFull(db) /\ RunGood(j) /\ SameWords(db) /\ SameWords(Row(j)) /\ TaskShaped(task[j])
  BY Words DEF CopyInv, Shaped
<1>2. task[j].todo = {} /\ (UNCHANGED <<db, disk>> => Torn(db)) /\ \A y : Commit(y) => Torn(y)
  BY <1>1, TornIs DEF RunGood
<1>3. ASSUME NEW t, TaskShaped(t), task' = [task EXCEPT ![j] = t], Running(j),
             t.pc \in Pcs, t.todo = task[j].todo,
             \/ t.fed = task[j].fed /\ t.pend = task[j].pend
             \/ t.fed = task[j].fed + 1 /\ t.pend = task[j].pend
             \/ /\ t.fed = task[j].fed + 1 /\ task[j].fed < MaxUtts
                /\ t.pend = Append(task[j].pend, task[j].fed + 1),
             UNCHANGED <<db, disk>> \/ Torn(Row(j))
      PROVE  CopyInv'
  <2>1. PICK y \in {db, Row(j)} : Torn(y) /\ SameWords(y)
    BY <1>1, <1>2, <1>3
  <2>2. t.pc \in {"drive", "tick", "drain", "shielded", "final", "ended"}
    BY <1>3
  <2> QED BY <1>3, <2>1, <2>2, HearingCopies
<1>4. CASE Prepared(j)
  <2> DEFINE t == [task[j] EXCEPT !.pc = "drive"]
  <2>1. TaskShaped(t) /\ t.pc = "drive" /\ t.todo = task[j].todo /\ t.fed = task[j].fed
        /\ t.pend = task[j].pend
    BY <1>1 DEF TaskShaped, TaskFields
  <2>2. task' = [task EXCEPT ![j] = t] /\ Running(j) /\ UNCHANGED <<db, disk>>
    BY <1>4 DEF Prepared, Goes, Running
  <2> HIDE DEF t
  <2> QED BY <1>3, <2>1, <2>2
<1>5. CASE Hears(j)
  <2>1. Running(j) /\ UNCHANGED <<db, disk>> /\ task[j].pc \in Pcs /\ task[j].fed < MaxUtts
    BY <1>5 DEF Hears, Feeding, Running
  <2>2. CASE task' = [task EXCEPT ![j] = [task[j] EXCEPT
               !.fed = task[j].fed + 1, !.pend = Append(task[j].pend, task[j].fed + 1)]]
    <3> DEFINE t == [task[j] EXCEPT !.fed = task[j].fed + 1,
                                    !.pend = Append(task[j].pend, task[j].fed + 1)]
    <3>1. TaskShaped(t) /\ t.pc = task[j].pc /\ t.todo = task[j].todo /\ t.fed = task[j].fed + 1
          /\ t.pend = Append(task[j].pend, task[j].fed + 1)
      BY <1>1 DEF TaskShaped, TaskFields
    <3>2. task' = [task EXCEPT ![j] = t]
      BY <2>2
    <3> HIDE DEF t, Pcs
    <3> QED BY <1>3, <2>1, <3>1, <3>2
  <2>3. CASE task' = [task EXCEPT ![j].fed = @ + 1]
    <3> DEFINE t == [task[j] EXCEPT !.fed = task[j].fed + 1]
    <3>1. TaskShaped(t) /\ t.pc = task[j].pc /\ t.todo = task[j].todo /\ t.fed = task[j].fed + 1
          /\ t.pend = task[j].pend
      BY <1>1 DEF TaskShaped, TaskFields
    <3>2. task' = [task EXCEPT ![j] = t]
      BY <2>3
    <3> HIDE DEF t, Pcs
    <3> QED BY <1>3, <2>1, <3>1, <3>2
  <2>4. CASE task' = [task EXCEPT ![j] = [task[j] EXCEPT
               !.fed = task[j].fed + 1, !.dropped = TRUE]]
    <3> DEFINE t == [task[j] EXCEPT !.fed = task[j].fed + 1, !.dropped = TRUE]
    <3>1. TaskShaped(t) /\ t.pc = task[j].pc /\ t.todo = task[j].todo /\ t.fed = task[j].fed + 1
          /\ t.pend = task[j].pend
      BY <1>1 DEF TaskShaped, TaskFields
    <3>2. task' = [task EXCEPT ![j] = t]
      BY <2>4
    <3> HIDE DEF t, Pcs
    <3> QED BY <1>3, <2>1, <3>1, <3>2
  <2> QED BY <1>5, <2>2, <2>3, <2>4 DEF Hears
<1>6. CASE FeedEnds(j)
  <2> DEFINE t == [task[j] EXCEPT !.closed = "clean",
                     !.stopped = task[j].asked /\ task[j].fed < MaxUtts]
  <2>1. TaskShaped(t) /\ t.pc = task[j].pc /\ t.todo = task[j].todo /\ t.fed = task[j].fed
        /\ t.pend = task[j].pend
    BY <1>1 DEF TaskShaped, TaskFields
  <2>2. /\ task' = [task EXCEPT ![j] = t] /\ Running(j) /\ UNCHANGED <<db, disk>>
        /\ task[j].pc \in Pcs
    BY <1>6 DEF FeedEnds, Feeding, Running
  <2> HIDE DEF t, Pcs
  <2> QED BY <1>3, <2>1, <2>2
<1>7. CASE FeedExhausted(j)
  <2> DEFINE t == [task[j] EXCEPT !.fed = task[j].fed + 1, !.closed = "exhausted"]
  <2>1. TaskShaped(t) /\ t.pc = task[j].pc /\ t.todo = task[j].todo /\ t.fed = task[j].fed + 1
        /\ t.pend = task[j].pend
    BY <1>1 DEF TaskShaped, TaskFields
  <2>2. /\ task' = [task EXCEPT ![j] = t] /\ Running(j) /\ UNCHANGED <<db, disk>>
        /\ task[j].pc \in Pcs
    BY <1>7 DEF FeedExhausted, Feeding, Running
  <2> HIDE DEF t, Pcs
  <2> QED BY <1>3, <2>1, <2>2
<1>8. CASE Stores(j)
  <2> DEFINE t == [task[j] EXCEPT !.pc = "tick", !.pend = Tail(task[j].pend),
                                  !.count = task[j].count + 1]
  <2>1. TaskShaped(t) /\ t.pc = "tick" /\ t.todo = task[j].todo /\ t.fed = task[j].fed
        /\ t.pend = Tail(task[j].pend)
    BY <1>1 DEF TaskShaped, TaskFields
  <2>2. /\ task' = [task EXCEPT ![j] = t] /\ Running(j) /\ task[j].pend # <<>>
    BY <1>8 DEF Stores, Running
  <2>3. Torn(x)
    BY <1>2, <1>8 DEF Stores
  <2> HIDE DEF t
  <2> QED BY <2>1, <2>2, <2>3, HearingCopies
<1>9. CASE StoreFails(j) \/ DriveEnds(j)
  <2>1. PICK l, status : l \in {"drain", "final"} /\ Ends(j, l, status)
    BY <1>9 DEF StoreFails, DriveEnds
  <2> DEFINE t == [task[j] EXCEPT !.pc = l, !.status = status]
  <2>2. TaskShaped(t) /\ t.pc = l /\ t.todo = task[j].todo /\ t.fed = task[j].fed
        /\ t.pend = task[j].pend
    BY <1>1 DEF TaskShaped, TaskFields
  <2>3. task' = [task EXCEPT ![j] = t] /\ Running(j) /\ UNCHANGED <<db, disk>>
    BY <1>9, <2>1 DEF StoreFails, DriveEnds, Ends, Running
  <2> HIDE DEF t
  <2> QED BY <1>3, <2>1, <2>2, <2>3
<1>10. CASE Ticks(j)
  <2> DEFINE t == [task[j] EXCEPT !.pc = "drive", !.status = task[j].status]
  <2>1. TaskShaped(t) /\ t.pc = "drive" /\ t.todo = task[j].todo /\ t.fed = task[j].fed
        /\ t.pend = task[j].pend
    BY <1>1 DEF TaskShaped, TaskFields
  <2>2. task' = [task EXCEPT ![j] = t] /\ Running(j)
    BY <1>10 DEF Ticks, Running
  <2>3. UNCHANGED <<db, disk>> \/ Torn(Row(j))
    BY <1>2, <1>10 DEF Ticks
  <2> HIDE DEF t
  <2> QED BY <1>3, <2>1, <2>2, <2>3
<1>11. CASE Drained(j)
  <2>1. Running(j) /\ UNCHANGED <<db, disk>>
    BY <1>11 DEF Drained, Running
  <2>2. CASE task' = [task EXCEPT ![j] = [task[j] EXCEPT !.pc = "final", !.status = "error"]]
    <3> DEFINE t == [task[j] EXCEPT !.pc = "final", !.status = "error"]
    <3>1. TaskShaped(t) /\ t.pc = "final" /\ t.todo = task[j].todo /\ t.fed = task[j].fed
          /\ t.pend = task[j].pend
      BY <1>1 DEF TaskShaped, TaskFields
    <3>2. task' = [task EXCEPT ![j] = t]
      BY <2>2
    <3> HIDE DEF t
    <3> QED BY <1>3, <2>1, <3>1, <3>2
  <2>3. CASE task' = [task EXCEPT ![j] = Lands(task[j])]
    BY <1>1, <1>3, <2>1, <2>3, Landing
  <2> QED BY <1>11, <2>2, <2>3 DEF Drained
<1>12. CASE CutDrive(j)
  <2> DEFINE t == [task[j] EXCEPT !.pc = "drain",
                     !.closed = IF task[j].pc = "drain" /\ task[j].closed = "no" THEN "clean"
                                ELSE task[j].closed,
                     !.status = "running"]
  <2>1. TaskShaped(t) /\ t.pc = "drain" /\ t.todo = task[j].todo /\ t.fed = task[j].fed
        /\ t.pend = task[j].pend
    BY <1>1 DEF TaskShaped, TaskFields
  <2>2. task' = [task EXCEPT ![j] = t] /\ Running(j)
    BY <1>12 DEF CutDrive, Running
  <2>3. \/ UNCHANGED <<db, disk>> \/ Torn(Row(j))
        \/ task[j].pend # <<>> /\ Torn(x)
    BY <1>12 DEF CutDrive
  <2> HIDE DEF t
  <2>4. CASE task[j].pend # <<>> /\ Torn(x)
    BY <2>1, <2>2, <2>4, HearingCopies
  <2>5. CASE UNCHANGED <<db, disk>> \/ Torn(Row(j))
    BY <1>3, <2>1, <2>2, <2>5
  <2> QED BY <2>3, <2>4, <2>5
<1> QED
  BY <1>4, <1>5, <1>6, <1>7, <1>8, <1>9, <1>10, <1>11, <1>12 DEF Driving, Router

(* What a diarization does: it reads what it has to copy, drops what an earlier
   one left, copies row by row, and cut in the middle it takes its copy back. *)
LEMMA CopyingCopies ==
  ASSUME CopyInv, OneWriter, NEW j \in Job, spec[j].op = "diarize",
         \/ Diarized(j) \/ ReadsBase(j) \/ Wipes(j) \/ Copies(j) \/ Ticks(j)
         \/ CopyFails(j) \/ CutCopy(j),
         UNCHANGED <<about, born, spec>>, Answered
  PROVE  CopyInv'
<1>0. PICK v : v = spec[j].target
  OBVIOUS
<1>1. /\ Shaped /\ DbFull(db) /\ RunGood(j) /\ SameWords(db) /\ SameWords(Row(j))
      /\ TaskShaped(task[j]) /\ v \in Version /\ Covers(db, j) /\ Covers(disk, j)
  BY <1>0, Words DEF CopyInv, Shaped, RunGood
<1>2. /\ UNCHANGED <<db, disk>> => Torn(db)
      /\ \A x : Commit(x) => Torn(x)
  BY TornIs
<1>3. /\ VersionGood(db, v) /\ VersionGood(disk, v) /\ disk.segs[v] \subseteq db.segs[v]
      /\ db.copy[v] \in [Utt -> Nat] /\ db.segs[v] \subseteq Utt
  BY <1>1 DEF CopyInv, VersionGood
<1>4. \A x : SameWords(x) => /\ Elsewise(x, v) /\ x.segs[v] = db.segs[v] /\ x.copy[v] = db.copy[v]
  BY <1>1 DEF SameWords, Elsewise
<1>5. CASE Diarized(j)
  <2>1. PICK l \in {"read", "final"}, status \in {task[j].status, "done"} :
          task' = [task EXCEPT ![j] = [task[j] EXCEPT !.pc = l, !.status = status]]
    <3>1. CASE Goes(j, "read")
      <4>1. task[j] = [task[j] EXCEPT !.status = task[j].status]
        BY <1>1 DEF TaskShaped, TaskFields
      <4>2. [task[j] EXCEPT !.pc = "read"] =
              [task[j] EXCEPT !.pc = "read", !.status = task[j].status]
        BY <1>1, <4>1 DEF TaskShaped, TaskFields
      <4> QED BY <3>1, <4>2 DEF Goes
    <3>2. CASE Ends(j, "final", "done")
      BY <3>2 DEF Ends
    <3> QED BY <1>5, <3>1, <3>2 DEF Diarized
  <2> DEFINE t == [task[j] EXCEPT !.pc = l, !.status = status]
  <2>2. /\ TaskShaped(t) /\ t.pc = l /\ t.todo = task[j].todo /\ t.fed = task[j].fed
        /\ t.pend = task[j].pend /\ t.status \in {task[j].status, "done"}
    BY <1>1 DEF TaskShaped, TaskFields
  <2>3. /\ task' = [task EXCEPT ![j] = t] /\ Torn(db) /\ Running(j) /\ task[j].pc = "prepare"
        /\ task[j].todo = {} /\ task[j].status # "error" /\ task[j].pc \in Unread
    BY <1>1, <1>2, <1>5, <2>1 DEF Diarized, Running, RunGood, Unread
  <2> HIDE DEF t
  <2> QED BY <1>1, <2>2, <2>3, QuietCopies
<1>6. CASE ReadsBase(j)
  <2> DEFINE t == [task[j] EXCEPT !.pc = "wipe", !.todo = db.segs[v]]
  <2>1. /\ TaskShaped(t) /\ t.pc = "wipe" /\ t.todo = db.segs[v] /\ t.fed = task[j].fed
        /\ t.pend = task[j].pend /\ t.status = task[j].status
    BY <1>1 DEF TaskShaped, TaskFields
  <2>2. /\ task' = [task EXCEPT ![j] = t] /\ UNCHANGED <<db, disk>> /\ Running(j)
        /\ task[j].pc = "read" /\ task[j].status # "error" /\ task[j].todo = {}
    BY <1>0, <1>1, <1>6 DEF ReadsBase, Running, RunGood, Unread
  <2> HIDE DEF t
  <2>3. /\ task'[j] = t /\ \A k \in Job \ {j} : task'[k] = task[k]
    BY <1>1, <2>2 DEF Shaped
  <2>4. Covers(db, j)' /\ Covers(disk, j)'
    BY <1>0, <1>3, <2>1, <2>2, <2>3 DEF Covers
  <2>5. Writer(v)' \/ BrokenOff(v)' \/ (CopyWhole(db, v)' /\ CopyWhole(disk, v)')
    <3>1. BrokenOff(v) \/ (CopyWhole(db, v) /\ CopyWhole(disk, v))
      BY <1>0, <2>2, Unwritten
    <3>2. CASE BrokenOff(v)
      <4>1. PICK k \in Job : spec[k].op = "diarize" /\ spec[k].target = v
                             /\ task[k].status = "error" /\ task[k].todo # {}
        BY <1>0, <3>2 DEF BrokenOff
      <4>2. k # j
        BY <2>2, <4>1
      <4>3. task'[k] = task[k] /\ spec' = spec
        BY <2>3, <4>2
      <4> QED BY <1>0, <4>1, <4>3 DEF BrokenOff
    <3>3. CASE CopyWhole(db, v) /\ CopyWhole(disk, v)
      BY <2>2, <3>3 DEF CopyWhole
    <3> QED BY <3>1, <3>2, <3>3
  <2>6. /\ t.pc \notin {"none", "creating", "drive", "drain"} /\ t.pc \notin Unread
        /\ t.pc # "copy" /\ t.status # "error"
    BY <2>1, <2>2 DEF Unread
  <2>7. Torn(db) /\ Elsewise(db, v)
    BY <1>1, <1>2, <1>4, <2>2
  <2> QED BY <1>0, <1>3, <2>1, <2>2, <2>4, <2>5, <2>6, <2>7, DiarizeCopies
<1>7. CASE Wipes(j)
  <2>1. PICK l \in {"final", "copy"}, status \in {task[j].status, "done"} :
          /\ task' = [task EXCEPT ![j] = [task[j] EXCEPT !.pc = l, !.status = status]]
          /\ l = "copy" => task[j].todo # {}
    <3>1. CASE Goes(j, "copy") /\ task[j].todo # {}
      <4>1. [task[j] EXCEPT !.pc = "copy"] =
              [task[j] EXCEPT !.pc = "copy", !.status = task[j].status]
        BY <1>1 DEF TaskShaped, TaskFields
      <4> QED BY <3>1, <4>1 DEF Goes
    <3>2. CASE Ends(j, "final", "done")
      BY <3>2 DEF Ends
    <3> QED BY <1>7, <3>1, <3>2 DEF Wipes
  <2> DEFINE t == [task[j] EXCEPT !.pc = l, !.status = status]
  <2>2. /\ TaskShaped(t) /\ t.pc = l /\ t.todo = task[j].todo /\ t.fed = task[j].fed
        /\ t.pend = task[j].pend /\ t.status \in {task[j].status, "done"}
    BY <1>1 DEF TaskShaped, TaskFields
  <2>3. /\ task' = [task EXCEPT ![j] = t] /\ Commit(Wiped(j)) /\ Running(j)
        /\ task[j].pc = "wipe" /\ task[j].status # "error"
    BY <1>1, <1>7, <2>1 DEF Wipes, Running, RunGood
  <2> HIDE DEF t
  <2>4. /\ task'[j] = t
    BY <1>1, <2>3 DEF Shaped
  <2>5. /\ Elsewise(Wiped(j), v) /\ Wiped(j).segs[v] = db.segs[v] /\ Wiped(j).copy[v] = NoCopy
        /\ db' = Wiped(j) /\ disk' = Wiped(j) /\ Torn(Wiped(j))
    BY <1>0, <1>1, <1>2, <1>3, <2>3, CopyWords DEF Commit
  <2>6. Covers(db, j)' /\ Covers(disk, j)'
    BY <1>0, <1>1, <2>2, <2>3, <2>4, <2>5 DEF Covers
  <2>7. CopyWhole(db, v)' /\ CopyWhole(disk, v)'
    BY <2>5 DEF CopyWhole
  <2>8. /\ t.pc \notin {"none", "creating", "drive", "drain"} /\ t.pc \notin Unread
        /\ (t.pc = "copy" => t.todo # {}) /\ t.status # "error"
    BY <2>1, <2>2, <2>3 DEF Unread
  <2>9. Wiped(j).copy[v] \in [Utt -> Nat]
    BY <2>5 DEF NoCopy
  <2> QED BY <1>0, <2>2, <2>3, <2>5, <2>6, <2>7, <2>8, <2>9, DiarizeCopies
<1>8. CASE Copies(j)
  <2> DEFINE u == Next1(task[j].todo)
             t == [task[j] EXCEPT !.pc = "tick", !.todo = task[j].todo \ {u},
                                  !.count = task[j].count + 1]
  <2>1. /\ TaskShaped(t) /\ t.pc = "tick" /\ t.todo = task[j].todo \ {u} /\ t.fed = task[j].fed
        /\ t.pend = task[j].pend /\ t.status = task[j].status
    BY <1>1 DEF TaskShaped, TaskFields
  <2>2. /\ task' = [task EXCEPT ![j] = t] /\ Commit(Copied(j, u)) /\ Running(j)
        /\ task[j].pc = "copy" /\ task[j].status # "error"
    BY <1>1, <1>8 DEF Copies, Running, RunGood
  <2> HIDE DEF t, u
  <2>3. /\ task'[j] = t
    BY <1>1, <2>2 DEF Shaped
  <2>4. /\ Elsewise(Copied(j, u), v) /\ Copied(j, u).segs[v] = db.segs[v]
        /\ Copied(j, u).copy[v] \in [Utt -> Nat]
        /\ \A w \in Utt : Copied(j, u).copy[v][w] =
                            IF w = u THEN db.copy[v][w] + 1 ELSE db.copy[v][w]
        /\ db' = Copied(j, u) /\ disk' = Copied(j, u) /\ Torn(Copied(j, u))
    BY <1>0, <1>1, <1>2, <1>3, <2>2, CopyWords DEF Commit
  <2>5. ASSUME NEW w \in db.segs[v] PROVE w \in t.todo \/ Copied(j, u).copy[v][w] > 0
    <3>1. w \in Utt /\ db.copy[v][w] \in Nat /\ (w \in task[j].todo \/ db.copy[v][w] > 0)
      BY <1>0, <1>1, <1>3, <2>2, <2>5 DEF Covers
    <3>2. CASE w = u
      BY <2>4, <3>1, <3>2
    <3>3. CASE w # u
      BY <2>1, <2>4, <3>1, <3>3
    <3> QED BY <3>2, <3>3
  <2>6. Covers(db, j)' /\ Covers(disk, j)'
    BY <1>0, <2>1, <2>3, <2>4, <2>5 DEF Covers
  <2>7. Writer(v)'
    BY <1>0, <2>1, <2>3 DEF Writer
  <2>8. /\ t.pc \notin {"none", "creating", "drive", "drain"} /\ t.pc \notin Unread
        /\ t.pc # "copy" /\ t.status # "error"
    BY <2>1, <2>2 DEF Unread
  <2> QED BY <1>0, <2>1, <2>2, <2>4, <2>6, <2>7, <2>8, DiarizeCopies
<1>9. CASE Ticks(j)
  <2> DEFINE t == [task[j] EXCEPT !.pc = IF task[j].todo = {} THEN "final" ELSE "copy",
                     !.status = IF task[j].todo = {} THEN "done" ELSE task[j].status]
  <2>1. /\ TaskShaped(t) /\ t.pc = (IF task[j].todo = {} THEN "final" ELSE "copy")
        /\ t.todo = task[j].todo /\ t.fed = task[j].fed
        /\ t.pend = task[j].pend /\ t.status \in {task[j].status, "done"}
    BY <1>1 DEF TaskShaped, TaskFields
  <2>2. /\ task' = [task EXCEPT ![j] = t] /\ Running(j)
        /\ task[j].pc = "tick" /\ task[j].status # "error"
    BY <1>1, <1>9 DEF Ticks, Running, RunGood
  <2>3. PICK x \in {db, Row(j)} : Torn(x) /\ SameWords(x) /\ disk' \in {x, disk}
    BY <1>1, <1>2, <1>9 DEF Ticks, Commit
  <2> HIDE DEF t
  <2>4. /\ task'[j] = t
    BY <1>1, <2>2 DEF Shaped
  <2>5. Elsewise(x, v) /\ x.segs[v] = db.segs[v] /\ x.copy[v] = db.copy[v] /\ db' = x
    BY <1>4, <2>3 DEF Torn
  <2>6. /\ \A u \in db'.segs[v] : u \in t.todo \/ db'.copy[v][u] > 0
        /\ \A u \in disk'.segs[v] : u \in t.todo \/ disk'.copy[v][u] > 0
    BY <1>0, <1>1, <2>1, <2>2, <2>3, <2>5 DEF Covers
  <2>7. Covers(db, j)' /\ Covers(disk, j)'
    BY <1>0, <2>1, <2>4, <2>6 DEF Covers
  <2>8. Writer(v)' \/ BrokenOff(v)' \/ (CopyWhole(db, v)' /\ CopyWhole(disk, v)')
    <3>1. CASE task[j].todo = {}
      BY <2>1, <2>6, <3>1 DEF CopyWhole
    <3>2. CASE task[j].todo # {}
      <4>1. task'[j].pc = "copy" /\ spec'[j] = spec[j]
        BY <2>1, <2>4, <3>2
      <4> QED BY <1>0, <4>1 DEF Writer
    <3> QED BY <3>1, <3>2
  <2>9. /\ t.pc \notin {"none", "creating", "drive", "drain"} /\ t.pc \notin Unread
        /\ (t.pc = "copy" => t.todo # {}) /\ t.status # "error"
    BY <2>1, <2>2 DEF Unread
  <2> QED BY <1>0, <1>3, <2>1, <2>2, <2>3, <2>5, <2>7, <2>8, <2>9, DiarizeCopies
<1>10. CASE CopyFails(j)
  <2> DEFINE t == [task[j] EXCEPT !.pc = "final", !.status = "error"]
  <2>1. /\ TaskShaped(t) /\ t.pc = "final" /\ t.todo = task[j].todo /\ t.fed = task[j].fed
        /\ t.pend = task[j].pend /\ t.status = "error"
    BY <1>1 DEF TaskShaped, TaskFields
  <2>2. /\ task' = [task EXCEPT ![j] = t] /\ UNCHANGED <<db, disk>> /\ Running(j)
        /\ task[j].pc = "copy" /\ task[j].todo # {}
    BY <1>1, <1>10 DEF CopyFails, Ends, Running, RunGood
  <2> HIDE DEF t
  <2>3. task'[j] = t
    BY <1>1, <2>2 DEF Shaped
  <2>4. Covers(db, j)' /\ Covers(disk, j)'
    BY <1>0, <2>1, <2>3 DEF Covers
  <2>5. BrokenOff(v)'
    BY <1>0, <2>1, <2>2, <2>3 DEF BrokenOff
  <2>6. /\ t.pc \notin {"none", "creating", "drive", "drain"} /\ t.pc \notin Unread
        /\ t.pc # "copy" /\ t.pc \in {"final", "ended"}
    BY <2>1 DEF Unread
  <2>7. Torn(db) /\ Elsewise(db, v)
    BY <1>1, <1>2, <1>4, <2>2
  <2> QED BY <1>0, <1>3, <2>1, <2>2, <2>4, <2>5, <2>6, <2>7, DiarizeCopies
<1>11. CASE CutCopy(j)
  <2> DEFINE t == [task[j] EXCEPT !.pc = "unwind", !.count = 0]
             u == Next1(task[j].todo)
  <2>1. /\ TaskShaped(t) /\ t.pc = "unwind" /\ t.todo = task[j].todo /\ t.fed = task[j].fed
        /\ t.pend = task[j].pend /\ t.status = task[j].status
    BY <1>1 DEF TaskShaped, TaskFields
  <2>2. /\ task' = [task EXCEPT ![j] = t] /\ Running(j)
        /\ task[j].pc \in {"copy", "tick"} /\ task[j].status # "error"
    BY <1>1, <1>11 DEF CutCopy, Running, RunGood
  <2> HIDE DEF t, u
  <2>3. PICK x \in {Copied(j, u), Row(j)} : Torn(x)
    BY <1>11 DEF CutCopy, u
  <2>4. Elsewise(x, v) /\ x.segs[v] = db.segs[v] /\ x.copy[v] \in [Utt -> Nat]
    <3>1. /\ Elsewise(Copied(j, u), v) /\ Copied(j, u).segs[v] = db.segs[v]
          /\ Copied(j, u).copy[v] \in [Utt -> Nat]
      BY <1>0, <1>1, <1>3, CopyWords
    <3>2. Elsewise(Row(j), v) /\ Row(j).segs[v] = db.segs[v] /\ Row(j).copy[v] \in [Utt -> Nat]
      BY <1>1, <1>3, <1>4
    <3> QED BY <2>3, <3>1, <3>2
  <2>5. task'[j] = t
    BY <1>1, <2>2 DEF Shaped
  <2>6. Covers(db, j)' /\ Covers(disk, j)' /\ Writer(v)'
    BY <1>0, <2>1, <2>5 DEF Covers, Writer
  <2>7. /\ t.pc \notin {"none", "creating", "drive", "drain"} /\ t.pc \notin Unread
        /\ t.pc # "copy" /\ t.status # "error"
    BY <2>1, <2>2 DEF Unread
  <2> QED BY <1>0, <2>1, <2>2, <2>3, <2>4, <2>6, <2>7, DiarizeCopies
<1> QED
  BY <1>5, <1>6, <1>7, <1>8, <1>9, <1>10, <1>11

(* Taking a copy back: whole when it is over, none when it is dropped. *)
LEMMA UnwindingCopies ==
  ASSUME CopyInv, OneWriter, NEW j \in Job, task[j].pc \in {"wipe", "unwind"},
         Commit(Wiped(j)) \/ (task[j].pc = "wipe" /\ Torn(Wiped(j))),
         task' = [task EXCEPT ![j] = Lands(task[j])],
         UNCHANGED <<about, born, spec>>, Answered
  PROVE  CopyInv'
<1>0. PICK v : v = spec[j].target
  OBVIOUS
<1>1. PICK t : t = Lands(task[j])
  OBVIOUS
<1>2. /\ Shaped /\ DbFull(db) /\ RunGood(j) /\ spec[j].op = "diarize" /\ Running(j)
      /\ v \in Version /\ task[j].status # "error"
  BY <1>0 DEF CopyInv, RunGood, OpKinds, Running
<1>3. /\ VersionGood(db, v) /\ VersionGood(disk, v) /\ db.copy[v] \in [Utt -> Nat]
  BY <1>2 DEF CopyInv, VersionGood
<1>4. /\ TaskShaped(t) /\ t.pc \in {"shielded", "final"} /\ t.todo = task[j].todo
      /\ t.fed = task[j].fed /\ t.pend = task[j].pend /\ t.status # "error"
  BY <1>1, <1>2, Landing
<1>5. /\ Elsewise(Wiped(j), v) /\ Wiped(j).segs[v] = db.segs[v] /\ Wiped(j).copy[v] = NoCopy
      /\ Torn(Wiped(j)) /\ db' = Wiped(j)
  BY <1>0, <1>2, <1>3, TornIs, CopyWords DEF Torn
<1>6. task' = [task EXCEPT ![j] = t] /\ task'[j] = t /\ \A k \in Job \ {j} : task'[k] = task[k]
  BY <1>1, <1>2 DEF Shaped
<1>7. Covers(db, j)' /\ Covers(disk, j)'
  BY <1>4, <1>6 DEF Covers
<1>8. Writer(v)' \/ BrokenOff(v)' \/ (CopyWhole(db, v)' /\ CopyWhole(disk, v)')
  <2>1. CopyWhole(db, v)'
    BY <1>5 DEF CopyWhole
  <2>2. CASE Commit(Wiped(j))
    BY <1>5, <2>1, <2>2 DEF Commit, CopyWhole
  <2>3. CASE task[j].pc = "wipe" /\ Torn(Wiped(j))
    <3>1. BrokenOff(v) \/ (CopyWhole(db, v) /\ CopyWhole(disk, v))
      BY <1>0, <1>2, <2>3, Unwritten
    <3>2. CASE BrokenOff(v)
      <4>1. PICK k \in Job : spec[k].op = "diarize" /\ spec[k].target = v
                             /\ task[k].status = "error" /\ task[k].todo # {}
        BY <3>2 DEF BrokenOff
      <4>2. task'[k] = task[k] /\ spec' = spec
        BY <1>2, <1>6, <4>1
      <4> QED BY <4>1, <4>2 DEF BrokenOff
    <3>3. CASE CopyWhole(disk, v)
      <4>1. disk' = disk \/ disk' = Wiped(j)
        BY <2>3 DEF Torn
      <4>2. CopyWhole(disk, v)'
        BY <1>5, <3>3, <4>1 DEF CopyWhole
      <4> QED BY <2>1, <4>2
    <3> QED BY <3>1, <3>2, <3>3
  <2> QED BY <2>2, <2>3
<1>9. /\ t.pc \notin {"none", "creating", "drive", "drain"} /\ t.pc \notin Unread /\ t.pc # "copy"
  BY <1>4 DEF Unread
<1>10. Wiped(j).copy[v] \in [Utt -> Nat]
  BY <1>5 DEF NoCopy
<1> QED BY <1>0, <1>2, <1>4, <1>5, <1>6, <1>7, <1>8, <1>9, <1>10, DiarizeCopies

LEMMA PrepareCopies ==
  ASSUME CopyInv, OneWriter, NEW j \in Job, PrepareFails(j) \/ CutWrite(j),
         UNCHANGED <<about, born, spec>>, Answered
  PROVE  CopyInv'
<1>1. Shaped /\ DbFull(db) /\ RunGood(j) /\ SameWords(db) /\ SameWords(Row(j)) /\ TaskShaped(task[j])
  BY Words DEF CopyInv, Shaped
<1>2. /\ UNCHANGED <<db, disk>> => Torn(db)
      /\ \A x : Commit(x) => Torn(x)
  BY TornIs
<1>3. ASSUME NEW t, TaskShaped(t), task' = [task EXCEPT ![j] = t],
             t.pc \in {"shielded", "final", "ended"}, t.todo = task[j].todo,
             t.fed = task[j].fed, t.pend = task[j].pend,
             t.status = task[j].status \/ (task[j].todo = {}),
             t.status = "error" => t.pc \in {"final", "ended"},
             task[j].pc \in {"new", "early", "start", "final", "prepare", "read", "shielded"},
             NEW x \in {db, Row(j)}, Torn(x)
      PROVE  CopyInv'
  <2>1. Running(j) /\ task[j].pc \notin {"copy", "tick", "unwind"} /\ t.pc \notin Unread
        /\ t.pc \in {"early", "start", "prepare", "shielded", "final", "ended"} /\ SameWords(x)
    BY <1>1, <1>3 DEF Running, Unread
  <2> QED BY <1>3, <2>1, MovesCopies
<1>4. CASE PrepareFails(j)
  <2> DEFINE t == [task[j] EXCEPT !.pc = "final", !.status = "error"]
  <2>1. /\ TaskShaped(t) /\ t.pc = "final" /\ t.todo = task[j].todo /\ t.fed = task[j].fed
        /\ t.pend = task[j].pend
    BY <1>1 DEF TaskShaped, TaskFields
  <2>2. /\ task' = [task EXCEPT ![j] = t] /\ Torn(db) /\ task[j].pc = "prepare" /\ task[j].todo = {}
    BY <1>1, <1>2, <1>4 DEF PrepareFails, Ends, RunGood, Unread
  <2> HIDE DEF t
  <2> QED BY <1>3, <2>1, <2>2
<1>5. ASSUME NEW l \in {"ended", "final"}, Goes(j, l),
             NEW x \in {db, Row(j)}, Torn(x),
             task[j].pc \in {"new", "early", "start", "final", "shielded"}
      PROVE  CopyInv'
  <2> DEFINE t == [task[j] EXCEPT !.pc = l]
  <2>1. /\ TaskShaped(t) /\ t.pc = l /\ t.todo = task[j].todo /\ t.fed = task[j].fed
        /\ t.pend = task[j].pend /\ t.status = task[j].status
    BY <1>1 DEF TaskShaped, TaskFields
  <2>2. task' = [task EXCEPT ![j] = t]
    BY <1>5 DEF Goes
  <2> HIDE DEF t
  <2> QED BY <1>3, <1>5, <2>1, <2>2
<1>6. ASSUME task[j].pc \in {"prepare", "read"}, UNCHANGED <<db, disk>>,
             task' = [task EXCEPT ![j] = Lands(task[j])]
      PROVE  CopyInv'
  <2>1. task[j].todo = {} /\ Torn(db)
    BY <1>1, <1>2, <1>6 DEF RunGood, Unread
  <2>2. PICK t : t = Lands(task[j])
    OBVIOUS
  <2> QED BY <1>1, <1>3, <1>6, <2>1, <2>2, Landing
<1>7. CASE CutWrite(j)
  <2>1. CASE task[j].pc = "new" /\ Goes(j, "ended") /\ UNCHANGED <<db, disk>>
    BY <1>2, <1>5, <2>1
  <2>2. CASE task[j].pc \in {"early", "start", "final"} /\ Torn(Row(j)) /\ Goes(j, "ended")
    BY <1>5, <2>2
  <2>3. CASE /\ task[j].pc \in {"prepare", "read"} /\ UNCHANGED <<db, disk>>
             /\ task' = [task EXCEPT ![j] = Lands(@)]
    BY <1>6, <2>3
  <2>4. CASE task[j].pc = "wipe" /\ Torn(Wiped(j)) /\ task' = [task EXCEPT ![j] = Lands(@)]
    BY <1>7, <2>4, UnwindingCopies
  <2>5. CASE task[j].pc = "unwind" /\ Commit(Wiped(j)) /\ task' = [task EXCEPT ![j] = Lands(@)]
    BY <1>7, <2>5, UnwindingCopies
  <2>6. CASE task[j].pc = "shielded" /\ Commit(Row(j)) /\ Goes(j, "final")
    BY <1>2, <1>5, <2>6
  <2> QED BY <1>7, <2>1, <2>2, <2>3, <2>4, <2>5, <2>6 DEF CutWrite
<1> QED BY <1>4, <1>7

(* Every step of a run, and every cancellation of one. *)
LEMMA RunningCopies ==
  ASSUME CopyInv, OneWriter, NEW j \in Job,
         \/ Driving(j) \/ Copying(j) \/ Ending(j) \/ Router(j) \/ Breaks(j)
         \/ (Cut(j) /\ UNCHANGED <<about, born, spec>> /\ Answered)
  PROVE  CopyInv'
<1>1. CASE Ending(j)
  BY <1>1, EndingCopies
<1>0. at = [c \in Clients |-> at[c]]
  BY DEF CopyInv, Shaped
<1>2. RunGood(j)
  BY DEF CopyInv
<1>3. CASE Driving(j) \/ Copying(j) \/ Router(j) \/ Breaks(j)
  <2>0. UNCHANGED <<at, about, born, spec>>
    BY <1>3 DEF Driving, Prepared, Stores, Ticks, DriveEnds, Drained, Copying, Diarized, ReadsBase,
                Wipes, Copies, Unwinds, Router, Hears, FeedEnds, Breaks, PrepareFails,
                FeedExhausted, StoreFails, CopyFails, TaskFrame
  <2>1. UNCHANGED <<about, born, spec>> /\ Answered
    BY <1>0, <2>0 DEF Answered
  <2>2. CASE PrepareFails(j)
    BY <2>1, <2>2, PrepareCopies
  <2>3. CASE Unwinds(j)
    BY <2>1, <2>3, UnwindingCopies DEF Unwinds
  <2>4. CASE spec[j].op = "transcribe"
    <3>1. ~Diarized(j) /\ ~ReadsBase(j) /\ ~Wipes(j) /\ ~Copies(j) /\ ~CopyFails(j)
      BY <1>2, <2>4 DEF RunGood, Diarized, ReadsBase, Wipes, Copies, CopyFails
    <3> QED BY <1>3, <2>1, <2>2, <2>3, <2>4, <3>1, DrivingCopies DEF Copying, Breaks
  <2>5. CASE spec[j].op = "diarize"
    <3>1. /\ ~Prepared(j) /\ ~Stores(j) /\ ~DriveEnds(j) /\ ~Drained(j) /\ ~Hears(j)
          /\ ~FeedEnds(j) /\ ~FeedExhausted(j) /\ ~StoreFails(j)
      BY <1>2, <2>5 DEF RunGood, Prepared, Stores, DriveEnds, Drained, Hears, FeedEnds,
                        FeedExhausted, StoreFails, Feeding
    <3> QED BY <1>3, <2>1, <2>2, <2>3, <2>5, <3>1, CopyingCopies
            DEF Driving, Copying, Router, Breaks
  <2> QED BY <1>2, <2>4, <2>5 DEF RunGood, OpKinds
<1>4. CASE Cut(j) /\ UNCHANGED <<about, born, spec>> /\ Answered
  <2>1. UNCHANGED <<about, born, spec>> /\ Answered
    BY <1>4
  <2>2. CASE CutWrite(j)
    BY <2>1, <2>2, PrepareCopies
  <2>3. CASE CutDrive(j)
    <3>1. spec[j].op = "transcribe"
      BY <2>3 DEF CutDrive
    <3> QED BY <2>1, <2>3, <3>1, DrivingCopies
  <2>4. CASE CutCopy(j)
    <3>1. spec[j].op = "diarize"
      BY <2>4 DEF CutCopy
    <3> QED BY <2>1, <2>4, <3>1, CopyingCopies
  <2> QED BY <1>4, <2>2, <2>3, <2>4 DEF Cut
<1> QED BY <1>1, <1>3, <1>4

-----------------------------------------------------------------------------
(* The steps of the requests, and of the process. *)

SameAs(d, e) == \A v \in Version : d.segs[v] = e.segs[v] /\ d.copy[v] = e.copy[v]

(* A task that no run moves: launched at most, or over without having begun. *)
Calm(s, t) ==
  /\ t.todo = s.todo /\ t.status = s.status /\ t.fed = s.fed /\ t.pend = s.pend
  /\ t.pc = s.pc \/ (s.pc = "creating" /\ t.pc \in {"new", "ended"})

(* A step that touches no words keeps the invariant when it keeps what is said
   of the requests. *)
LEMMA CalmCopies ==
  ASSUME CopyInv, Shaped', DbFull(db)', DbFull(disk)', HandsGood', UNCHANGED <<born, spec>>,
         \A j \in Job : Calm(task[j], task'[j]),
         NEW x, NEW y, x \in {db, disk}, y \in {db, disk}, x = disk => y = disk,
         SameAs(db', x), SameAs(disk', y)
  PROVE  CopyInv'
<1>1. ASSUME NEW v \in Version
      PROVE  /\ Started(v) => Started(v)'
             /\ v = Original \/ task[v].pc = "ended" => v = Original \/ task'[v].pc = "ended"
             /\ Writer(v) => Writer(v)'
             /\ BrokenOff(v) => BrokenOff(v)'
  <2>1. Started(v) => Started(v)'
    <3>1. CASE v \in Job
      BY <3>1 DEF Started, Calm
    <3>2. CASE v = Original
      BY <3>2 DEF Started
    <3> QED BY <3>1, <3>2 DEF Version
  <2>2. v = Original \/ task[v].pc = "ended" => v = Original \/ task'[v].pc = "ended"
    BY DEF Version, Calm
  <2>3. ASSUME Writer(v) PROVE Writer(v)'
    <3>1. PICK k \in Job : spec[k].op = "diarize" /\ spec[k].target = v
                           /\ task[k].pc \in {"copy", "tick", "unwind"}
      BY <2>3 DEF Writer
    <3>2. task'[k].pc = task[k].pc /\ spec' = spec
      BY <3>1 DEF Calm
    <3> QED BY <3>1, <3>2 DEF Writer
  <2>4. ASSUME BrokenOff(v) PROVE BrokenOff(v)'
    <3>1. PICK k \in Job : spec[k].op = "diarize" /\ spec[k].target = v
                           /\ task[k].status = "error" /\ task[k].todo # {}
      BY <2>4 DEF BrokenOff
    <3>2. task'[k].status = task[k].status /\ task'[k].todo = task[k].todo /\ spec' = spec
      BY <3>1 DEF Calm
    <3> QED BY <3>1, <3>2 DEF BrokenOff
  <2> QED BY <2>1, <2>2, <2>3, <2>4
<1>2. ASSUME NEW v \in Version
      PROVE  /\ VersionGood(db, v)' /\ VersionGood(disk, v)'
             /\ disk'.segs[v] \subseteq db'.segs[v]
  <2>1. VersionGood(db, v) /\ VersionGood(disk, v) /\ disk.segs[v] \subseteq db.segs[v]
    BY DEF CopyInv
  <2>2. ASSUME NEW d, VersionGood(d, v), NEW e, SameAs(e, d)
        PROVE  /\ e.segs[v] \subseteq Utt /\ e.copy[v] \in [Utt -> Nat]
               /\ e.segs[v] # {} => Started(v)'
               /\ e.copy[v] # NoCopy => v = Original \/ task'[v].pc = "ended"
               /\ Writer(v)' \/ BrokenOff(v)' \/ CopyWhole(e, v)
    BY <1>1, <2>2 DEF VersionGood, CopyWhole, SameAs
  <2>3. VersionGood(x, v) /\ VersionGood(y, v)
    BY <2>1
  <2>4. VersionGood(db, v)'
    BY <2>2, <2>3 DEF VersionGood, CopyWhole
  <2>5. VersionGood(disk, v)'
    BY <2>2, <2>3 DEF VersionGood, CopyWhole
  <2>6. disk'.segs[v] \subseteq db'.segs[v]
    BY <2>1 DEF SameAs
  <2> QED BY <2>4, <2>5, <2>6
<1>3. ASSUME NEW k \in Job PROVE RunGood(k)'
  <2>1. RunGood(k) /\ Calm(task[k], task'[k])
    BY DEF CopyInv
  <2>2. ASSUME spec[k].op = "diarize"
        PROVE  Started(spec[k].target)' /\ Covers(db, k)' /\ Covers(disk, k)'
    <3>1. PICK v : v = spec[k].target
      OBVIOUS
    <3>2. v \in Version /\ Started(v) /\ Covers(db, k) /\ Covers(disk, k)
      BY <2>1, <2>2, <3>1 DEF RunGood
    <3>3. Started(v)'
      BY <1>1, <3>2
    <3>4. CASE task[k].pc \in {"wipe", "copy", "tick"}
      <4>1. task'[k].pc = task[k].pc /\ task'[k].todo = task[k].todo
        BY <2>1, <3>4 DEF Calm
      <4>2. db'.segs[v] = x.segs[v] /\ db'.copy[v] = x.copy[v]
            /\ disk'.segs[v] = y.segs[v] /\ disk'.copy[v] = y.copy[v]
        BY <3>2 DEF SameAs
      <4>3. Covers(x, k) /\ Covers(y, k)
        BY <3>2
      <4>4. Covers(db, k)'
        BY <3>1, <4>1, <4>2, <4>3 DEF Covers
      <4>5. Covers(disk, k)'
        BY <3>1, <4>1, <4>2, <4>3 DEF Covers
      <4> QED BY <3>1, <3>3, <4>4, <4>5 DEF Started
    <3>5. CASE task[k].pc \notin {"wipe", "copy", "tick"}
      <4>1. task'[k].pc \notin {"wipe", "copy", "tick"}
        BY <2>1, <3>5 DEF Calm
      <4> QED BY <3>1, <3>3, <4>1 DEF Started, Covers
    <3> QED BY <3>4, <3>5
  <2> QED BY <2>1, <2>2 DEF RunGood, Calm, Unread
<1> QED BY <1>2, <1>3 DEF CopyInv

(* What client c has in hand after its step, the others having what they had. *)
HandGood(c) ==
  /\ at'[c] = "probe" =>
       /\ about'[c].op \in OpKinds
       /\ about'[c].op = "diarize" => about'[c].v \in Version /\ Started(about'[c].v)
  /\ at'[c] = "commit" => FALSE
  /\ at'[c] \in Erasing \cup {"cancel"} => about'[c].v \in Job

LEMMA HandsAfter ==
  ASSUME CopyInv, NEW c \in Clients, HandGood(c),
         \A d \in Clients \ {c} : at'[d] = at[d] /\ about'[d] = about[d],
         \A j \in Job : Calm(task[j], task'[j]),
         \A d \in Clients \ {c} : at[d] = "commit" => task'[about[d].v].pc = "creating"
  PROVE  HandsGood'
<1>1. HandsGood
  BY DEF CopyInv
<1>2. ASSUME NEW v \in Version, Started(v) PROVE Started(v)'
  BY <1>2 DEF Started, Calm, Version
<1>3. ASSUME NEW d \in Clients, at'[d] = "probe"
      PROVE  /\ about'[d].op \in OpKinds
             /\ about'[d].op = "diarize" => about'[d].v \in Version /\ Started(about'[d].v)
  BY <1>1, <1>3 DEF HandGood, HandsGood
<1>4. ASSUME NEW d \in Clients, at'[d] = "probe", about'[d].op = "diarize"
      PROVE  Started(about[d].v)'
  <2>1. PICK v : v = about'[d].v
    OBVIOUS
  <2>2. Started(v)'
    BY <1>2, <1>3, <1>4, <2>1
  <2> QED BY <2>1, <2>2 DEF Started
<1>5. \A d \in Clients : at'[d] = "commit" => d # c
  BY DEF HandGood
<1>6. \A d \in Clients : at'[d] = "commit" =>
        about'[d].v \in Job /\ task'[about'[d].v].pc = "creating"
  BY <1>1, <1>5 DEF HandsGood
<1>7. \A d, e \in Clients :
        at'[d] = "commit" /\ at'[e] = "commit" /\ about'[d].v = about'[e].v => d = e
  BY <1>1, <1>5 DEF HandsGood
<1>8. \A d \in Clients : at'[d] \in Erasing \cup {"cancel"} => about'[d].v \in Job
  BY <1>1 DEF HandGood, HandsGood
<1> QED BY <1>3, <1>4, <1>6, <1>7, <1>8 DEF HandsGood

LEMMA AskingCopies ==
  ASSUME CopyInv, NEW c \in Clients, NEW l, at' = [at EXCEPT ![c] = l], HandGood(c),
         about' = about \/ (\E a : AboutShaped(a) /\ about' = [about EXCEPT ![c] = a]),
         UNCHANGED <<born, spec, db, disk>>,
         task' = [j \in Job |-> task'[j]],
         \A j \in Job : TaskShaped(task'[j]) /\ Calm(task[j], task'[j]) /\ task'[j].pc = task[j].pc
  PROVE  CopyInv'
<1>1. Shaped /\ DbFull(db) /\ DbFull(disk) /\ HandsGood
  BY DEF CopyInv
<1>2. \A d \in Clients \ {c} : at'[d] = at[d] /\ about'[d] = about[d]
  BY <1>1 DEF Shaped
<1>3. at' = [d \in Clients |-> at'[d]] /\ about' = [d \in Clients |-> about'[d]]
      /\ \A d \in Clients : AboutShaped(about'[d])
  BY <1>1 DEF Shaped
<1>4. Shaped'
  <2>1. DbShaped(db)' /\ DbShaped(disk)'
    BY <1>1 DEF Shaped, DbShaped
  <2>2. \A j \in Job : TaskShaped(task[j])'
    BY DEF TaskShaped
  <2>3. \A d \in Clients : AboutShaped(about[d])'
    BY <1>3 DEF AboutShaped
  <2> QED BY <1>1, <1>3, <2>1, <2>2, <2>3 DEF Shaped
<1>5. HandsGood'
  <2>1. \A d \in Clients \ {c} : at[d] = "commit" => task'[about[d].v].pc = "creating"
    BY <1>1 DEF HandsGood
  <2> QED BY <1>2, <2>1, HandsAfter
<1>6. DbFull(db)' /\ DbFull(disk)'
  BY <1>1 DEF DbFull
<1> QED BY <1>4, <1>5, <1>6, CalmCopies DEF SameAs

LEMMA EnqueueCopies ==
  ASSUME CopyInv, NEW c \in Clients,
         \/ \E op \in Ops, v \in Version : EnqueueAsks(c, op, v)
         \/ EnqueueRefused(c)
  PROVE  CopyInv'
<1>1. Shaped /\ \A j \in Job : Calm(task[j], task[j])
  BY DEF CopyInv, Calm
<1>2. CASE EnqueueRefused(c)
  <2>1. at' = [at EXCEPT ![c] = "idle"] /\ UNCHANGED <<about, born, spec, db, disk, task>>
    BY <1>2 DEF EnqueueRefused
  <2>2. at'[c] = "idle"
    BY <1>1, <2>1 DEF Shaped
  <2>3. HandGood(c)
    BY <2>2 DEF HandGood, Erasing
  <2> QED BY <1>1, <2>1, <2>3, AskingCopies DEF Shaped
<1>3. ASSUME NEW op \in Ops, NEW v \in Version, EnqueueAsks(c, op, v) PROVE CopyInv'
  <2> DEFINE a == [op |-> op, v |-> v, run |-> FALSE]
  <2>1. /\ at' = [at EXCEPT ![c] = "probe"] /\ about' = [about EXCEPT ![c] = a]
        /\ UNCHANGED <<born, spec, db, disk, task>> /\ (v # Original => db.segs[v] # {})
    BY <1>3 DEF EnqueueAsks, RequestFrame
  <2>2. at'[c] = "probe" /\ about'[c].op = op /\ about'[c].v = v /\ AboutShaped(a)
    BY <1>1, <2>1 DEF Shaped, AboutShaped
  <2>3. Started(v)
    BY <2>1 DEF CopyInv, VersionGood, Started
  <2>4. HandGood(c)
    BY <2>2, <2>3, ConstantsAssumption DEF HandGood, Erasing
  <2> HIDE DEF a
  <2> QED BY <1>1, <2>1, <2>2, <2>4, AskingCopies DEF Shaped
<1> QED BY <1>2, <1>3

(* A task that is created begins with nothing behind it. *)
LEMMA LaunchCopies ==
  ASSUME CopyInv, NEW c \in Clients, EnqueueLaunches(c)
  PROVE  CopyInv'
<1> DEFINE j == about[c].v
           t == [task[j] EXCEPT !.pc = "new"]
<1>1. /\ Shaped /\ DbFull(db) /\ HandsGood /\ at[c] = "commit" /\ j \in Job
      /\ task[j].pc = "creating"
  BY DEF EnqueueLaunches, CopyInv, HandsGood
<1>2. /\ at' = [at EXCEPT ![c] = "idle"] /\ task' = [task EXCEPT ![j] = t]
      /\ disk' = db /\ UNCHANGED <<about, born, spec, db>>
  BY DEF EnqueueLaunches, Goes
<1>3. /\ TaskShaped(t) /\ t.pc = "new" /\ t.todo = task[j].todo /\ t.fed = task[j].fed
      /\ t.pend = task[j].pend /\ t.status = task[j].status
  BY <1>1 DEF Shaped, TaskShaped, TaskFields
<1> HIDE DEF t
<1>4. /\ task' = [k \in Job |-> task'[k]] /\ task'[j] = t
      /\ \A k \in Job \ {j} : task'[k] = task[k]
  BY <1>1, <1>2 DEF Shaped
<1>5. \A k \in Job : TaskShaped(task'[k]) /\ Calm(task[k], task'[k])
  <2> TAKE k \in Job
  <2>1. CASE k = j
    BY <1>1, <1>3, <1>4, <2>1 DEF Calm
  <2>2. CASE k # j
    BY <1>1, <1>4, <2>2 DEF Calm, Shaped
  <2> QED BY <2>1, <2>2
<1>6. at'[c] = "idle" /\ \A d \in Clients \ {c} : at'[d] = at[d] /\ about'[d] = about[d]
  BY <1>1, <1>2 DEF Shaped
<1>7. Shaped'
  <2>1. DbShaped(db)' /\ DbShaped(disk)'
    BY <1>1, <1>2 DEF Shaped, DbShaped
  <2>2. \A k \in Job : TaskShaped(task[k])'
    BY <1>5 DEF TaskShaped
  <2>3. at' = [d \in Clients |-> at'[d]]
    BY <1>1, <1>2 DEF Shaped
  <2> QED BY <1>1, <1>2, <1>4, <2>1, <2>2, <2>3 DEF Shaped, AboutShaped
<1>8. HandsGood'
  <2>1. HandGood(c)
    BY <1>6 DEF HandGood, Erasing
  <2>2. ASSUME NEW d \in Clients \ {c}, at[d] = "commit"
        PROVE  task'[about[d].v].pc = "creating"
    <3>1. about[d].v \in Job \ {j} /\ task[about[d].v].pc = "creating"
      BY <1>1, <2>2 DEF HandsGood
    <3> QED BY <1>4, <3>1
  <2> QED BY <1>5, <1>6, <2>1, <2>2, HandsAfter
<1>9. DbFull(db)' /\ DbFull(disk)' /\ SameAs(db', db) /\ SameAs(disk', db)
  BY <1>1, <1>2 DEF DbFull, SameAs
<1> QED BY <1>2, <1>5, <1>7, <1>8, <1>9, CalmCopies

(* A new row belongs to nobody's copy: no run had its number. *)
LEMMA InsertCopies ==
  ASSUME CopyInv, NEW c \in Clients, EnqueueInserts(c)
  PROVE  CopyInv'
<1>0. PICK j : j = born + 1
  OBVIOUS
<1>1. /\ Shaped /\ DbFull(db) /\ DbFull(disk) /\ HandsGood /\ at[c] = "probe" /\ j \in Job
      /\ born \in Nat /\ born < j
  BY <1>0, ConstantsAssumption DEF EnqueueInserts, CopyInv, Shaped, Job
<1>2. /\ RunGood(j) /\ task[j].pc = "none" /\ task[j].status # "error" /\ task[j].todo = {}
  BY <1>1 DEF CopyInv, RunGood, Unread
<1>3. /\ at' = [at EXCEPT ![c] = "commit"] /\ about' = [about EXCEPT ![c].v = j] /\ born' = j
      /\ spec' = [spec EXCEPT ![j] = [op |-> about[c].op, target |-> about[c].v]]
      /\ db' = [db EXCEPT !.status[j] = "queued"] /\ disk' = disk
      /\ task' = [task EXCEPT ![j].pc = "creating"]
  BY <1>0 DEF EnqueueInserts, Goes
<1> DEFINE t == [task[j] EXCEPT !.pc = "creating"]
           a == [about[c] EXCEPT !.v = j]
<1>4. /\ TaskShaped(t) /\ t.pc = "creating" /\ t.todo = task[j].todo /\ t.fed = task[j].fed
      /\ t.pend = task[j].pend /\ t.status = task[j].status
  BY <1>1 DEF Shaped, TaskShaped, TaskFields
<1>5. /\ task' = [k \in Job |-> task'[k]] /\ task'[j] = t
      /\ \A k \in Job \ {j} : task'[k] = task[k]
  BY <1>1, <1>3 DEF Shaped
<1>6. AboutShaped(a) /\ a.v = j
  BY <1>1 DEF Shaped, AboutShaped
<1>7. /\ at' = [d \in Clients |-> at'[d]] /\ about' = [d \in Clients |-> about'[d]]
      /\ at'[c] = "commit" /\ about'[c] = a
      /\ \A d \in Clients \ {c} : at'[d] = at[d] /\ about'[d] = about[d]
  BY <1>1, <1>3 DEF Shaped
<1>8. /\ spec' = [k \in Job |-> spec'[k]] /\ spec'[j].op = about[c].op
      /\ spec'[j].target = about[c].v
      /\ \A k \in Job \ {j} : spec'[k] = spec[k]
  BY <1>1, <1>3 DEF Shaped
<1>9. DbShaped(db') /\ DbFull(db') /\ db'.segs = db.segs /\ db'.copy = db.copy
  BY <1>1, <1>3 DEF Shaped, DbShaped, DbFull
<1> HIDE DEF t, a
<1>10. Shaped'
  <2>1. DbShaped(db)' /\ DbShaped(disk)'
    BY <1>1, <1>3, <1>9 DEF Shaped, DbShaped
  <2>2. \A k \in Job : TaskShaped(task'[k])
    BY <1>1, <1>4, <1>5 DEF Shaped
  <2>3. \A d \in Clients : AboutShaped(about'[d])
    BY <1>1, <1>6, <1>7 DEF Shaped
  <2>4. born' \in Nat
    BY <1>0, <1>1, <1>3
  <2>5. (\A k \in Job : TaskShaped(task[k]))' /\ (\A d \in Clients : AboutShaped(about[d]))'
    BY <2>2, <2>3 DEF TaskShaped, AboutShaped
  <2> QED BY <1>5, <1>7, <1>8, <2>1, <2>4, <2>5 DEF Shaped
<1>11. \A v \in Version : Started(v) => Started(v)' /\ v # j
  <2>1. ASSUME NEW v \in Version, Started(v) PROVE Started(v)' /\ v # j
    <3>1. j # Original
      BY <1>1 DEF Job, Original
    <3>2. v # j
      BY <1>2, <2>1, <3>1 DEF Started
    <3>3. CASE v = Original
      BY <3>2, <3>3 DEF Started
    <3>4. CASE v \in Job
      <4>1. task'[v] = task[v]
        BY <1>5, <3>2, <3>4
      <4> QED BY <2>1, <3>2, <4>1 DEF Started
    <3> QED BY <3>3, <3>4 DEF Version
  <2> QED BY <2>1
<1>12. HandsGood'
  <2>1. ASSUME NEW d \in Clients, at'[d] = "probe"
        PROVE  d # c /\ at[d] = "probe" /\ about'[d] = about[d]
    BY <1>7, <2>1
  <2>2. ASSUME NEW d \in Clients, at'[d] = "probe"
        PROVE  /\ about'[d].op \in OpKinds
               /\ about'[d].op = "diarize" => about'[d].v \in Version
    BY <1>1, <2>1, <2>2 DEF HandsGood
  <2>3. ASSUME NEW d \in Clients, at'[d] = "probe", about'[d].op = "diarize"
        PROVE  Started(about[d].v)'
    <3>1. about[d].v \in Version /\ Started(about[d].v)
      BY <1>1, <2>1, <2>3 DEF HandsGood
    <3>2. PICK v \in Version : v = about[d].v
      BY <3>1
    <3>3. Started(v)' /\ about'[d].v = v
      BY <1>11, <2>1, <2>3, <3>1, <3>2
    <3> QED BY <3>3 DEF Started
  <2>4. ASSUME NEW d \in Clients, at'[d] = "commit"
        PROVE  /\ about'[d].v \in Job /\ task'[about'[d].v].pc = "creating"
               /\ d # c => at[d] = "commit" /\ about'[d] = about[d] /\ about'[d].v # j
    <3>1. CASE d = c
      BY <1>1, <1>4, <1>5, <1>6, <1>7, <3>1
    <3>2. CASE d # c
      <4>1. at[d] = "commit" /\ about'[d] = about[d]
        BY <1>7, <2>4, <3>2
      <4>2. about[d].v \in Job /\ task[about[d].v].pc = "creating"
        BY <1>1, <4>1 DEF HandsGood
      <4>3. about[d].v # j
        BY <1>2, <4>2
      <4> QED BY <1>5, <3>2, <4>1, <4>2, <4>3
    <3> QED BY <3>1, <3>2
  <2>5. ASSUME NEW d \in Clients, NEW e \in Clients, at'[d] = "commit", at'[e] = "commit",
               about'[d].v = about'[e].v
        PROVE  d = e
    <3>1. CASE d # c /\ e # c
      BY <1>1, <2>4, <2>5, <3>1 DEF HandsGood
    <3>2. CASE d = c \/ e = c
      BY <1>6, <1>7, <2>4, <2>5, <3>2
    <3> QED BY <3>1, <3>2
  <2>6. ASSUME NEW d \in Clients, at'[d] \in Erasing \cup {"cancel"} PROVE about'[d].v \in Job
    <3>1. d # c
      BY <1>7, <2>6 DEF Erasing
    <3> QED BY <1>1, <1>7, <2>6, <3>1 DEF HandsGood
  <2> QED BY <2>2, <2>3, <2>4, <2>5, <2>6 DEF HandsGood
<1>13. ASSUME NEW v \in Version
       PROVE  (Writer(v) => Writer(v)') /\ (BrokenOff(v) => BrokenOff(v)')
  <2>1. ASSUME Writer(v) PROVE Writer(v)'
    <3>1. PICK k \in Job : spec[k].op = "diarize" /\ spec[k].target = v
                           /\ task[k].pc \in {"copy", "tick", "unwind"}
      BY <2>1 DEF Writer
    <3>2. task'[k] = task[k] /\ spec'[k] = spec[k]
      BY <1>2, <1>5, <1>8, <3>1
    <3> QED BY <3>1, <3>2 DEF Writer
  <2>2. ASSUME BrokenOff(v) PROVE BrokenOff(v)'
    <3>1. PICK k \in Job : spec[k].op = "diarize" /\ spec[k].target = v
                           /\ task[k].status = "error" /\ task[k].todo # {}
      BY <2>2 DEF BrokenOff
    <3>2. task'[k] = task[k] /\ spec'[k] = spec[k]
      BY <1>2, <1>5, <1>8, <3>1
    <3> QED BY <3>1, <3>2 DEF BrokenOff
  <2> QED BY <2>1, <2>2
<1>14. ASSUME NEW v \in Version
       PROVE  /\ VersionGood(db, v)' /\ VersionGood(disk, v)'
              /\ disk'.segs[v] \subseteq db'.segs[v]
  <2>1. VersionGood(db, v) /\ VersionGood(disk, v) /\ disk.segs[v] \subseteq db.segs[v]
    BY DEF CopyInv
  <2>2. v = Original \/ task[v].pc = "ended" => v = Original \/ task'[v].pc = "ended"
    BY <1>2, <1>5 DEF Version
  <2>3. VersionGood(db, v)'
    BY <1>9, <1>11, <1>13, <2>1, <2>2 DEF VersionGood, CopyWhole
  <2>4. VersionGood(disk, v)'
    BY <1>3, <1>11, <1>13, <2>1, <2>2 DEF VersionGood, CopyWhole
  <2> QED BY <1>3, <1>9, <2>1, <2>3, <2>4
<1>15. ASSUME NEW k \in Job PROVE RunGood(k)'
  <2>1. RunGood(k) /\ born' = j /\ born \in Nat
    BY <1>1, <1>3 DEF CopyInv
  <2>2. CASE k = j
    <3>1. /\ spec'[j].op \in OpKinds
          /\ spec'[j].op = "diarize" => spec'[j].target \in Version /\ Started(spec'[j].target)
      BY <1>1, <1>8 DEF HandsGood
    <3>2. ASSUME spec'[j].op = "diarize"
          PROVE  spec'[j].target \in Version \ {j} /\ Started(spec[j].target)'
      <4>1. PICK v \in Version : v = spec'[j].target
        BY <3>1, <3>2
      <4>2. Started(v)' /\ v # j
        BY <1>11, <3>1, <3>2, <4>1
      <4> QED BY <4>1, <4>2 DEF Started
    <3>3. task'[j].pc = "creating" /\ task'[j].todo = {} /\ task'[j].status # "error"
          /\ task'[j].fed \in Nat /\ task'[j].pend \in Seq(Utt)
      BY <1>2, <1>4, <1>5 DEF RunGood
    <3>4. ~(born' < k)
      BY <1>0, <1>1, <2>1, <2>2
    <3>5. Covers(db, j)' /\ Covers(disk, j)'
      BY <3>3 DEF Covers
    <3> QED BY <2>2, <3>1, <3>2, <3>3, <3>4, <3>5 DEF RunGood
  <2>3. CASE k # j
    <3>1. task'[k] = task[k] /\ spec'[k] = spec[k]
      BY <1>5, <1>8, <2>3
    <3>2. born' < k => born < k
      BY <1>0, <1>1, <2>1 DEF Job
    <3>3. ASSUME spec[k].op = "diarize"
          PROVE  Started(spec[k].target)' /\ Covers(db, k)' /\ Covers(disk, k)'
      <4>1. /\ spec[k].target \in Version /\ Started(spec[k].target)
            /\ Covers(db, k) /\ Covers(disk, k)
        BY <2>1, <3>3 DEF RunGood
      <4>2. Started(spec[k].target)'
        <5>1. PICK v \in Version : v = spec[k].target
          BY <4>1
        <5>2. Started(v)' /\ spec'[k].target = v
          BY <1>11, <3>1, <4>1, <5>1
        <5> QED BY <5>2 DEF Started
      <4>3. Covers(db, k)' /\ Covers(disk, k)'
        BY <1>3, <1>9, <3>1, <4>1 DEF Covers
      <4> QED BY <4>2, <4>3
    <3> QED BY <2>1, <3>1, <3>2, <3>3 DEF RunGood
  <2> QED BY <2>2, <2>3
<1>16. DbFull(db)' /\ DbFull(disk)'
  BY <1>1, <1>3, <1>9 DEF DbFull
<1> QED BY <1>10, <1>12, <1>14, <1>15, <1>16 DEF CopyInv

(* Rows of jobs are no words of a version. *)
LEMMA RowsCopies ==
  ASSUME CopyInv, Answered, UNCHANGED <<about, born, spec, task>>,
         \/ UNCHANGED <<db, disk>>
         \/ \E f : f = [j \in Job |-> f[j]] /\ Commit([db EXCEPT !.status = f])
  PROVE  CopyInv'
<1>1. Shaped /\ DbFull(db) /\ DbFull(disk) /\ HandsGood /\ \A j \in Job : Calm(task[j], task'[j])
  BY DEF CopyInv, Calm
<1>2. PICK x \in {db, disk}, y \in {db, disk} :
        /\ x = disk => y = disk
        /\ SameAs(db', x) /\ SameAs(disk', y)
        /\ DbShaped(db') /\ DbShaped(disk') /\ DbFull(db') /\ DbFull(disk')
  <2>1. CASE UNCHANGED <<db, disk>>
    <3>1. SameAs(db', db) /\ SameAs(disk', disk)
      BY <2>1 DEF SameAs
    <3>2. DbShaped(db') /\ DbShaped(disk') /\ DbFull(db') /\ DbFull(disk')
      BY <1>1, <2>1 DEF Shaped
    <3>3. CASE db = disk
      BY <3>1, <3>2, <3>3
    <3>4. CASE db # disk
      BY <3>1, <3>2, <3>4
    <3> QED BY <3>3, <3>4
  <2>2. ASSUME NEW f, f = [j \in Job |-> f[j]], Commit([db EXCEPT !.status = f])
        PROVE  /\ SameAs(db', db) /\ SameAs(disk', db)
               /\ DbShaped(db') /\ DbShaped(disk') /\ DbFull(db') /\ DbFull(disk')
    <3> DEFINE d == [db EXCEPT !.status = f]
    <3>1. DbShaped(db)
      BY <1>1 DEF Shaped
    <3>2. d.status = f /\ d.segs = db.segs /\ d.copy = db.copy /\ d.count = db.count
      BY <3>1 DEF DbShaped
    <3>3. d = [status |-> d.status, count |-> d.count, segs |-> d.segs, copy |-> d.copy]
      BY <3>1 DEF DbShaped
    <3>4. db' = d /\ disk' = d
      BY <2>2 DEF Commit
    <3> HIDE DEF d
    <3>5. DbShaped(d) /\ DbFull(d) /\ SameAs(d, db)
      BY <1>1, <2>2, <3>2, <3>3 DEF DbShaped, DbFull, SameAs
    <3> QED BY <3>4, <3>5
  <2> QED BY <2>1, <2>2
<1>3. Shaped'
  <2>1. DbShaped(db)' /\ DbShaped(disk)'
    BY <1>2 DEF DbShaped
  <2> QED BY <1>1, <2>1 DEF Shaped, AboutShaped, TaskShaped, Answered
<1>4. DbFull(db)' /\ DbFull(disk)'
  BY <1>2 DEF DbFull
<1>5. HandsGood'
  <2>1. \A c \in Clients : at'[c] # "idle" => at'[c] = at[c]
    BY DEF Answered
  <2>2. "idle" \notin {"probe", "commit", "cancel"} \cup Erasing
    BY DEF Erasing
  <2> QED BY <1>1, <2>1, <2>2 DEF HandsGood, Started
<1> QED BY <1>1, <1>2, <1>3, <1>4, <1>5, CalmCopies

LEMMA AnsweredOne ==
  ASSUME CopyInv, NEW c \in Clients, at' = [at EXCEPT ![c] = "idle"]
  PROVE  Answered
  BY DEF CopyInv, Shaped, Answered

LEMMA CancelCopies ==
  ASSUME CopyInv, OneWriter, NEW c \in Clients,
         (\E j \in Job : CancelAsks(c, j)) \/ CancelReads(c) \/ CancelAdopts(c)
  PROVE  CopyInv'
<1>1. Shaped /\ HandsGood /\ DbShaped(db)
  BY DEF CopyInv, Shaped
<1>2. ASSUME NEW j \in Job, CancelAsks(c, j) PROVE CopyInv'
  <2> DEFINE r == Running(j)
             a == [op |-> "cancel", v |-> j, run |-> r]
             t == [task[j] EXCEPT !.asked = r \/ task[j].asked]
  <2>1. /\ at' = [at EXCEPT ![c] = "cancel"] /\ about' = [about EXCEPT ![c] = a]
        /\ task' = [task EXCEPT ![j] = t] /\ UNCHANGED <<born, spec, db, disk>>
    BY <1>2 DEF CancelAsks
  <2>2. /\ TaskShaped(t) /\ t.pc = task[j].pc /\ t.todo = task[j].todo /\ t.fed = task[j].fed
        /\ t.pend = task[j].pend /\ t.status = task[j].status
    BY <1>1 DEF Shaped, TaskShaped, TaskFields
  <2>3. AboutShaped(a) /\ a.v = j
    BY DEF AboutShaped
  <2> HIDE DEF a, t, r
  <2>4. at'[c] = "cancel" /\ about'[c].v = j
    BY <1>1, <2>1, <2>3 DEF Shaped
  <2>5. /\ task' = [k \in Job |-> task'[k]] /\ task'[j] = t
        /\ \A k \in Job \ {j} : task'[k] = task[k]
    BY <1>1, <2>1 DEF Shaped
  <2>6. \A k \in Job : TaskShaped(task'[k]) /\ Calm(task[k], task'[k]) /\ task'[k].pc = task[k].pc
    <3> TAKE k \in Job
    <3>1. CASE k = j
      BY <2>2, <2>5, <3>1 DEF Calm
    <3>2. CASE k # j
      BY <1>1, <2>5, <3>2 DEF Calm, Shaped
    <3> QED BY <3>1, <3>2
  <2>7. HandGood(c)
    BY <2>4 DEF HandGood
  <2> QED BY <2>1, <2>3, <2>5, <2>6, <2>7, AskingCopies
<1>3. CASE CancelReads(c)
  <2>1. PICK j : j = about[c].v
    OBVIOUS
  <2>2. /\ j \in Job /\ at' = [at EXCEPT ![c] = "idle"] /\ UNCHANGED <<about, born, spec>>
        /\ Cut(j) \/ UNCHANGED <<db, disk, task>>
    BY <1>1, <1>3, <2>1 DEF CancelReads, HandsGood
  <2>3. Answered
    BY <2>2, AnsweredOne
  <2>4. CASE Cut(j)
    BY <2>2, <2>3, <2>4, RunningCopies
  <2>5. CASE UNCHANGED <<db, disk, task>>
    BY <2>2, <2>3, <2>5, RowsCopies
  <2> QED BY <2>2, <2>4, <2>5
<1>4. CASE CancelAdopts(c)
  <2>1. PICK j : j = about[c].v
    OBVIOUS
  <2>2. /\ at' = [at EXCEPT ![c] = "idle"] /\ UNCHANGED <<about, born, spec, task>>
        /\ Commit([db EXCEPT !.status[j] = "cancelled"]) \/ UNCHANGED <<db, disk>>
    BY <1>4, <2>1 DEF CancelAdopts
  <2>3. Answered
    BY <2>2, AnsweredOne
  <2>4. PICK f : f = [db.status EXCEPT ![j] = "cancelled"]
    OBVIOUS
  <2>5. f = [k \in Job |-> f[k]] /\ [db EXCEPT !.status[j] = "cancelled"] = [db EXCEPT !.status = f]
    BY <1>1, <2>4 DEF DbShaped
  <2> QED BY <2>2, <2>3, <2>5, RowsCopies
<1> QED BY <1>2, <1>3, <1>4

(* A delete takes a version's rows, and then its copy, which covers nothing by
   then: no diarization is reading or copying them. *)
LEMMA ErasingCopies ==
  ASSUME CopyInv, OneWriter, NEW c \in Clients, NEW l \in {"copy", "rows"},
         at' = [at EXCEPT ![c] = l], at[c] \in Erasing,
         UNCHANGED <<about, born, spec, task>>,
         NEW w, w = about[c].v, NEW x, Commit(x), Elsewise(x, w),
         x.segs[w] \subseteq db.segs[w], x.copy[w] \in {db.copy[w], NoCopy},
         x.segs[w] = {} \/ x.copy[w] = NoCopy,
         x.copy[w] # db.copy[w] => at[c] = "copy"
  PROVE  CopyInv'
<1>1. Shaped /\ DbFull(db) /\ HandsGood /\ w \in Job
  BY DEF CopyInv, HandsGood
<1>2. Job \subseteq Version /\ db' = x /\ disk' = x /\ DbShaped(x) /\ DbFull(x)
  BY DEF Version, Commit, Elsewise
<1>3. /\ at' = [d \in Clients |-> at'[d]] /\ at'[c] = l
      /\ \A d \in Clients \ {c} : at'[d] = at[d]
  BY <1>1 DEF Shaped
<1>4. Shaped' /\ DbFull(db)' /\ DbFull(disk)'
  <2>1. DbShaped(db)' /\ DbShaped(disk)'
    BY <1>2 DEF DbShaped
  <2>2. DbFull(db)' /\ DbFull(disk)'
    BY <1>2 DEF DbFull
  <2> QED BY <1>1, <1>3, <2>1, <2>2 DEF Shaped, AboutShaped, TaskShaped
<1>5. HandsGood'
  <2>1. \A d \in Clients : at'[d] \in {"probe", "commit"} => at'[d] = at[d]
    BY <1>3
  <2>2. \A d \in Clients : at'[d] \in Erasing \cup {"cancel"} => at[d] \in Erasing \cup {"cancel"}
    BY <1>3
  <2> QED BY <1>1, <2>1, <2>2 DEF HandsGood, Started
<1>6. ASSUME NEW v \in Version
      PROVE  /\ VersionGood(db, v)' /\ VersionGood(disk, v)'
             /\ disk'.segs[v] \subseteq db'.segs[v]
  <2>1. VersionGood(db, v)
    BY DEF CopyInv
  <2>2. x.segs[v] \subseteq db.segs[v] /\ x.copy[v] \in {db.copy[v], NoCopy}
    BY DEF Elsewise
  <2>3. Writer(v) \/ BrokenOff(v) \/ CopyWhole(x, v)
    <3>1. CASE v = w
      BY <3>1 DEF CopyWhole
    <3>2. CASE v # w
      BY <2>1, <3>2 DEF Elsewise, VersionGood, CopyWhole
    <3> QED BY <3>1, <3>2
  <2>4. x.copy[v] \in [Utt -> Nat]
    BY <2>1, <2>2 DEF VersionGood, NoCopy
  <2>5. VersionGood(x, v)
    BY <2>1, <2>2, <2>3, <2>4 DEF VersionGood
  <2> QED BY <1>2, <2>5 DEF VersionGood, Started, Writer, BrokenOff, CopyWhole
<1>7. ASSUME NEW k \in Job PROVE RunGood(k)'
  <2>1. RunGood(k)
    BY DEF CopyInv
  <2>2. ASSUME spec[k].op = "diarize" PROVE Covers(x, k)
    <3>1. PICK v : v = spec[k].target
      OBVIOUS
    <3>2. v \in Version /\ Covers(db, k)
      BY <2>1, <2>2, <3>1 DEF RunGood
    <3>3. x.segs[v] \subseteq db.segs[v]
      BY <3>2 DEF Elsewise
    <3>4. CASE x.copy[v] = db.copy[v]
      BY <3>1, <3>2, <3>3, <3>4 DEF Covers
    <3>5. CASE x.copy[v] # db.copy[v]
      <4>1. v = w /\ at[c] = "copy"
        BY <3>2, <3>5 DEF Elsewise
      <4>2. Deleting(w)
        BY <4>1 DEF Deleting
      <4>3. ~Running(k)
        BY <1>1, <2>2, <3>1, <3>2, <4>1, <4>2 DEF OneWriter, Relabels
      <4> QED BY <4>3 DEF Running, Covers
    <3> QED BY <3>4, <3>5
  <2>3. spec[k].op = "diarize" => Covers(db, k)' /\ Covers(disk, k)'
    BY <1>2, <2>2 DEF Covers
  <2> QED BY <2>1, <2>3 DEF RunGood, Started
<1> QED BY <1>4, <1>5, <1>6, <1>7 DEF CopyInv

LEMMA DeleteCopies ==
  ASSUME CopyInv, OneWriter, NEW c \in Clients,
         \/ \E j \in Job : DeleteAsks(c, j)
         \/ DeleteSegs(c) \/ DeleteCopy(c) \/ DeleteRows(c)
  PROVE  CopyInv'
<1>1. Shaped /\ HandsGood /\ DbShaped(db) /\ DbFull(db) /\ Job \subseteq Version
  BY DEF CopyInv, Shaped, Version
<1>2. \A j \in Job : TaskShaped(task[j]) /\ Calm(task[j], task[j])
  BY <1>1 DEF Shaped, Calm
<1>3. ASSUME NEW j \in Job, DeleteAsks(c, j) PROVE CopyInv'
  <2> DEFINE a == [op |-> "delete", v |-> j, run |-> FALSE]
  <2>1. /\ at' = [at EXCEPT ![c] = "segs"] /\ about' = [about EXCEPT ![c] = a]
        /\ UNCHANGED <<born, spec, db, disk, task>>
    BY <1>3 DEF DeleteAsks
  <2>2. AboutShaped(a) /\ a.v = j
    BY DEF AboutShaped
  <2> HIDE DEF a
  <2>3. at'[c] = "segs" /\ about'[c].v = j
    BY <1>1, <2>1, <2>2 DEF Shaped
  <2>4. HandGood(c)
    BY <2>3 DEF HandGood
  <2> QED BY <1>1, <1>2, <2>1, <2>2, <2>4, AskingCopies DEF Shaped
<1>4. PICK w : w = about[c].v
  OBVIOUS
<1>5. at[c] \in Erasing => w \in Job
  BY <1>1, <1>4 DEF HandsGood
<1>6. CASE DeleteSegs(c)
  <2> DEFINE x == [db EXCEPT !.segs[w] = {}]
  <2>1. /\ at' = [at EXCEPT ![c] = "copy"] /\ at[c] = "segs" /\ at[c] \in Erasing
        /\ UNCHANGED <<about, born, spec, task>> /\ Commit(x)
    BY <1>4, <1>6 DEF DeleteSegs, Erasing
  <2>2. /\ x.status = db.status /\ x.count = db.count /\ x.copy = db.copy
        /\ x.segs = [db.segs EXCEPT ![w] = {}]
        /\ x = [status |-> x.status, count |-> x.count, segs |-> x.segs, copy |-> x.copy]
    BY <1>1 DEF DbShaped
  <2> HIDE DEF x
  <2>3. Elsewise(x, w) /\ x.segs[w] = {} /\ x.copy[w] = db.copy[w]
    BY <1>1, <1>5, <2>1, <2>2 DEF DbShaped, DbFull, Elsewise
  <2> QED BY <1>4, <2>1, <2>3, ErasingCopies
<1>7. CASE DeleteCopy(c)
  <2> DEFINE x == [db EXCEPT !.copy[w] = NoCopy]
  <2>1. /\ at' = [at EXCEPT ![c] = "rows"] /\ at[c] = "copy" /\ at[c] \in Erasing
        /\ UNCHANGED <<about, born, spec, task>> /\ Commit(x)
    BY <1>4, <1>7 DEF DeleteCopy, Erasing
  <2>2. /\ x.status = db.status /\ x.count = db.count /\ x.segs = db.segs
        /\ x.copy = [db.copy EXCEPT ![w] = NoCopy]
        /\ x = [status |-> x.status, count |-> x.count, segs |-> x.segs, copy |-> x.copy]
    BY <1>1 DEF DbShaped
  <2> HIDE DEF x
  <2>3. Elsewise(x, w) /\ x.copy[w] = NoCopy /\ x.segs[w] = db.segs[w]
    BY <1>1, <1>5, <2>1, <2>2 DEF DbShaped, DbFull, Elsewise
  <2> QED BY <1>4, <2>1, <2>3, ErasingCopies
<1>8. CASE DeleteRows(c)
  <2> DEFINE v == about[c].v
             Gone(j) == Exists(j) /\ (j = v \/ (spec[j].op = "diarize" /\ spec[j].target = v))
             f == [j \in Job |-> IF Gone(j) THEN "deleted" ELSE db.status[j]]
  <2>1. /\ at' = [at EXCEPT ![c] = "idle"] /\ UNCHANGED <<about, born, spec, task>>
        /\ Commit([db EXCEPT !.status = f])
    BY <1>8 DEF DeleteRows
  <2>2. f = [j \in Job |-> f[j]]
    OBVIOUS
  <2>3. Answered
    BY <2>1, AnsweredOne
  <2> HIDE DEF f
  <2> QED BY <2>1, <2>2, <2>3, RowsCopies
<1> QED BY <1>3, <1>6, <1>7, <1>8

LEMMA LifecycleCopies ==
  ASSUME CopyInv, OneWriter,
         \/ ShutdownBegins \/ ShutdownEnds \/ Reconciles
         \/ \E j \in Job : ShutdownCuts(j)
  PROVE  CopyInv'
<1>1. Shaped /\ HandsGood /\ DbFull(disk) /\ DbShaped(db) /\ DbShaped(disk)
  BY DEF CopyInv, Shaped
<1>2. UNCHANGED at => Answered
  BY <1>1 DEF Answered, Shaped
<1>3. CASE ShutdownBegins
  BY <1>2, <1>3, RowsCopies DEF ShutdownBegins
<1>4. ASSUME NEW j \in Job, ShutdownCuts(j) PROVE CopyInv'
  <2>1. Answered /\ UNCHANGED <<about, born, spec>> /\ (Cut(j) \/ UNCHANGED <<db, disk, task>>)
    BY <1>2, <1>4 DEF ShutdownCuts
  <2> QED BY <2>1, RunningCopies, RowsCopies
<1>5. CASE Reconciles
  <2> DEFINE f == [j \in Job |-> IF db.status[j] \in Cancellable THEN "error" ELSE db.status[j]]
  <2>1. Commit([db EXCEPT !.status = f]) /\ UNCHANGED <<at, about, born, spec, task>>
    BY <1>5 DEF Reconciles
  <2>2. f = [j \in Job |-> f[j]]
    OBVIOUS
  <2> HIDE DEF f
  <2> QED BY <1>2, <2>1, <2>2, RowsCopies
<1>6. CASE ShutdownEnds
  <2>1. /\ db' = disk /\ disk' = disk /\ at' = [c \in Clients |-> "idle"]
        /\ task' = [j \in Job |->
             IF task[j].pc = "none" THEN task[j] ELSE [task[j] EXCEPT !.pc = "ended"]]
        /\ UNCHANGED <<about, born, spec>> /\ \A j \in Job : ~Running(j)
    BY <1>6 DEF ShutdownEnds, GoesDown
  <2>2. ASSUME NEW j \in Job PROVE TaskShaped(task'[j]) /\ Calm(task[j], task'[j])
    <3> DEFINE t == [task[j] EXCEPT !.pc = "ended"]
    <3>1. TaskShaped(task[j]) /\ task[j].pc \in {"none", "creating", "ended"}
      BY <1>1, <2>1 DEF Shaped, Running
    <3>2. /\ TaskShaped(t) /\ t.pc = "ended" /\ t.todo = task[j].todo /\ t.fed = task[j].fed
          /\ t.pend = task[j].pend /\ t.status = task[j].status
      BY <3>1 DEF TaskShaped, TaskFields
    <3>3. task'[j] = IF task[j].pc = "none" THEN task[j] ELSE t
      BY <2>1
    <3> HIDE DEF t
    <3> QED BY <3>1, <3>2, <3>3 DEF Calm
  <2>3. task' = [j \in Job |-> task'[j]]
    BY <2>1
  <2>4. Shaped'
    <3>1. DbShaped(db)' /\ DbShaped(disk)' /\ \A j \in Job : TaskShaped(task[j])'
      BY <1>1, <2>1, <2>2 DEF DbShaped, TaskShaped
    <3> QED BY <1>1, <2>1, <2>3, <3>1 DEF Shaped, AboutShaped
  <2>5. HandsGood'
    BY <2>1 DEF HandsGood, Erasing
  <2>6. DbFull(db)' /\ DbFull(disk)' /\ SameAs(db', disk) /\ SameAs(disk', disk)
    BY <1>1, <2>1 DEF DbFull, SameAs
  <2> QED BY <2>1, <2>2, <2>4, <2>5, <2>6, CalmCopies
<1> QED BY <1>3, <1>4, <1>5, <1>6

LEMMA InitCopies == Init => CopyInv
<1> SUFFICES ASSUME Init PROVE CopyInv
  OBVIOUS
<1>1. Shaped /\ DbFull(db) /\ DbFull(disk) /\ HandsGood
  <2>1. Shaped
    BY DEF Init, Shaped, AboutShaped, DbShaped, EmptyDb, TaskShaped, TaskFields, NoTask
  <2> QED BY <2>1 DEF Init, DbFull, EmptyDb, HandsGood, Erasing
<1>2. ASSUME NEW v \in Version
      PROVE  /\ VersionGood(db, v) /\ VersionGood(disk, v) /\ disk.segs[v] \subseteq db.segs[v]
  BY DEF Init, EmptyDb, VersionGood, Started, CopyWhole, NoCopy
<1>3. ASSUME NEW j \in Job PROVE RunGood(j)
  <2>1. task[j] = NoTask /\ spec[j] = Unborn
    BY DEF Init
  <2> QED BY <2>1 DEF RunGood, NoTask, Unborn, OpKinds, Unread
<1> QED BY <1>1, <1>2, <1>3 DEF CopyInv

LEMMA NextCopies ==
  ASSUME CopyInv, OneWriter, [Next]_vars, "crash" \notin Requests
  PROVE  CopyInv'
<1>1. CASE UNCHANGED vars
  <2>1. Answered
    BY <1>1 DEF CopyInv, Shaped, Answered, vars
  <2> QED BY <1>1, <2>1, RowsCopies DEF vars
<1>2. ASSUME NEW c \in Clients,
             \/ \E op \in Ops, v \in Version : EnqueueAsks(c, op, v)
             \/ EnqueueRefused(c) \/ Requesting(c)
             \/ \E j \in Job : CancelAsks(c, j) \/ DeleteAsks(c, j)
      PROVE  CopyInv'
  BY <1>2, EnqueueCopies, InsertCopies, LaunchCopies, CancelCopies, DeleteCopies DEF Requesting
<1>3. ASSUME NEW j \in Job,
             Driving(j) \/ Copying(j) \/ Ending(j) \/ Router(j) \/ Breaks(j)
      PROVE  CopyInv'
  BY <1>3, RunningCopies
<1>4. ~Crash
  BY DEF Crash
<1> QED
  BY <1>1, <1>2, <1>3, <1>4, LifecycleCopies DEF Next

LEMMA WholeOrNone ==
  ASSUME CopyInv
  PROVE  WholeCopyOrNone
  BY DEF CopyInv, VersionGood, CopyWhole, WholeCopyOrNone

(* With one job there is no second writer: a run never relabels itself. *)
LEMMA SoleWriter ==
  ASSUME CopyInv, MaxJobs = 1
  PROVE  OneWriter
<1>1. Job = {1} /\ RunGood(1)
  BY DEF CopyInv, Job
<1>2. ASSUME NEW v \in Version, Relabels(1, v) PROVE v \notin Job
  BY <1>1, <1>2 DEF Relabels, RunGood
<1> QED BY <1>1, <1>2 DEF OneWriter

-----------------------------------------------------------------------------
(* A whole copy or none: a diarization that ends, is cancelled at any await,
   twice or by a shutdown, leaves a relabelled copy that covers its version, or
   none, unless a failing insert broke it off (_diarize_session, _copy_rows).
   What it rests on is a hypothesis: while a diarization runs nobody else
   diarizes, re-transcribes or deletes its version.  A process death between
   two rows leaves half a copy (the code has nothing to repair it with). *)
THEOREM CopiesStayWhole ==
  ASSUME "crash" \notin Requests
  PROVE  Spec /\ []OneWriter => []WholeCopyOrNone
<1>1. Init => CopyInv
  BY InitCopies
<1>2. CopyInv /\ OneWriter /\ [Next]_vars => CopyInv'
  BY NextCopies
<1>3. CopyInv => WholeCopyOrNone
  BY WholeOrNone
<1> QED
  BY <1>1, <1>2, <1>3, PTL DEF Spec

(* A job that has the recording to itself needs no such hypothesis: whatever
   its requests, failures and shutdowns, for any number of clients and any
   length of the recording. *)
THEOREM SoleCopyStaysWhole ==
  ASSUME "crash" \notin Requests, MaxJobs = 1
  PROVE  Spec => []WholeCopyOrNone
<1>1. Init => CopyInv
  BY InitCopies
<1>2. CopyInv => OneWriter /\ WholeCopyOrNone
  BY SoleWriter, WholeOrNone
<1>3. CopyInv /\ OneWriter /\ [Next]_vars => CopyInv'
  BY NextCopies
<1> QED
  BY <1>1, <1>2, <1>3, PTL DEF Spec
=============================================================================
