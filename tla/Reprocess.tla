----------------------------- MODULE Reprocess -----------------------------
(***************************************************************************)
(* ReprocessManager (src/src/loreline/reprocess/jobs.py): jobs over one    *)
(* stored recording.                                                       *)
(*                                                                         *)
(*   - a transcribe job re-runs the recording, utterance by utterance, as  *)
(*     a new transcript version named by the job;                          *)
(*   - a diarize job makes one call and writes a relabelled copy of a      *)
(*     version, which then hides that version's own rows on read;          *)
(*   - requests enqueue jobs, cancel them and delete versions;             *)
(*   - a shutdown cancels the tasks (aclose), the process may die, and the *)
(*     next start fails what was left (reconcile).                         *)
(*                                                                         *)
(* All of it shares one SQLite connection: db is what the connection       *)
(* reads, disk what was committed.  A statement and its commit are two     *)
(* awaits; they are one step here unless a cancellation falls between.     *)
(***************************************************************************)
EXTENDS Integers, Sequences, FiniteSets

CONSTANTS
  Clients,     \* concurrent request handlers
  Ops,         \* which jobs they ask for: subset of OpKinds
  Requests,    \* what else happens: subset of RequestKinds
  Faults,      \* which failures may happen: subset of FaultKinds
               \* ("store": the insert of a segment raises; job rows do not fail)
  MaxJobs,     \* bound: jobs enqueued in one behaviour
  MaxUtts,     \* bound: utterances of the recording
  MaxCrashes   \* bound: process deaths and shutdowns in one behaviour

OpKinds      == {"transcribe", "diarize"}
RequestKinds == {"cancel", "adopt", "delete", "shutdown", "crash"}
FaultKinds   == {"probe", "provider", "store"}

ASSUME ConstantsAssumption ==
  /\ Ops \subseteq OpKinds /\ Requests \subseteq RequestKinds
  /\ Faults \subseteq FaultKinds
  /\ MaxJobs \in Nat /\ MaxUtts \in Nat \ {0} /\ MaxCrashes \in Nat

Job      == 1 .. MaxJobs
Original == 0                      \* ORIGINAL_VERSION
Version  == Job \cup {Original}
Utt      == 1 .. MaxUtts
Cancellable == {"queued", "running"}
Unborn   == [op |-> "transcribe", target |-> Original]
NoCopy   == [u \in Utt |-> 0]

VARIABLES
  up,       \* the process: "up", "stopping" (aclose) or "down"
  crashes,  \* times it went down
  uncut,    \* aclose: tasks still to be cancelled
  at,       \* at[c]: where request handler c is
  about,    \* about[c]: the job or version it is about, and what it knows of it
  born,     \* jobs inserted so far
  spec,     \* spec[j]: the operation and the target of job j's row
  db,       \* the connection's view: status, count, segs, copy
  disk,     \* what is committed
  task      \* task[j]: job j's asyncio task, its job object and cancel flag

vars == <<up, crashes, uncut, at, about, born, spec, db, disk, task>>

(* status[j], count[j]: the row of job j; segs[v]: the rows of version v;
   copy[v]: how often its relabelled copy holds each of them. *)
EmptyDb == [status |-> [j \in Job |-> "none"], count |-> [j \in Job |-> 0],
            segs |-> [v \in Version |-> IF v = Original THEN Utt ELSE {}],
            copy |-> [v \in Version |-> NoCopy]]

NoTask == [pc |-> "none", status |-> "queued", count |-> 0,
           asked |-> FALSE, stopped |-> FALSE,
           fed |-> 0, pend |-> <<>>, closed |-> "no", dropped |-> FALSE,
           todo |-> {}]

Init ==
  /\ up = "up" /\ crashes = 0 /\ uncut = {} /\ born = 0
  /\ at = [c \in Clients |-> "idle"]
  /\ about = [c \in Clients |-> [op |-> "none", v |-> 0, run |-> FALSE]]
  /\ spec = [j \in Job |-> Unborn]
  /\ db = EmptyDb /\ disk = EmptyDb
  /\ task = [j \in Job |-> NoTask]

-----------------------------------------------------------------------------
(* The database. *)

Exists(j) == db.status[j] \notin {"none", "deleted"}
Commit(d) == db' = d /\ disk' = d

(* A write cancelled while it was awaited: the statement is already with the
   connection's thread and runs, its commit may never be asked for. *)
Torn(d) == db' = d /\ disk' \in {d, disk}

(* ReprocessRepository.update from the task's job object. *)
Row(j) == IF Exists(j)
          THEN [db EXCEPT !.status[j] = task[j].status, !.count[j] = task[j].count]
          ELSE db
Added(j, u)  == [db EXCEPT !.segs[j] = @ \cup {u}]
Copied(j, u) == [db EXCEPT !.copy[spec[j].target][u] = @ + 1]
Wiped(j)     == [db EXCEPT !.copy[spec[j].target] = NoCopy]

Running(j) == task[j].pc \notin {"none", "creating", "ended"}
Goes(j, l) == task' = [task EXCEPT ![j].pc = l]
Ends(j, l, status) ==
  task' = [task EXCEPT ![j] = [@ EXCEPT !.pc = l, !.status = status]]
Next1(S) == CHOOSE u \in S : \A w \in S : u <= w

RequestFrame == UNCHANGED <<up, crashes, uncut>>
TaskFrame    == UNCHANGED <<up, crashes, uncut, at, about, born, spec>>

-----------------------------------------------------------------------------
(* enqueue *)

EnqueueAsks(c, op, v) ==
  /\ up = "up" /\ at[c] = "idle" /\ op \in Ops
  /\ op = "transcribe" => v = Original
  /\ v # Original => db.segs[v] # {}
  /\ at' = [at EXCEPT ![c] = "probe"]
  /\ about' = [about EXCEPT ![c] = [op |-> op, v |-> v, run |-> FALSE]]
  /\ RequestFrame /\ UNCHANGED <<born, spec, db, disk, task>>

(* DiarizerUnreachableError, DiarizerEndpointMissingError. *)
EnqueueRefused(c) ==
  /\ "probe" \in Faults
  /\ at[c] = "probe"
  /\ at' = [at EXCEPT ![c] = "idle"]
  /\ RequestFrame /\ UNCHANGED <<about, born, spec, db, disk, task>>

(* The row is inserted; its commit is still awaited. *)
EnqueueInserts(c) ==
  /\ at[c] = "probe" /\ born < MaxJobs
  /\ born' = born + 1
  /\ spec' = [spec EXCEPT ![born + 1] = [op |-> about[c].op, target |-> about[c].v]]
  /\ db' = [db EXCEPT !.status[born + 1] = "queued"]
  /\ Goes(born + 1, "creating")
  /\ at' = [at EXCEPT ![c] = "commit"]
  /\ about' = [about EXCEPT ![c].v = born + 1]
  /\ RequestFrame /\ UNCHANGED disk

(* Committed; the task is created and registered. *)
EnqueueLaunches(c) ==
  /\ at[c] = "commit"
  /\ disk' = db
  /\ Goes(about[c].v, "new")
  /\ at' = [at EXCEPT ![c] = "idle"]
  /\ RequestFrame /\ UNCHANGED <<about, born, spec, db>>

-----------------------------------------------------------------------------
(* The run: _run, then _transcribe_session and _drive, or _diarize_session. *)

RunBegins(j) ==
  /\ task[j].pc = "new"
  /\ task' = [task EXCEPT ![j] = [@ EXCEPT
       !.pc      = IF task[j].asked THEN "early" ELSE "start",
       !.status  = IF task[j].asked THEN "cancelled" ELSE "running",
       !.stopped = task[j].asked]]
  /\ TaskFrame /\ UNCHANGED <<db, disk>>

RunNever(j) ==
  /\ task[j].pc = "early"
  /\ Commit(Row(j)) /\ Goes(j, "ended")
  /\ TaskFrame

RunStarts(j) ==
  /\ task[j].pc = "start"
  /\ Commit(Row(j)) /\ Goes(j, "prepare")
  /\ TaskFrame

(* The connector, the diarizer or the recording cannot be had, or the
   diarization call fails. *)
PrepareFails(j) ==
  /\ "provider" \in Faults
  /\ task[j].pc = "prepare"
  /\ Ends(j, "final", "error")
  /\ TaskFrame /\ UNCHANGED <<db, disk>>

Prepared(j) ==
  /\ task[j].pc = "prepare" /\ spec[j].op = "transcribe"
  /\ Goes(j, "drive")
  /\ TaskFrame /\ UNCHANGED <<db, disk>>

(* The router task (_run_then_close over _aiter): one utterance handed over and
   answered, with text, with nothing, or with a failure the router drops; or
   the flag seen, the recording over, or every provider retired. *)
Feeding(j) == task[j].pc \in {"drive", "tick", "drain"} /\ spec[j].op = "transcribe"
              /\ task[j].closed = "no"

Hears(j) ==
  LET t == task[j] IN
  /\ Feeding(j) /\ t.fed < MaxUtts /\ ~t.asked
  /\ \/ task' = [task EXCEPT ![j] = [t EXCEPT !.fed = t.fed + 1, !.pend = Append(t.pend, t.fed + 1)]]
     \/ task' = [task EXCEPT ![j].fed = @ + 1]
     \/ /\ "provider" \in Faults
        /\ task' = [task EXCEPT ![j] = [t EXCEPT !.fed = t.fed + 1, !.dropped = TRUE]]
  /\ TaskFrame /\ UNCHANGED <<db, disk>>

FeedEnds(j) ==
  LET t == task[j] IN
  /\ Feeding(j) /\ (t.asked \/ t.fed = MaxUtts)
  /\ task' = [task EXCEPT ![j] = [@ EXCEPT !.closed = "clean",
                                            !.stopped = t.asked /\ t.fed < MaxUtts]]
  /\ TaskFrame /\ UNCHANGED <<db, disk>>

(* Mutant: the job's bus is closed after a router that ended well only. *)
FeedExhaustedUnclosed(j) ==
  /\ "provider" \in Faults
  /\ Feeding(j) /\ task[j].fed < MaxUtts /\ ~task[j].asked
  /\ task' = [task EXCEPT ![j].fed = MaxUtts + 1]     \* it feeds nobody again
  /\ TaskFrame /\ UNCHANGED <<db, disk>>

FeedExhausted(j) ==
  LET t == task[j] IN
  /\ "provider" \in Faults
  /\ Feeding(j) /\ task[j].fed < MaxUtts /\ ~task[j].asked
  /\ task' = [task EXCEPT ![j] = [t EXCEPT !.fed = t.fed + 1, !.closed = "exhausted"]]
  /\ TaskFrame /\ UNCHANGED <<db, disk>>

(* _drive's loop: store one event, publish it, count it. *)
Stores(j) ==
  LET t == task[j] IN
  /\ task[j].pc = "drive" /\ task[j].pend # <<>>
  /\ Commit(Added(j, Head(task[j].pend)))
  /\ task' = [task EXCEPT ![j] = [t EXCEPT !.pc = "tick", !.pend = Tail(t.pend),
                                            !.count = t.count + 1]]
  /\ TaskFrame

(* Mutant: the event is counted before it is stored. *)
StoreFailsCounted(j) ==
  LET t == task[j] IN
  /\ "store" \in Faults
  /\ task[j].pc = "drive" /\ task[j].pend # <<>>
  /\ task' = [task EXCEPT ![j] = [t EXCEPT !.pc = "drain", !.status = "error",
                                            !.count = t.count + 1]]
  /\ TaskFrame /\ UNCHANGED <<db, disk>>

(* The insert raises; _drive still waits for the router in its finally. *)
StoreFails(j) ==
  /\ "store" \in Faults
  /\ task[j].pc = "drive" /\ task[j].pend # <<>>
  /\ Ends(j, "drain", "error")
  /\ TaskFrame /\ UNCHANGED <<db, disk>>

(* _LiveSegmentCount.set: the count reaches the row, or the tick is dropped.
   A copy is over with its last row. *)
Ticks(j) ==
  LET over == spec[j].op = "diarize" /\ task[j].todo = {} IN
  /\ task[j].pc = "tick"
  /\ Commit(Row(j)) \/ UNCHANGED <<db, disk>>
  /\ task' = [task EXCEPT ![j] = [@ EXCEPT
       !.pc = IF over THEN "final" ELSE IF spec[j].op = "diarize" THEN "copy" ELSE "drive",
       !.status = IF over THEN "done" ELSE task[j].status]]
  /\ TaskFrame

(* The close sentinel behind the last event: the router's failure is raised,
   NothingTranscribedError is, or the job is over. *)
DriveEnds(j) ==
  LET t == task[j] IN
  /\ t.pc = "drive" /\ t.pend = <<>> /\ t.closed # "no"
  /\ Ends(j, "final",
       IF t.closed = "exhausted" THEN "error"
       ELSE IF t.count = 0 /\ t.dropped /\ ~t.stopped THEN "error"
       ELSE IF t.stopped THEN "cancelled" ELSE "done")
  /\ TaskFrame /\ UNCHANGED <<db, disk>>

(* Mutant: a request's CancelledError is left to the finally, too. *)
LandsUnrecorded(t) == [t EXCEPT !.pc = "final"]

(* A CancelledError on its way out of _run's try: a request's is recorded
   under a shield, a shutdown's goes through the finally with the status the
   job has. *)
Lands(t) == IF t.asked
            THEN [t EXCEPT !.pc = "shielded", !.status = "cancelled", !.stopped = TRUE]
            ELSE [t EXCEPT !.pc = "final"]

(* The router the finally waited for is over.  What it raised replaces the
   exception under way. *)
Drained(j) ==
  LET t == task[j] IN
  /\ t.pc = "drain" /\ t.closed # "no"
  /\ task' = [task EXCEPT ![j] =
       IF t.closed = "exhausted" \/ t.status = "error"
       THEN [t EXCEPT !.pc = "final", !.status = "error"] ELSE Lands(t)]
  /\ TaskFrame /\ UNCHANGED <<db, disk>>

(* One call answered: nothing to relabel, or segments. *)
Diarized(j) ==
  /\ task[j].pc = "prepare" /\ spec[j].op = "diarize"
  /\ Goes(j, "read") \/ Ends(j, "final", "done")
  /\ TaskFrame /\ UNCHANGED <<db, disk>>

ReadsBase(j) ==
  /\ task[j].pc = "read"
  /\ task' = [task EXCEPT ![j] = [@ EXCEPT !.pc = "wipe", !.todo = db.segs[spec[j].target]]]
  /\ TaskFrame /\ UNCHANGED <<db, disk>>

Wipes(j) ==
  /\ task[j].pc = "wipe"
  /\ Commit(Wiped(j))
  /\ IF task[j].todo = {} THEN Ends(j, "final", "done") ELSE Goes(j, "copy")
  /\ TaskFrame

Copies(j) ==
  LET t == task[j]
      u == Next1(t.todo)
  IN
  /\ t.pc = "copy"
  /\ Commit(Copied(j, u))
  /\ task' = [task EXCEPT ![j] = [t EXCEPT !.pc = "tick", !.todo = t.todo \ {u},
                                            !.count = t.count + 1]]
  /\ TaskFrame

CopyFails(j) ==
  /\ "store" \in Faults
  /\ task[j].pc = "copy"
  /\ Ends(j, "final", "error")
  /\ TaskFrame /\ UNCHANGED <<db, disk>>

(* A cancelled copy: a whole copy or none. *)
Unwinds(j) ==
  /\ task[j].pc = "unwind"
  /\ Commit(Wiped(j))
  /\ task' = [task EXCEPT ![j] = Lands(@)]
  /\ TaskFrame

Shields(j) ==
  /\ task[j].pc = "shielded"
  /\ Commit(Row(j)) /\ Goes(j, "ended")
  /\ TaskFrame

(* _run's finally. *)
Finalises(j) ==
  /\ task[j].pc = "final"
  /\ Commit(Row(j)) /\ Goes(j, "ended")
  /\ TaskFrame

-----------------------------------------------------------------------------
(* task.cancel(): what a CancelledError does where the task awaits. *)

(* Mutant: a cancelled copy keeps what it wrote. *)
CutCopyKept(j) ==
  /\ task[j].pc \in {"copy", "tick"} /\ spec[j].op = "diarize"
  /\ IF task[j].pc = "copy" THEN Torn(Copied(j, Next1(task[j].todo))) ELSE Torn(Row(j))
  /\ task' = [task EXCEPT ![j] = Lands([@ EXCEPT !.count = 0])]

CutCopy(j) ==
  /\ task[j].pc \in {"copy", "tick"} /\ spec[j].op = "diarize"
  /\ IF task[j].pc = "copy" THEN Torn(Copied(j, Next1(task[j].todo))) ELSE Torn(Row(j))
  /\ task' = [task EXCEPT ![j] = [@ EXCEPT !.pc = "unwind", !.count = 0]]

CutDrive(j) ==
  /\ task[j].pc \in {"drive", "tick", "drain"} /\ spec[j].op = "transcribe"
  /\ IF task[j].pc = "drive" /\ task[j].pend # <<>>
     THEN Torn(Added(j, Head(task[j].pend)))
     ELSE IF task[j].pc = "tick" THEN Torn(Row(j)) ELSE UNCHANGED <<db, disk>>
  /\ task' = [task EXCEPT ![j] = [@ EXCEPT !.pc = "drain",
       \* awaiting the router itself: the cancellation is the router's
       !.closed = IF task[j].pc = "drain" /\ task[j].closed = "no" THEN "clean"
                  ELSE task[j].closed,
       !.status = "running"]]

CutWrite(j) ==
  \/ /\ task[j].pc = "new" /\ Goes(j, "ended") /\ UNCHANGED <<db, disk>>
  \/ /\ task[j].pc \in {"early", "start", "final"}
     /\ Torn(Row(j)) /\ Goes(j, "ended")
  \/ /\ task[j].pc \in {"prepare", "read"}
     /\ task' = [task EXCEPT ![j] = Lands(@)] /\ UNCHANGED <<db, disk>>
  \/ /\ task[j].pc = "wipe"
     /\ Torn(Wiped(j)) /\ task' = [task EXCEPT ![j] = Lands(@)]
  \/ /\ task[j].pc = "unwind"
     /\ Commit(Wiped(j)) /\ task' = [task EXCEPT ![j] = Lands(@)]
  \/ /\ task[j].pc = "shielded"
     /\ Commit(Row(j)) /\ Goes(j, "final")

Cut(j) == CutCopy(j) \/ CutDrive(j) \/ CutWrite(j)

-----------------------------------------------------------------------------
(* cancel *)

CancelAsks(c, j) ==
  /\ up = "up" /\ "cancel" \in Requests
  /\ at[c] = "idle" /\ Exists(j)
  /\ Running(j) \/ "adopt" \in Requests
  /\ at' = [at EXCEPT ![c] = "cancel"]
  /\ about' = [about EXCEPT ![c] = [op |-> "cancel", v |-> j, run |-> Running(j)]]
  /\ task' = [task EXCEPT ![j].asked = Running(j) \/ @]
  /\ RequestFrame /\ UNCHANGED <<born, spec, db, disk>>

(* The row was read: a finished job is refused, a transcription is left to
   its flag, a diarization is interrupted.  A created task starts before any
   answer of the database comes back, and a first write that was under way when
   the flag was raised is ahead of the read in the connection's one queue: by
   then the run is past it, or never began. *)
CancelReads(c) ==
  LET j == about[c].v IN
  /\ at[c] = "cancel" /\ about[c].run
  /\ task[j].pc \notin {"new", "start"}
  /\ at' = [at EXCEPT ![c] = "idle"]
  /\ IF db.status[j] \in Cancellable /\ spec[j].op = "diarize" /\ Running(j)
     THEN Cut(j) ELSE UNCHANGED <<db, disk, task>>
  /\ RequestFrame /\ UNCHANGED <<about, born, spec>>

(* A row nobody here is running is simply marked: a finished one is not, so this
   is the moment between the insert and the task ("adopt"). *)
CancelAdopts(c) ==
  LET j == about[c].v IN
  /\ at[c] = "cancel" /\ ~about[c].run
  /\ at' = [at EXCEPT ![c] = "idle"]
  /\ IF db.status[j] \in Cancellable
     THEN Commit([db EXCEPT !.status[j] = "cancelled"]) ELSE UNCHANGED <<db, disk>>
  /\ RequestFrame /\ UNCHANGED <<about, born, spec, task>>

-----------------------------------------------------------------------------
(* delete_version *)

Writing(v) == {j \in Job : /\ db.status[j] \in Cancellable
                           /\ j = v \/ (spec[j].op = "diarize" /\ spec[j].target = v)}

(* Mutant: a version is deleted whoever writes it. *)
DeleteAsksBusy(c, v) ==
  /\ up = "up" /\ "delete" \in Requests
  /\ at[c] = "idle"
  /\ Exists(v) /\ spec[v].op = "transcribe"
  /\ at' = [at EXCEPT ![c] = "segs"]
  /\ about' = [about EXCEPT ![c] = [op |-> "delete", v |-> v, run |-> FALSE]]
  /\ RequestFrame /\ UNCHANGED <<born, spec, db, disk, task>>

(* VersionNotFoundError, VersionBusyError, or go ahead. *)
DeleteAsks(c, v) ==
  /\ up = "up" /\ "delete" \in Requests
  /\ at[c] = "idle"
  /\ Exists(v) /\ spec[v].op = "transcribe" /\ Writing(v) = {}
  /\ at' = [at EXCEPT ![c] = "segs"]
  /\ about' = [about EXCEPT ![c] = [op |-> "delete", v |-> v, run |-> FALSE]]
  /\ RequestFrame /\ UNCHANGED <<born, spec, db, disk, task>>

DeleteSegs(c) ==
  /\ at[c] = "segs"
  /\ Commit([db EXCEPT !.segs[about[c].v] = {}])
  /\ at' = [at EXCEPT ![c] = "copy"]
  /\ RequestFrame /\ UNCHANGED <<about, born, spec, task>>

DeleteCopy(c) ==
  /\ at[c] = "copy"
  /\ Commit([db EXCEPT !.copy[about[c].v] = NoCopy])
  /\ at' = [at EXCEPT ![c] = "rows"]
  /\ RequestFrame /\ UNCHANGED <<about, born, spec, task>>

DeleteRows(c) ==
  LET v == about[c].v
      Gone(j) == Exists(j) /\ (j = v \/ (spec[j].op = "diarize" /\ spec[j].target = v))
  IN
  /\ at[c] = "rows"
  /\ Commit([db EXCEPT !.status = [j \in Job |-> IF Gone(j) THEN "deleted" ELSE @[j]]])
  /\ at' = [at EXCEPT ![c] = "idle"]
  /\ RequestFrame /\ UNCHANGED <<about, born, spec, task>>

-----------------------------------------------------------------------------
(* Shutdown, process death, the next start. *)

(* uvicorn lets the requests under way finish before the lifespan ends. *)
ShutdownBegins ==
  /\ "shutdown" \in Requests /\ up = "up" /\ crashes < MaxCrashes
  /\ \A c \in Clients : at[c] = "idle"
  /\ up' = "stopping" /\ uncut' = {j \in Job : Running(j)}
  /\ UNCHANGED <<crashes, at, about, born, spec, db, disk, task>>

ShutdownCuts(j) ==
  /\ up = "stopping" /\ j \in uncut
  /\ uncut' = uncut \ {j}
  /\ IF Running(j) THEN Cut(j) ELSE UNCHANGED <<db, disk, task>>
  /\ UNCHANGED <<up, crashes, at, about, born, spec>>

GoesDown ==
  /\ up' = "down" /\ crashes' = crashes + 1 /\ uncut' = {}
  /\ db' = disk
  /\ at' = [c \in Clients |-> "idle"]
  /\ task' = [j \in Job |->
       IF task[j].pc = "none" THEN task[j] ELSE [task[j] EXCEPT !.pc = "ended"]]
  /\ UNCHANGED <<about, born, spec, disk>>

(* aclose awaited every task; the connection is closed, and what was not
   committed is rolled back. *)
ShutdownEnds ==
  /\ up = "stopping" /\ uncut = {} /\ \A j \in Job : ~Running(j)
  /\ GoesDown

Crash ==
  /\ "crash" \in Requests /\ up # "down" /\ crashes < MaxCrashes
  /\ GoesDown

(* Mutant: only running jobs are failed. *)
ReconcilesRunning ==
  /\ up = "down" /\ up' = "up"
  /\ Commit([db EXCEPT !.status =
       [j \in Job |-> IF @[j] = "running" THEN "error" ELSE @[j]]])
  /\ UNCHANGED <<crashes, uncut, at, about, born, spec, task>>

Reconciles ==
  /\ up = "down" /\ up' = "up"
  /\ Commit([db EXCEPT !.status =
       [j \in Job |-> IF @[j] \in Cancellable THEN "error" ELSE @[j]]])
  /\ UNCHANGED <<crashes, uncut, at, about, born, spec, task>>

-----------------------------------------------------------------------------
Requesting(c) ==
  \/ EnqueueInserts(c) \/ EnqueueLaunches(c)
  \/ CancelReads(c) \/ CancelAdopts(c)
  \/ DeleteSegs(c) \/ DeleteCopy(c) \/ DeleteRows(c)

Driving(j) ==
  \/ Prepared(j) \/ Stores(j) \/ Ticks(j) \/ DriveEnds(j) \/ Drained(j)

Copying(j) ==
  \/ Diarized(j) \/ ReadsBase(j) \/ Wipes(j) \/ Copies(j) \/ Unwinds(j)

Ending(j) ==
  \/ RunBegins(j) \/ RunNever(j) \/ RunStarts(j) \/ Shields(j) \/ Finalises(j)

Router(j) == Hears(j) \/ FeedEnds(j)
Breaks(j) == PrepareFails(j) \/ FeedExhausted(j) \/ StoreFails(j) \/ CopyFails(j)

Next ==
  \/ \E c \in Clients :
       \/ \E op \in Ops, v \in Version : EnqueueAsks(c, op, v)
       \/ EnqueueRefused(c) \/ Requesting(c)
       \/ \E j \in Job : CancelAsks(c, j) \/ DeleteAsks(c, j)
  \/ \E j \in Job :
       Driving(j) \/ Copying(j) \/ Ending(j) \/ Router(j) \/ Breaks(j) \/ ShutdownCuts(j)
  \/ ShutdownBegins \/ ShutdownEnds \/ Crash \/ Reconciles

Spec == Init /\ [][Next]_vars

(* The event loop runs every ready task, and every vendor call is bounded by
   the router's timeout. *)
Fairness ==
  /\ \A c \in Clients : WF_vars(Requesting(c))
  /\ \A j \in Job : /\ WF_vars(Driving(j)) /\ WF_vars(Copying(j)) /\ WF_vars(Ending(j))
                    /\ WF_vars(Router(j)) /\ WF_vars(ShutdownCuts(j))
  /\ WF_vars(ShutdownEnds) /\ WF_vars(Reconciles)

FairSpec == Spec /\ Fairness
=============================================================================
