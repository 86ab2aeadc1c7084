------------------------------ MODULE Session ------------------------------
(***************************************************************************)
(* SessionManager (src/src/loreline/session/manager.py): the one recorder  *)
(* of the process, with every asyncio task a session is made of.           *)
(*                                                                         *)
(*   - request handlers (Clients) run start(), stop() and the delete route *)
(*     and share one FIFO asyncio.Lock;                                    *)
(*   - a session has a capture task (frames -> index sidecar -> utterance  *)
(*     queue), a live task (SttRouter or StreamPath) and a persist task    *)
(*     (reliable subscription -> transcript rows -> application bus);      *)
(*   - a capture that dies spawns an _end_unattended task, here the        *)
(*     process named by the session itself;                                *)
(*   - the process may die and boot again (mark_interrupted).              *)
(*                                                                         *)
(* One utterance stands for one chunk of speech, one turn for one vendor   *)
(* turn of a streaming session.  A step is what runs between two awaits    *)
(* that can be told apart from outside.                                    *)
(***************************************************************************)
EXTENDS Integers, Sequences, FiniteSets

CONSTANTS
  Clients,      \* concurrent request handlers
  Requests,     \* which requests they make: subset of RequestKinds
  Shapes,       \* which live paths connectors have: subset of ShapeKinds
  Faults,       \* which failures may happen: subset of FaultKinds
  MaxSessions,  \* bound: sessions started in one behaviour
  MaxUtts,      \* bound: utterances one session hears
  MaxTurns,     \* bound: vendor turns one session opens
  MaxCrashes,   \* bound: process deaths in one behaviour
  QueueMax      \* _UTTERANCE_QUEUE_MAX

RequestKinds == {"start", "stop", "delete"}
ShapeKinds   == {"router", "stream"}
FaultKinds   == {"config", "create", "device", "disk", "provider", "persist",
                 "settle", "interims", "finish", "drain", "crash"}

ASSUME ConstantsAssumption ==
  /\ Requests \subseteq RequestKinds
  /\ Shapes \subseteq ShapeKinds
  /\ Faults \subseteq FaultKinds
  /\ MaxSessions \in Nat /\ MaxUtts \in Nat /\ MaxTurns \in Nat
  /\ MaxCrashes \in Nat
  /\ QueueMax \in Nat \ {0}

Sid  == 1 .. MaxSessions
Utt  == 1 .. MaxUtts
Turn == 1 .. MaxTurns
None == 0                      \* no session
Done == 0                      \* _CAPTURE_DONE, the utterance queue's sentinel
Proc == Clients \cup Sid       \* s \in Sid: session s's _end_unattended task

ASSUME ProcessesAssumption == Clients \cap Nat = {}

(* Transcript events and rows: a settled utterance, a growing turn (interim)
   or a settled one; Close is the session bus's sentinel. *)
Event(kind, n) == [kind |-> kind, n |-> n]
Events == {Event("utt", u)  : u \in Utt}
          \cup {Event(k, t) : k \in {"interim", "final"}, t \in Turn}
Close  == Event("close", 0)

Teardown == {"drain", "persist", "interims", "close", "finish", "return"}
Locked   == Teardown \cup {"preflight", "create", "launch"}
Waiting  == {"wait.start", "wait.stop", "wait.end"}
Ended    == {"completed", "error"}

VARIABLES
  lockq,    \* _lock: the processes holding (head) or awaiting it, in order
  at,       \* at[p]: where process p is
  target,   \* target[p]: the session p is starting, ending or deleting
  slot,     \* _runtime's session, or None
  liveView, \* _live_view_session_id, or None
  born,     \* sessions named so far: ids are never reused
  stopped,  \* stopped[s]: source.stop() was called
  cap,      \* cap[s]: the capture task
  capEnd,   \* capEnd[s]: how its loop ended
  heard,    \* heard[s]: utterances the chunker completed
  queue,    \* queue[s]: the utterance queue
  feeding,  \* feeding[s]: completed utterances reach the queue
  offered,  \* offered[s]: history, the utterances that ever reached it
  live,     \* live[s]: the live task
  liveEnd,  \* liveEnd[s]: how it ended
  calling,  \* calling[s]: the utterance at the provider, or 0
  turn,     \* turn[s]: vendor turns opened
  open,     \* open[s]: turn[s] is not settled
  cut,      \* cut[s]: the drain timeout cancelled the live task
  noticed,  \* noticed[s]: _live_finished ran
  bus,      \* bus[s]: the persist task's reliable subscription queue
  persist,  \* persist[s]: the persist task
  row,      \* row[s]: the sessions table
  rows,     \* rows[s]: the transcript_segments table
  files,    \* files[s]: the audio store, subset of {"wav", "index"}
  index,    \* index[s]: utterances the sidecar on disk lists
  up,       \* the process: "serving", "down" or "sweeping" (booting)
  sweep,    \* mark_interrupted: sessions whose interims are still to go
  crashes   \* process deaths so far

reqVars  == <<lockq, at, target, slot, liveView, born>>
capVars  == <<stopped, cap, capEnd, heard>>
feedVars == <<queue, feeding, offered>>
liveVars == <<live, liveEnd, calling, turn, open, cut, noticed>>
storeVars == <<bus, persist>>
diskVars == <<row, rows, files, index>>
bootVars == <<up, sweep, crashes>>
vars == <<reqVars, capVars, feedVars, liveVars, storeVars, diskVars, bootVars>>

Init ==
  /\ lockq = <<>> /\ slot = None /\ liveView = None /\ born = 0
  /\ at = [p \in Proc |-> "idle"]
  /\ target = [p \in Proc |-> None]
  /\ stopped = [s \in Sid |-> FALSE]
  /\ cap = [s \in Sid |-> "none"] /\ capEnd = [s \in Sid |-> "none"]
  /\ heard = [s \in Sid |-> 0]
  /\ queue = [s \in Sid |-> <<>>]
  /\ feeding = [s \in Sid |-> FALSE]
  /\ offered = [s \in Sid |-> {}]
  /\ live = [s \in Sid |-> "none"] /\ liveEnd = [s \in Sid |-> "none"]
  /\ calling = [s \in Sid |-> 0]
  /\ turn = [s \in Sid |-> 0] /\ open = [s \in Sid |-> FALSE]
  /\ cut = [s \in Sid |-> FALSE] /\ noticed = [s \in Sid |-> FALSE]
  /\ bus = [s \in Sid |-> <<>>] /\ persist = [s \in Sid |-> "none"]
  /\ row = [s \in Sid |-> "none"] /\ rows = [s \in Sid |-> {}]
  /\ files = [s \in Sid |-> {}] /\ index = [s \in Sid |-> {}]
  /\ up = "serving" /\ sweep = {} /\ crashes = 0

-----------------------------------------------------------------------------
(* The lock and the requests. *)

(* Mutant: the handlers do not take the lock. *)
HoldsNothing(p) == TRUE

Holds(p)   == lockq # <<>> /\ Head(lockq) = p
Goto(p, l) == at' = [at EXCEPT ![p] = l]
Release(p) == lockq' = Tail(lockq) /\ Goto(p, "idle")

(* A request arrives and queues for the lock. *)
Arrive(c, kind, l) ==
  /\ up = "serving" /\ kind \in Requests
  /\ at[c] = "idle"
  /\ lockq' = Append(lockq, c) /\ Goto(c, l)
  /\ UNCHANGED <<target, slot, liveView, born>>
  /\ UNCHANGED <<capVars, feedVars, liveVars, storeVars, diskVars, bootVars>>

RequestStart(c) == born < MaxSessions /\ Arrive(c, "start", "wait.start")
RequestStop(c)  == Arrive(c, "stop", "wait.stop")

(* SessionActiveError. *)
StartRefused(c) ==
  /\ at[c] = "wait.start" /\ Holds(c) /\ slot # None
  /\ Release(c)
  /\ UNCHANGED <<target, slot, liveView, born>>
  /\ UNCHANGED <<capVars, feedVars, liveVars, storeVars, diskVars, bootVars>>

(* Mutant: a start that does not look at the slot. *)
StartPreflightBlindly(c) ==
  /\ at[c] = "wait.start" /\ Holds(c)
  /\ Goto(c, "preflight")
  /\ UNCHANGED <<lockq, target, slot, liveView, born>>
  /\ UNCHANGED <<capVars, feedVars, liveVars, storeVars, diskVars, bootVars>>

(* Providers resolved; the device is opened once and closed again. *)
StartPreflight(c) ==
  /\ at[c] = "wait.start" /\ Holds(c) /\ slot = None
  /\ Goto(c, "preflight")
  /\ UNCHANGED <<lockq, target, slot, liveView, born>>
  /\ UNCHANGED <<capVars, feedVars, liveVars, storeVars, diskVars, bootVars>>

(* An unknown provider, a refused microphone, an invalid diarizer: nothing
   was created, the request is answered with the error. *)
StartFails(c) ==
  /\ "config" \in Faults
  /\ at[c] = "preflight" /\ Holds(c)
  /\ Release(c)
  /\ UNCHANGED <<target, slot, liveView, born>>
  /\ UNCHANGED <<capVars, feedVars, liveVars, storeVars, diskVars, bootVars>>

(* The session is named and its WAV opened, before its row exists. *)
StartNamed(c) ==
  /\ at[c] = "preflight" /\ Holds(c) /\ born < MaxSessions
  /\ born' = born + 1
  /\ target' = [target EXCEPT ![c] = born + 1]
  /\ files' = [files EXCEPT ![born + 1] = {"wav"}]
  /\ Goto(c, "create")
  /\ UNCHANGED <<lockq, slot, liveView, row, rows, index>>
  /\ UNCHANGED <<capVars, feedVars, liveVars, storeVars, bootVars>>

StartCreates(c) ==
  /\ at[c] = "create" /\ Holds(c)
  /\ row' = [row EXCEPT ![target[c]] = "capturing"]
  /\ Goto(c, "launch")
  /\ UNCHANGED <<lockq, target, slot, liveView, born, rows, files, index>>
  /\ UNCHANGED <<capVars, feedVars, liveVars, storeVars, bootVars>>

(* The insert raises: the request fails, and the opened WAV stays. *)
StartCreateFails(c) ==
  /\ "create" \in Faults
  /\ at[c] = "create" /\ Holds(c)
  /\ Release(c)
  /\ target' = [target EXCEPT ![c] = None]
  /\ UNCHANGED <<slot, liveView, born>>
  /\ UNCHANGED <<capVars, feedVars, liveVars, storeVars, diskVars, bootVars>>

(* Everything after the insert runs without an await: the persist and the
   live task are created, and the slot and the live view are taken. *)
StartLaunches(c, shape) ==
  LET s == target[c] IN
  /\ at[c] = "launch" /\ Holds(c) /\ shape \in Shapes
  /\ slot' = s /\ liveView' = s
  /\ persist' = [persist EXCEPT ![s] = "pull"]
  /\ live' = [live EXCEPT ![s] = IF shape = "router" THEN "pull" ELSE "stream"]
  /\ feeding' = [feeding EXCEPT ![s] = shape = "router"]
  /\ cap' = [cap EXCEPT ![s] = "opening"]
  /\ target' = [target EXCEPT ![c] = None]
  /\ Release(c)
  /\ UNCHANGED <<born, stopped, capEnd, heard, queue, offered, bus>>
  /\ UNCHANGED <<liveEnd, calling, turn, open, cut, noticed>>
  /\ UNCHANGED <<diskVars, bootVars>>

-----------------------------------------------------------------------------
(* The capture task: frames, index, queue. *)

Recording(s) == cap[s] \in {"opening", "recording", "mark"}

(* Mutant: an unbounded queue. *)
OfferUnbounded(q, x) == Append(q, x)

(* _offer: never blocks, drops the oldest entry of a full queue. *)
Offer(q, x) == Append(IF Len(q) = QueueMax THEN Tail(q) ELSE q, x)

(* Mutant: the sentinel is sent after a loop that ended well only. *)
LeaveLoopSilently(s, why) ==
  /\ capEnd' = [capEnd EXCEPT ![s] = why]
  /\ cap' = [cap EXCEPT ![s] = "done"]
  /\ queue' = [queue EXCEPT ![s] = IF why = "died" THEN @ ELSE Offer(@, Done)]
  /\ UNCHANGED heard

(* The loop is over for the reason why: the flushed chunker may hold one last
   utterance to index; otherwise both consumers are closed at once. *)
LeaveLoop(s, why) ==
  /\ capEnd' = [capEnd EXCEPT ![s] = why]
  /\ \/ /\ cap' = [cap EXCEPT ![s] = "done"]
        /\ queue' = [queue EXCEPT ![s] = Offer(@, Done)]
        /\ UNCHANGED heard
     \/ /\ heard[s] < MaxUtts /\ cap[s] = "recording"
        /\ heard' = [heard EXCEPT ![s] = @ + 1]
        /\ cap' = [cap EXCEPT ![s] = "mark"]
        /\ UNCHANGED queue

CaptureOpens(s) ==
  /\ cap[s] = "opening"
  /\ cap' = [cap EXCEPT ![s] = "recording"]
  /\ UNCHANGED <<stopped, capEnd, heard>>
  /\ UNCHANGED <<reqVars, feedVars, liveVars, storeVars, diskVars, bootVars>>

(* The frame source ends because stop() was called. *)
CaptureStops(s) ==
  /\ cap[s] = "recording" /\ stopped[s]
  /\ LeaveLoop(s, "clean")
  /\ UNCHANGED <<stopped, feeding, offered>>
  /\ UNCHANGED <<reqVars, liveVars, storeVars, diskVars, bootVars>>

(* The device raises, or a write fails for another reason than ENOSPC. *)
CaptureDies(s) ==
  /\ "device" \in Faults
  /\ Recording(s)
  /\ LeaveLoop(s, "died")
  /\ UNCHANGED <<stopped, feeding, offered>>
  /\ UNCHANGED <<reqVars, liveVars, storeVars, diskVars, bootVars>>

(* A frame write meets a full disk (_store_audio: DiskFullError). *)
CaptureDiskFull(s) ==
  /\ "disk" \in Faults
  /\ cap[s] = "recording"
  /\ LeaveLoop(s, "disk")
  /\ UNCHANGED <<stopped, feeding, offered>>
  /\ UNCHANGED <<reqVars, liveVars, storeVars, diskVars, bootVars>>

CaptureCompletes(s) ==
  /\ cap[s] = "recording" /\ heard[s] < MaxUtts
  /\ heard' = [heard EXCEPT ![s] = @ + 1]
  /\ cap' = [cap EXCEPT ![s] = "mark"]
  /\ UNCHANGED <<stopped, capEnd>>
  /\ UNCHANGED <<reqVars, feedVars, liveVars, storeVars, diskVars, bootVars>>

(* Mutant: the sidecar is written before the entry is appended. *)
WriteIndexLate(s) ==
  /\ index' = [index EXCEPT ![s] = 1 .. (heard[s] - 1)]
  /\ files' = [files EXCEPT ![s] = @ \cup {"index"}]

(* The sidecar is rewritten with every utterance so far. *)
WriteIndex(s) ==
  /\ index' = [index EXCEPT ![s] = 1 .. heard[s]]
  /\ files' = [files EXCEPT ![s] = @ \cup {"index"}]

(* Mutant: only what is dispatched is indexed. *)
CaptureMarksDispatched(s) ==
  LET over == capEnd[s] # "none" IN
  /\ cap[s] = "mark"
  /\ IF feeding[s] THEN WriteIndex(s) ELSE UNCHANGED <<index, files>>
  /\ offered' = [offered EXCEPT ![s] = IF feeding[s] THEN @ \cup {heard[s]} ELSE @]
  /\ queue' = [queue EXCEPT ![s] = IF over THEN Offer(@, Done) ELSE @]
  /\ cap' = [cap EXCEPT ![s] = IF over THEN "done" ELSE "recording"]
  /\ UNCHANGED <<stopped, capEnd, heard, feeding, row, rows>>
  /\ UNCHANGED <<reqVars, liveVars, storeVars, bootVars>>

(* Mutant: the last utterance is dispatched without the sentinel behind it. *)
CaptureMarksUnclosed(s) ==
  /\ cap[s] = "mark"
  /\ WriteIndex(s)
  /\ offered' = [offered EXCEPT ![s] = IF feeding[s] THEN @ \cup {heard[s]} ELSE @]
  /\ queue' = [queue EXCEPT ![s] = IF feeding[s] THEN Offer(@, heard[s]) ELSE @]
  /\ cap' = [cap EXCEPT ![s] = IF capEnd[s] # "none" THEN "done" ELSE "recording"]
  /\ UNCHANGED <<stopped, capEnd, heard, feeding, row, rows>>
  /\ UNCHANGED <<reqVars, liveVars, storeVars, bootVars>>

(* mark_utterance returned; the utterance is dispatched, and if the loop was
   already over both consumers are closed behind it. *)
CaptureMarks(s) ==
  LET offer == IF feeding[s] THEN Offer(queue[s], heard[s]) ELSE queue[s]
      over  == capEnd[s] # "none"
  IN
  /\ cap[s] = "mark"
  /\ WriteIndex(s)
  /\ offered' = [offered EXCEPT ![s] = IF feeding[s] THEN @ \cup {heard[s]} ELSE @]
  /\ queue' = [queue EXCEPT ![s] = IF over THEN Offer(offer, Done) ELSE offer]
  /\ cap' = [cap EXCEPT ![s] = IF over THEN "done" ELSE "recording"]
  /\ UNCHANGED <<stopped, capEnd, heard, feeding, row, rows>>
  /\ UNCHANGED <<reqVars, liveVars, storeVars, bootVars>>

(* The sidecar write meets a full disk: the utterance is not dispatched. *)
CaptureMarkFails(s) ==
  /\ "disk" \in Faults
  /\ cap[s] = "mark"
  /\ LeaveLoop(s, "disk")
  /\ UNCHANGED <<stopped, feeding, offered>>
  /\ UNCHANGED <<reqVars, liveVars, storeVars, diskVars, bootVars>>

-----------------------------------------------------------------------------
(* The live task: the router pulls utterances, a stream publishes turns. *)

Subscribed(s)  == persist[s] \notin {"failed", "done"}
Publish(s, e)  == bus' = [bus EXCEPT ![s] = IF Subscribed(s) THEN Append(@, e) ELSE @]
LiveGoes(s, l) == live' = [live EXCEPT ![s] = l]

(* _dequeue: one utterance to the provider, or the sentinel. *)
RouterPulls(s) ==
  /\ live[s] = "pull" /\ queue[s] # <<>>
  /\ queue' = [queue EXCEPT ![s] = Tail(@)]
  /\ LiveGoes(s, IF Head(queue[s]) = Done THEN "join" ELSE "call")
  /\ calling' = [calling EXCEPT ![s] = Head(queue[s])]
  /\ UNCHANGED <<liveEnd, turn, open, cut, noticed, feeding, offered>>
  /\ UNCHANGED <<reqVars, capVars, storeVars, diskVars, bootVars>>

RouterPublishes(s) ==
  /\ live[s] = "call"
  /\ Publish(s, Event("utt", calling[s]))
  /\ LiveGoes(s, "pull")
  /\ calling' = [calling EXCEPT ![s] = 0]
  /\ UNCHANGED <<liveEnd, turn, open, cut, noticed, persist>>
  /\ UNCHANGED <<reqVars, capVars, feedVars, diskVars, bootVars>>

(* No provider transcribed it; the audio and the index remain. *)
RouterDrops(s) ==
  /\ "provider" \in Faults
  /\ live[s] = "call"
  /\ LiveGoes(s, "pull")
  /\ calling' = [calling EXCEPT ![s] = 0]
  /\ UNCHANGED <<liveEnd, turn, open, cut, noticed>>
  /\ UNCHANGED <<reqVars, capVars, feedVars, storeVars, diskVars, bootVars>>

(* ProvidersExhaustedError: from here on the queue is only emptied. *)
RouterExhausted(s) ==
  /\ "provider" \in Faults
  /\ live[s] = "call"
  /\ LiveGoes(s, "discard")
  /\ calling' = [calling EXCEPT ![s] = 0]
  /\ UNCHANGED <<liveEnd, turn, open, cut, noticed>>
  /\ UNCHANGED <<reqVars, capVars, feedVars, storeVars, diskVars, bootVars>>

LiveDiscards(s) ==
  /\ live[s] = "discard" /\ queue[s] # <<>>
  /\ queue' = [queue EXCEPT ![s] = Tail(@)]
  /\ LiveGoes(s, IF Head(queue[s]) = Done THEN "join" ELSE "discard")
  /\ UNCHANGED <<liveEnd, calling, turn, open, cut, noticed, feeding, offered>>
  /\ UNCHANGED <<reqVars, capVars, storeVars, diskVars, bootVars>>

StreamOpensTurn(s) ==
  /\ live[s] = "stream" /\ ~open[s] /\ turn[s] < MaxTurns
  /\ turn' = [turn EXCEPT ![s] = @ + 1]
  /\ open' = [open EXCEPT ![s] = TRUE]
  /\ Publish(s, Event("interim", turn[s] + 1))
  /\ UNCHANGED <<live, liveEnd, calling, cut, noticed, persist>>
  /\ UNCHANGED <<reqVars, capVars, feedVars, diskVars, bootVars>>

StreamClosesTurn(s) ==
  /\ live[s] = "stream" /\ open[s]
  /\ open' = [open EXCEPT ![s] = FALSE]
  /\ Publish(s, Event("final", turn[s]))
  /\ UNCHANGED <<live, liveEnd, calling, turn, cut, noticed, persist>>
  /\ UNCHANGED <<reqVars, capVars, feedVars, diskVars, bootVars>>

(* A connection ends by settling its open turn; the settle is bounded and may
   fail, which leaves the turn an interim. *)
Settle(s) ==
  /\ open' = [open EXCEPT ![s] = FALSE]
  /\ \/ Publish(s, Event("final", turn[s])) /\ open[s]
     \/ UNCHANGED bus /\ (open[s] => "settle" \in Faults)

(* The capture is over (path.done()). *)
StreamEnds(s) ==
  /\ live[s] = "stream" /\ cap[s] = "done"
  /\ Settle(s)
  /\ LiveGoes(s, "join")
  /\ UNCHANGED <<liveEnd, calling, turn, cut, noticed, persist>>
  /\ UNCHANGED <<reqVars, capVars, feedVars, diskVars, bootVars>>

(* _hand_off: the rest of the session goes through the utterance path. *)
StreamHandsOff(s) ==
  /\ "provider" \in Faults
  /\ live[s] = "stream"
  /\ Settle(s)
  /\ LiveGoes(s, "pull")
  /\ feeding' = [feeding EXCEPT ![s] = TRUE]
  /\ UNCHANGED <<liveEnd, calling, turn, cut, noticed, persist, queue, offered>>
  /\ UNCHANGED <<reqVars, capVars, diskVars, bootVars>>

(* _stt_exhausted: keep recording, wait for the sentinel only. *)
StreamExhausted(s) ==
  /\ "provider" \in Faults
  /\ live[s] = "stream"
  /\ Settle(s)
  /\ LiveGoes(s, "discard")
  /\ UNCHANGED <<liveEnd, calling, turn, cut, noticed, persist>>
  /\ UNCHANGED <<reqVars, capVars, feedVars, diskVars, bootVars>>

(* Mutant: the cancellation of a drain timeout hides how the capture ended. *)
LiveJoinsCutFirst(s) ==
  /\ live[s] = "join" /\ cap[s] = "done"
  /\ LiveGoes(s, "done")
  /\ liveEnd' = [liveEnd EXCEPT ![s] =
       IF cut[s] THEN "cut"
       ELSE IF capEnd[s] \in {"died", "disk"} THEN capEnd[s] ELSE "clean"]
  /\ UNCHANGED <<calling, turn, open, cut, noticed>>
  /\ UNCHANGED <<reqVars, capVars, feedVars, storeVars, diskVars, bootVars>>

(* finally: await capture_task.  Its exception is the live task's, and wins
   over the cancellation of a drain timeout. *)
LiveJoins(s) ==
  /\ live[s] = "join" /\ cap[s] = "done"
  /\ LiveGoes(s, "done")
  /\ liveEnd' = [liveEnd EXCEPT ![s] =
       IF capEnd[s] \in {"died", "disk"} THEN capEnd[s]
       ELSE IF cut[s] THEN "cut" ELSE "clean"]
  /\ UNCHANGED <<calling, turn, open, cut, noticed>>
  /\ UNCHANGED <<reqVars, capVars, feedVars, storeVars, diskVars, bootVars>>

(* Mutant: a full disk is not taken for an ending. *)
LiveFinishedIgnoringDisk(s) ==
  /\ live[s] = "done" /\ ~noticed[s]
  /\ noticed' = [noticed EXCEPT ![s] = TRUE]
  /\ IF liveEnd[s] = "died" /\ slot = s THEN Goto(s, "spawned") ELSE UNCHANGED at
  /\ UNCHANGED <<live, liveEnd, calling, turn, open, cut>>
  /\ UNCHANGED <<lockq, target, slot, liveView, born>>
  /\ UNCHANGED <<capVars, feedVars, storeVars, diskVars, bootVars>>

(* _live_finished, the done callback: a live task that raised while it is
   still the slot's ends its session through a task of its own. *)
LiveFinished(s) ==
  /\ live[s] = "done" /\ ~noticed[s]
  /\ noticed' = [noticed EXCEPT ![s] = TRUE]
  /\ IF liveEnd[s] \in {"died", "disk"} /\ slot = s
     THEN Goto(s, "spawned") ELSE UNCHANGED at
  /\ UNCHANGED <<live, liveEnd, calling, turn, open, cut>>
  /\ UNCHANGED <<lockq, target, slot, liveView, born>>
  /\ UNCHANGED <<capVars, feedVars, storeVars, diskVars, bootVars>>

-----------------------------------------------------------------------------
(* The persist task. *)

Upsert(set, e) == IF e.kind = "utt" THEN set \cup {e}
                  ELSE {r \in set : r.kind = "utt" \/ r.n # e.n} \cup {e}

(* Mutant: a database that does not enforce the foreign key. *)
PersistAddsOrphans(s) ==
  /\ persist[s] = "pull" /\ bus[s] # <<>> /\ Head(bus[s]) # Close
  /\ rows' = [rows EXCEPT ![s] = Upsert(@, Head(bus[s]))]
  /\ bus' = [bus EXCEPT ![s] = Tail(@)]
  /\ persist' = [persist EXCEPT ![s] = "publish"]
  /\ UNCHANGED <<row, files, index>>
  /\ UNCHANGED <<reqVars, capVars, feedVars, liveVars, bootVars>>

(* add() stores the event; publishing it to the application bus follows. *)
PersistAdds(s) ==
  /\ persist[s] = "pull" /\ bus[s] # <<>> /\ Head(bus[s]) # Close
  /\ row[s] # "deleted"
  /\ rows' = [rows EXCEPT ![s] = Upsert(@, Head(bus[s]))]
  /\ bus' = [bus EXCEPT ![s] = Tail(@)]
  /\ persist' = [persist EXCEPT ![s] = "publish"]
  /\ UNCHANGED <<row, files, index>>
  /\ UNCHANGED <<reqVars, capVars, feedVars, liveVars, bootVars>>

PersistPublishes(s) ==
  /\ persist[s] = "publish"
  /\ persist' = [persist EXCEPT ![s] = "pull"]
  /\ UNCHANGED bus
  /\ UNCHANGED <<reqVars, capVars, feedVars, liveVars, diskVars, bootVars>>

(* add() raises - the session row is gone (foreign key), or the database
   refuses - and the task is over for the rest of the session. *)
PersistFails(s) ==
  /\ persist[s] = "pull" /\ bus[s] # <<>> /\ Head(bus[s]) # Close
  /\ row[s] = "deleted" \/ "persist" \in Faults
  /\ persist' = [persist EXCEPT ![s] = "failed"]
  /\ bus' = [bus EXCEPT ![s] = <<>>]
  /\ UNCHANGED <<reqVars, capVars, feedVars, liveVars, diskVars, bootVars>>

PersistEnds(s) ==
  /\ persist[s] = "pull" /\ bus[s] # <<>> /\ Head(bus[s]) = Close
  /\ persist' = [persist EXCEPT ![s] = "done"]
  /\ bus' = [bus EXCEPT ![s] = Tail(@)]
  /\ UNCHANGED <<reqVars, capVars, feedVars, liveVars, diskVars, bootVars>>

-----------------------------------------------------------------------------
(* Ending a session: stop() and _end_unattended() under the lock. *)

(* Mutant: the live view goes with the slot. *)
TakeView(p, s) ==
  /\ Holds(p) /\ slot = s
  /\ slot' = None /\ liveView' = None
  /\ target' = [target EXCEPT ![p] = s]
  /\ stopped' = [stopped EXCEPT ![s] = TRUE]
  /\ Goto(p, "drain")
  /\ UNCHANGED <<lockq, born, cap, capEnd, heard>>
  /\ UNCHANGED <<feedVars, liveVars, storeVars, diskVars, bootVars>>

(* The slot is emptied, which makes the teardown p's alone; source.stop(). *)
Take(p, s) ==
  /\ Holds(p) /\ slot = s
  /\ slot' = None
  /\ target' = [target EXCEPT ![p] = s]
  /\ stopped' = [stopped EXCEPT ![s] = TRUE]
  /\ Goto(p, "drain")
  /\ UNCHANGED <<lockq, liveView, born, cap, capEnd, heard>>
  /\ UNCHANGED <<feedVars, liveVars, storeVars, diskVars, bootVars>>

StopTakes(c) == at[c] = "wait.stop" /\ slot # None /\ Take(c, slot)

StopIdle(c) ==
  /\ at[c] = "wait.stop" /\ Holds(c) /\ slot = None
  /\ Release(c)
  /\ UNCHANGED <<target, slot, liveView, born>>
  /\ UNCHANGED <<capVars, feedVars, liveVars, storeVars, diskVars, bootVars>>

EndQueues(s) ==
  /\ at[s] = "spawned"
  /\ lockq' = Append(lockq, s) /\ Goto(s, "wait.end")
  /\ UNCHANGED <<target, slot, liveView, born>>
  /\ UNCHANGED <<capVars, feedVars, liveVars, storeVars, diskVars, bootVars>>

(* Mutant: _end_unattended does not ask whose runtime is in the slot. *)
EndTakesAny(s) ==
  /\ at[s] = "wait.end" /\ Holds(s) /\ slot # None
  /\ slot' = None
  /\ target' = [target EXCEPT ![s] = s]
  /\ Goto(s, "drain")
  /\ UNCHANGED <<lockq, liveView, born>>
  /\ UNCHANGED <<capVars, feedVars, liveVars, storeVars, diskVars, bootVars>>

EndTakes(s) == at[s] = "wait.end" /\ Take(s, s)

(* stop() got there first. *)
EndStale(s) ==
  /\ at[s] = "wait.end" /\ Holds(s) /\ slot # s
  /\ Release(s)
  /\ UNCHANGED <<target, slot, liveView, born>>
  /\ UNCHANGED <<capVars, feedVars, liveVars, storeVars, diskVars, bootVars>>

(* wait_for gives up: the live task is cancelled where it stands, and a live
   task awaiting its capture passes the cancellation on. *)
DrainTimeout(p) ==
  LET s == target[p] IN
  /\ "drain" \in Faults
  /\ at[p] = "drain" /\ live[s] # "done" /\ ~cut[s]
  /\ cut' = [cut EXCEPT ![s] = TRUE]
  /\ IF live[s] = "join"
     THEN /\ cap[s] # "done"
          /\ cap[s] = "mark" => \/ WriteIndex(s)
                                \/ UNCHANGED <<index, files>>
          /\ cap[s] # "mark" => UNCHANGED <<index, files>>
          /\ LeaveLoop(s, "cut")
          /\ UNCHANGED <<live, open, bus, calling>>
     ELSE /\ LiveGoes(s, "join")
          /\ calling' = [calling EXCEPT ![s] = 0]
          /\ Settle(s)
          /\ UNCHANGED <<cap, capEnd, heard, queue, index, files>>
  /\ UNCHANGED <<liveEnd, turn, noticed, persist, row, rows, stopped>>
  /\ UNCHANGED <<reqVars, feeding, offered, bootVars>>

(* The live task is over; the session bus is closed behind its last event. *)
Drained(p) ==
  LET s == target[p] IN
  /\ at[p] = "drain" /\ live[s] = "done"
  /\ Publish(s, Close)
  /\ Goto(p, "persist")
  /\ UNCHANGED <<lockq, target, slot, liveView, born, persist>>
  /\ UNCHANGED <<capVars, feedVars, liveVars, diskVars, bootVars>>

(* Mutant: the persist task is not awaited. *)
PersistNotAwaited(p) ==
  /\ at[p] = "persist"
  /\ Goto(p, "interims")
  /\ UNCHANGED <<lockq, target, slot, liveView, born>>
  /\ UNCHANGED <<capVars, feedVars, liveVars, storeVars, diskVars, bootVars>>

(* Mutant: the persist task's exception ends the teardown. *)
PersistAwaitedRaising(p) ==
  /\ at[p] = "persist" /\ persist[target[p]] \in {"done", "failed"}
  /\ IF persist[target[p]] = "done"
     THEN Goto(p, "interims") /\ UNCHANGED lockq ELSE Release(p)
  /\ UNCHANGED <<target, slot, liveView, born>>
  /\ UNCHANGED <<capVars, feedVars, liveVars, storeVars, diskVars, bootVars>>

PersistAwaited(p) ==
  /\ at[p] = "persist" /\ persist[target[p]] \in {"done", "failed"}
  /\ Goto(p, "interims")
  /\ UNCHANGED <<lockq, target, slot, liveView, born>>
  /\ UNCHANGED <<capVars, feedVars, liveVars, storeVars, diskVars, bootVars>>

Settled(set) == {r \in set : r.kind # "interim"}

(* The remaining steps are best-effort (_keep_finalizing): each may fail, and
   the next one runs either way. *)
InterimsDeleted(p) ==
  /\ at[p] = "interims"
  /\ \/ rows' = [rows EXCEPT ![target[p]] = Settled(@)]
     \/ "interims" \in Faults /\ UNCHANGED rows
  /\ Goto(p, "close")
  /\ UNCHANGED <<lockq, target, slot, liveView, born, row, files, index>>
  /\ UNCHANGED <<capVars, feedVars, liveVars, storeVars, bootVars>>

WriterCloses(p) ==
  /\ at[p] = "close"
  /\ \/ WriteIndex(target[p])
     \/ "disk" \in Faults /\ UNCHANGED <<index, files>>
  /\ Goto(p, "finish")
  /\ UNCHANGED <<lockq, target, slot, liveView, born, row, rows>>
  /\ UNCHANGED <<capVars, feedVars, liveVars, storeVars, bootVars>>

(* A drain timeout and a full disk both finalize as completed. *)
FinalStatus(s) == IF liveEnd[s] = "died" THEN "error" ELSE "completed"

RowFinishes(p) ==
  LET s == target[p] IN
  /\ at[p] = "finish"
  /\ \/ row' = [row EXCEPT ![s] = IF @ = "deleted" THEN @ ELSE FinalStatus(s)]
     \/ "finish" \in Faults /\ UNCHANGED row
  /\ Goto(p, "return")
  /\ UNCHANGED <<lockq, target, slot, liveView, born, rows, files, index>>
  /\ UNCHANGED <<capVars, feedVars, liveVars, storeVars, bootVars>>

(* Out of _tearing_down and out of the lock. *)
Returns(p) ==
  /\ at[p] = "return"
  /\ liveView' = IF liveView = target[p] THEN None ELSE liveView
  /\ target' = [target EXCEPT ![p] = None]
  /\ Release(p)
  /\ UNCHANGED <<slot, born>>
  /\ UNCHANGED <<capVars, feedVars, liveVars, storeVars, diskVars, bootVars>>

-----------------------------------------------------------------------------
(* POST /sessions/delete: no lock, the running session skipped.  A start that
   inserted its row launches before anyone who read that row can name it. *)

RequestDelete(c, s) ==
  /\ up = "serving" /\ "delete" \in Requests
  /\ at[c] = "idle" /\ row[s] \in Ended \cup {"capturing"}
  /\ \A p \in Clients : at[p] = "launch" => target[p] # s
  /\ slot # s                     \* current_session_id()
  /\ rows' = [rows EXCEPT ![s] = {}]
  /\ target' = [target EXCEPT ![c] = s]
  /\ Goto(c, "unlink")
  /\ UNCHANGED <<lockq, slot, liveView, born, row, files, index>>
  /\ UNCHANGED <<capVars, feedVars, liveVars, storeVars, bootVars>>

DeleteFiles(c) ==
  /\ at[c] = "unlink"
  /\ files' = [files EXCEPT ![target[c]] = {}]
  /\ index' = [index EXCEPT ![target[c]] = {}]
  /\ Goto(c, "unrow")
  /\ UNCHANGED <<lockq, target, slot, liveView, born, row, rows>>
  /\ UNCHANGED <<capVars, feedVars, liveVars, storeVars, bootVars>>

DeleteRow(c) ==
  /\ at[c] = "unrow"
  /\ row' = [row EXCEPT ![target[c]] = "deleted"]
  /\ rows' = [rows EXCEPT ![target[c]] = {}]        \* ON DELETE CASCADE
  /\ target' = [target EXCEPT ![c] = None]
  /\ Goto(c, "idle")
  /\ UNCHANGED <<lockq, slot, liveView, born, files, index>>
  /\ UNCHANGED <<capVars, feedVars, liveVars, storeVars, bootVars>>

-----------------------------------------------------------------------------
(* Process death, and the sweep of the next start. *)

Crash ==
  /\ "crash" \in Faults /\ up # "down" /\ crashes < MaxCrashes
  /\ crashes' = crashes + 1 /\ up' = "down" /\ sweep' = {}
  /\ lockq' = <<>> /\ slot' = None /\ liveView' = None
  /\ at' = [p \in Proc |-> "idle"] /\ target' = [p \in Proc |-> None]
  /\ stopped' = [s \in Sid |-> FALSE]
  /\ cap' = [s \in Sid |-> "none"] /\ capEnd' = [s \in Sid |-> "none"]
  /\ queue' = [s \in Sid |-> <<>>] /\ feeding' = [s \in Sid |-> FALSE]
  /\ live' = [s \in Sid |-> "none"] /\ liveEnd' = [s \in Sid |-> "none"]
  /\ calling' = [s \in Sid |-> 0] /\ open' = [s \in Sid |-> FALSE]
  /\ cut' = [s \in Sid |-> FALSE] /\ noticed' = [s \in Sid |-> FALSE]
  /\ bus' = [s \in Sid |-> <<>>] /\ persist' = [s \in Sid |-> "none"]
  /\ UNCHANGED <<born, heard, offered, turn, diskVars>>

(* Mutant: only the rows are marked. *)
BootMarksRows ==
  /\ up = "down"
  /\ up' = "sweeping" /\ sweep' = {}
  /\ row' = [s \in Sid |-> IF row[s] = "capturing" THEN "error" ELSE row[s]]
  /\ UNCHANGED <<crashes, rows, files, index>>
  /\ UNCHANGED <<reqVars, capVars, feedVars, liveVars, storeVars>>

(* mark_interrupted: the rows first, in one committed update ... *)
BootMarks ==
  /\ up = "down"
  /\ up' = "sweeping"
  /\ sweep' = {s \in Sid : row[s] = "capturing"}
  /\ row' = [s \in Sid |-> IF row[s] = "capturing" THEN "error" ELSE row[s]]
  /\ UNCHANGED <<crashes, rows, files, index>>
  /\ UNCHANGED <<reqVars, capVars, feedVars, liveVars, storeVars>>

(* ... then each interrupted session's interims. *)
BootSweeps(s) ==
  /\ up = "sweeping" /\ s \in sweep
  /\ sweep' = sweep \ {s}
  /\ rows' = [rows EXCEPT ![s] = Settled(@)]
  /\ UNCHANGED <<up, crashes, row, files, index>>
  /\ UNCHANGED <<reqVars, capVars, feedVars, liveVars, storeVars>>

BootServes ==
  /\ up = "sweeping" /\ sweep = {}
  /\ up' = "serving"
  /\ UNCHANGED <<sweep, crashes>>
  /\ UNCHANGED <<reqVars, capVars, feedVars, liveVars, storeVars, diskVars>>

-----------------------------------------------------------------------------
Starting(c) ==
  \/ StartRefused(c) \/ StartPreflight(c) \/ StartFails(c) \/ StartNamed(c)
  \/ StartCreates(c) \/ StartCreateFails(c)
  \/ \E shape \in Shapes : StartLaunches(c, shape)

Ending(p) ==
  \/ Drained(p) \/ PersistAwaited(p) \/ InterimsDeleted(p)
  \/ WriterCloses(p) \/ RowFinishes(p) \/ Returns(p)

Deleting(c) == DeleteFiles(c) \/ DeleteRow(c)

Capturing(s) ==
  \/ CaptureOpens(s) \/ CaptureStops(s) \/ CaptureMarks(s)

CaptureBreaks(s) == CaptureDies(s) \/ CaptureDiskFull(s) \/ CaptureMarkFails(s)

Living(s) ==
  \/ RouterPulls(s) \/ RouterPublishes(s) \/ LiveDiscards(s)
  \/ StreamEnds(s) \/ LiveJoins(s) \/ LiveFinished(s)

LiveBreaks(s) ==
  \/ RouterDrops(s) \/ RouterExhausted(s)
  \/ StreamHandsOff(s) \/ StreamExhausted(s)

Streaming(s) == StreamOpensTurn(s) \/ StreamClosesTurn(s)

Persisting(s) ==
  \/ PersistAdds(s) \/ PersistPublishes(s) \/ PersistFails(s) \/ PersistEnds(s)

Unattended(s) == EndQueues(s) \/ EndTakes(s) \/ EndStale(s)

Next ==
  \/ \E c \in Clients :
       \/ RequestStart(c) \/ RequestStop(c) \/ \E s \in Sid : RequestDelete(c, s)
       \/ Starting(c) \/ StopTakes(c) \/ StopIdle(c) \/ Deleting(c)
  \/ \E p \in Proc : Ending(p) \/ DrainTimeout(p)
  \/ \E s \in Sid :
       \/ Capturing(s) \/ CaptureCompletes(s) \/ CaptureBreaks(s)
       \/ Living(s) \/ LiveBreaks(s) \/ Streaming(s)
       \/ Persisting(s) \/ Unattended(s) \/ BootSweeps(s)
  \/ Crash \/ BootMarks \/ BootServes

Spec == Init /\ [][Next]_vars

(* The event loop runs every ready task; a provider call is bounded by the
   router's timeout, and a frame source polls its stop flag.  Nothing makes
   anyone speak, fail, press a button or crash. *)
Fairness ==
  /\ \A c \in Clients : /\ WF_vars(Starting(c)) /\ WF_vars(StopTakes(c))
                        /\ WF_vars(StopIdle(c)) /\ WF_vars(Deleting(c))
  /\ \A p \in Proc : WF_vars(Ending(p))
  /\ \A s \in Sid : /\ WF_vars(Capturing(s)) /\ WF_vars(Living(s))
                    /\ WF_vars(Persisting(s)) /\ WF_vars(Unattended(s))
                    /\ WF_vars(BootSweeps(s))
  /\ WF_vars(BootMarks) /\ WF_vars(BootServes)

FairSpec == Spec /\ Fairness
=============================================================================
