---------------------------- MODULE SessionProps ----------------------------
(***************************************************************************)
(* What the one recorder of the process promises.                          *)
(***************************************************************************)
EXTENDS Session

ReqType ==
  /\ lockq \in Seq(Proc)
  /\ at \in [Proc -> Locked \cup Waiting \cup {"idle", "spawned", "unlink", "unrow"}]
  /\ target \in [Proc -> Sid \cup {None}]
  /\ \A p \in Proc : at[p] \in Teardown => target[p] \in Sid
  /\ slot \in Sid \cup {None} /\ liveView \in Sid \cup {None}
  /\ born \in 0 .. MaxSessions

CapType ==
  /\ stopped \in [Sid -> BOOLEAN]
  /\ cap \in [Sid -> {"none", "opening", "recording", "mark", "done"}]
  /\ capEnd \in [Sid -> {"none", "clean", "died", "disk", "cut"}]
  /\ heard \in [Sid -> 0 .. MaxUtts]

FeedType ==
  /\ queue \in [Sid -> Seq(Utt \cup {Done})]
  /\ \A s \in Sid : Len(queue[s]) <= QueueMax
  /\ feeding \in [Sid -> BOOLEAN]
  /\ offered \in [Sid -> SUBSET Utt]

LiveType ==
  /\ live \in [Sid -> {"none", "pull", "call", "discard", "stream", "join", "done"}]
  /\ liveEnd \in [Sid -> {"none", "clean", "died", "disk", "cut"}]
  /\ calling \in [Sid -> Utt \cup {0}]
  /\ turn \in [Sid -> 0 .. MaxTurns]
  /\ open \in [Sid -> BOOLEAN] /\ cut \in [Sid -> BOOLEAN]
  /\ noticed \in [Sid -> BOOLEAN]

StoreType ==
  /\ bus \in [Sid -> Seq(Events \cup {Close})]
  /\ persist \in [Sid -> {"none", "pull", "publish", "done", "failed"}]

DiskType ==
  /\ row \in [Sid -> {"none", "capturing", "completed", "error", "deleted"}]
  /\ rows \in [Sid -> SUBSET Events]
  /\ files \in [Sid -> SUBSET {"wav", "index"}]
  /\ index \in [Sid -> SUBSET Utt]

BootType ==
  /\ up \in {"serving", "down", "sweeping"}
  /\ sweep \in SUBSET Sid
  /\ crashes \in 0 .. MaxCrashes

(* The variables have their types, and an utterance queue never exceeds its
   bound (_offer drops the oldest instead). *)
TypeOK == ReqType /\ CapType /\ FeedType /\ LiveType /\ StoreType /\ DiskType /\ BootType

-----------------------------------------------------------------------------
(* Who a session belongs to. *)

TearingDown(p, s) == at[p] \in Teardown /\ target[p] = s
Alive(s)   == Recording(s) \/ live[s] \notin {"none", "done"}
Storing(s) == persist[s] \in {"pull", "publish"}

(* One session at a time means until the previous one has finished ending,
   not until it has stopped recording: no two sessions have a capture, a live
   or a persist task at once, and no microphone is pre-flighted while any
   session still has one (SessionManager.stop). *)
OneRecorder ==
  /\ \A s, t \in Sid : (Alive(s) \/ Storing(s)) /\ (Alive(t) \/ Storing(t)) => s = t
  /\ \A c \in Clients : at[c] = "preflight" => \A s \in Sid : ~Alive(s) /\ ~Storing(s)

(* A teardown is owned by exactly one caller: whoever emptied the slot.  A
   Stop, a second Stop and an unattended end never run it twice, and a session
   with a task still alive is always owned by the slot or by such a caller. *)
OneOwner ==
  \A s \in Sid :
    /\ \A p, q \in Proc : TearingDown(p, s) /\ TearingDown(q, s) => p = q
    /\ \A p \in Proc : TearingDown(p, s) => slot # s
    /\ Alive(s) => slot = s \/ \E p \in Proc : TearingDown(p, s)

(* The dashboard's panes follow a session to its last word: whatever the
   persist task puts on the application bus is published while the live view
   is that session's, although the slot was emptied before the drain
   (live_view_session_id, transcript_ws._wanted). *)
LiveViewFollows == \A s \in Sid : persist[s] = "publish" => liveView = s

(* When the row of a session says it ended, nothing of it is still on its
   way: no frame, no queued event, no half-typed row.  The teardown stores
   the last final before it deletes interims, and the boot sweep cleans up
   after a process that died. *)
Interims(s) == {r \in rows[s] : r.kind = "interim"}
EndedIsSettled ==
  up = "serving" =>
    \A s \in Sid : row[s] \in Ended =>
      ~Alive(s) /\ ~Storing(s) /\ bus[s] = <<>> /\ Interims(s) = {}

(* Every utterance that ever reached the transcriber's queue is indexed. *)
OfferedIsIndexed == \A s \in Sid : offered[s] \subseteq index[s]

(* An ended session lost at most the utterance in flight. *)
LosesAtMostTheLast ==
  \A s \in Sid : row[s] \in Ended => 1 .. (heard[s] - 1) \subseteq index[s]

(* Whatever happens to a session - a full queue, a dead provider, a drain cut
   short, a full disk, a killed process - what was offered for transcription
   can be transcribed again, and an ended session lost at most the final
   in-flight utterance of its recording (SessionAudioWriter). *)
RecordingKept == OfferedIsIndexed /\ LosesAtMostTheLast

(* No session says "capturing" without somebody there to end it: a row at
   capturing belongs to the slot, to the start about to launch it, or to a
   teardown under way. *)
NoZombieRow ==
  up = "serving" =>
    \A s \in Sid : row[s] = "capturing" =>
      \/ slot = s
      \/ \E p \in Proc : target[p] = s /\ at[p] \in Teardown \cup {"launch"}

(* How a session ended is how its row says it ended: an error exactly when
   the capture died, although the exception crosses the live task, a possible
   cancellation by the drain timeout and one of two callers, and although a
   full disk is raised the same way. *)
HonestEnding ==
  \A s \in Sid : row[s] \in Ended /\ cap[s] = "done" =>
                   (row[s] = "error" <=> capEnd[s] = "died")

(* A restart heals what the last process left, a teardown whose last write
   failed included: when the application serves again no row says capturing,
   and no session it failed shows a half-typed line (mark_interrupted). *)
BootHeals ==
  [][up = "sweeping" /\ up' = "serving" =>
       \A s \in Sid : row[s] # "capturing"
                       /\ (row[s] = "error" => Interims(s) = {})]_vars

(* A deleted session stays deleted: neither the persist task nor the teardown
   that outlive it can store anything under its row again. *)
DeletedIsFinal ==
  [][\A s \in Sid : row[s] = "deleted" => row'[s] = "deleted" /\ rows'[s] = {}]_vars

(* Stop, and every other request, is answered. *)
RequestsReturn == \A c \in Clients : at[c] # "idle" ~> at[c] = "idle"

(* A capture that ends on its own ends its session, with nobody pressing
   Stop (_live_finished, _end_unattended, _close_capture's sentinel). *)
DeadSessionEnds ==
  \A s \in Sid : capEnd[s] \in {"died", "disk"} ~> row[s] # "capturing"

-----------------------------------------------------------------------------
(* The inductive invariant behind OneRecorder, OneOwner and LiveViewFollows. *)

(* What a running task has in hand. *)
InHand ==
  \A s \in Sid : /\ live[s] = "call" => calling[s] \in Utt
                 /\ open[s] => turn[s] \in Turn
                 /\ cap[s] = "mark" => heard[s] \in Utt

(* Whoever is inside start() or a teardown holds the lock, and has an empty
   slot in front of it. *)
LockedAlone == \A p \in Proc : at[p] \in Locked => Holds(p) /\ slot = None

(* A session with a task alive, or a live view, has an owner: the slot, or the
   teardown that took it out of the slot. *)
Owned(s) == slot = s \/ \E p \in Proc : TearingDown(p, s)
TasksOwned == \A s \in Sid : Alive(s) \/ Storing(s) => Owned(s)
OwnersShow == \A s \in Sid : Owned(s) => liveView = s

(* The live task joins the capture; a teardown joins the live task, then the
   persist task, before it returns. *)
Joined ==
  /\ \A s \in Sid : live[s] = "done" => ~Recording(s)
  /\ \A p \in Proc : at[p] \in Teardown \ {"drain"} => ~Alive(target[p])
  /\ \A p \in Proc : at[p] \in Teardown \ {"drain", "persist"} => ~Storing(target[p])

(* All of it, as one inductive statement about the lock, the slot, the tasks
   and the live view: who may run what, at every step of every request. *)
OwnershipInv ==
  TypeOK /\ InHand /\ LockedAlone /\ TasksOwned /\ OwnersShow /\ Joined

-----------------------------------------------------------------------------
(* The abstract recorder, and the session manager as an implementation. *)

PhaseOf(s) ==
  CASE slot = s -> "recording"
    [] \E p \in Proc : TearingDown(p, s) -> "ending"
    [] born < s \/ \E c \in Clients : target[c] = s /\ at[c] \in {"create", "launch"}
         -> "unborn"
    [] OTHER -> "ended"

R == INSTANCE Recorder WITH Sessions <- Sid, phase <- [s \in Sid |-> PhaseOf(s)]

(* Every behaviour of the session manager is one of the abstract recorder's:
   a session begins only when every other one has finished ending. *)
ImplementsRecorder == R!Spec

(* ... and an ending session finishes ending. *)
EndingFinishes == R!Finishes

(* With the lock held through a whole teardown, nobody waits on a drain, a
   sentinel or a join that never comes: not the teardown, and not the
   requests queued behind it (SessionManager._finish, _close_capture). *)
NobodyWaitsForEver == RequestsReturn /\ EndingFinishes

-----------------------------------------------------------------------------
(* What the documentation says and the code does not do. *)

(* _erase_session's documentation: a deleted session leaves nothing stored
   under its name, once nothing of it is running. *)
DeletedLeavesNothing ==
  \A s \in Sid : row[s] = "deleted" /\ slot # s /\ (\A p \in Proc : target[p] # s)
                   => files[s] = {} /\ rows[s] = {}
=============================================================================
