------------------------------- MODULE Diarizer -------------------------------
(***************************************************************************)
(* The diarization service (services/diarization/app.py) as processes: its *)
(* request threads, the one slot, the readiness both routes consult, and   *)
(* the child that holds the models at the other end of one pipe.           *)
(* MaxCalls bounds the requests, MaxDeaths the children lost.              *)
(***************************************************************************)
EXTENDS Integers, Sequences, FiniteSets, SequencesExt

CONSTANTS MaxCalls, MaxDeaths

VARIABLES
  calls,   \* per request: kind, where its thread is, what it was answered with
  child,   \* the child: which one, alive, models loaded, its two ends of the pipe
  readiness,\* ready, and a failure still remembered
  locks,   \* who holds the pipe, the slot, and Readiness._lock
  bank,    \* the session's bank as the clips folded into it, in order
  world    \* clips inferred in order, children lost, models loadable, closed

diarizerVars == <<calls, child, readiness, locks, bank, world>>

Calls == 1..MaxCalls
Nobody == 0
NoChild == [n |-> 0, alive |-> FALSE, loaded |-> FALSE, inbox |-> <<>>, outbox |-> <<>>]

DiarizerInit ==
  /\ calls = [c \in Calls |-> [kind |-> "none", pc |-> "idle", got |-> Nobody, said |-> 0]]
  /\ child = NoChild
  /\ readiness = [ready |-> FALSE, failed |-> FALSE]
  /\ locks = [pipe |-> Nobody, slot |-> Nobody, confirm |-> Nobody]
  /\ bank = <<>>
  /\ world = [order |-> <<>>, deaths |-> 0, loads |-> FALSE, closed |-> FALSE]

At(c, pc) == calls[c].pc = pc
Goes(c, pc) == calls' = [calls EXCEPT ![c].pc = pc]
Replies(c, status) == calls' = [calls EXCEPT ![c].pc = "done", ![c].said = status]

(* A request arrives: GET /healthz or POST /diarize. *)
Arrives(c) ==
  /\ At(c, "idle") /\ \A d \in Calls : d < c => ~At(d, "idle")
  /\ \E kind \in {"probe", "clip"} :
       calls' = [calls EXCEPT ![c].kind = kind, ![c].pc = "confirm"]
  /\ UNCHANGED <<child, readiness, locks, bank, world>>

Confirmed(c) ==
  IF calls[c].kind = "probe" THEN Replies(c, 200) ELSE Goes(c, "queued")

(* Readiness.confirm: a remembered yes is answered from memory, *)
KnownReady(c) ==
  /\ At(c, "confirm") /\ readiness.ready
  /\ Confirmed(c)
  /\ UNCHANGED <<child, readiness, locks, bank, world>>

(* and otherwise one thread at a time looks again, under the lock. *)
SeesUnready(c) ==
  /\ At(c, "confirm") /\ ~readiness.ready
  /\ Goes(c, "unready")
  /\ UNCHANGED <<child, readiness, locks, bank, world>>

TakesConfirm(c) ==
  /\ At(c, "unready") /\ locks.confirm = Nobody
  /\ locks' = [locks EXCEPT !.confirm = c]
  /\ Goes(c, "locked")
  /\ UNCHANGED <<child, readiness, bank, world>>

Recheck == readiness.ready

LooksAgain(c) ==
  /\ At(c, "locked")
  /\ IF Recheck
     THEN Confirmed(c) /\ locks' = [locks EXCEPT !.confirm = Nobody]
     ELSE IF readiness.failed
     THEN Replies(c, 503) /\ locks' = [locks EXCEPT !.confirm = Nobody]
     ELSE Goes(c, "ask") /\ UNCHANGED locks
  /\ UNCHANGED <<child, readiness, bank, world>>

(* WorkerProcess._call: the pipe is held from before the send to after the
   receive; a check waits for it _READY_WAIT_S, a clip as long as it takes. *)
PipeFree == locks.pipe = Nobody

(* _living_child starts one in place of a dead one, and says nothing of it. *)
Living == IF child.alive THEN child
          ELSE [NoChild EXCEPT !.n = child.n + 1, !.alive = TRUE]

Sends(c) ==
  /\ At(c, "ask") \/ At(c, "run")
  /\ PipeFree /\ ~world.closed
  /\ locks' = [locks EXCEPT !.pipe = c]
  /\ child' = [Living EXCEPT !.inbox = Append(@, c)]
  /\ Goes(c, IF At(c, "ask") THEN "asked" ELSE "ran")
  /\ UNCHANGED <<readiness, bank, world>>

(* No pipe in time, or a service shutting down: WorkerUnavailableError. *)
Unheard(c) ==
  /\ \/ At(c, "ask") /\ (locks.pipe # Nobody \/ world.closed)
     \/ At(c, "run") /\ locks.pipe = Nobody /\ world.closed
  /\ locks' = [locks EXCEPT !.confirm = IF @ = c THEN Nobody ELSE @]
  /\ Goes(c, "forget")
  /\ UNCHANGED <<child, readiness, bank, world>>

(* The child answers one request at a time; either kind loads the models. *)
Answers ==
  /\ child.alive /\ child.inbox # <<>>
  /\ LET c == Head(child.inbox) IN
     \E how \in {"ok", "unloadable", "raised"} :
       /\ how = "unloadable" <=> ~(child.loaded \/ world.loads)
       /\ how = "raised" => At(c, "ran")
       /\ child' = [child EXCEPT !.inbox = Tail(@), !.loaded = @ \/ world.loads,
                                 !.outbox = Append(@, [of |-> c, how |-> how])]
       /\ world' = [world EXCEPT !.order = IF how = "ok" /\ At(c, "ran") THEN Append(@, c) ELSE @]
  /\ UNCHANGED <<calls, readiness, locks, bank>>

(* The answer of a check is the readiness both routes share. *)
HearsCheck(c) ==
  /\ At(c, "asked") /\ child.outbox # <<>>
  /\ LET answer == Head(child.outbox)
         ok == answer.how = "ok" IN
     /\ readiness' = [ready |-> ok, failed |-> ~ok]
     /\ calls' = [calls EXCEPT
          ![c].got = answer.of,
          ![c].pc = IF ok /\ calls[c].kind = "clip" THEN "queued" ELSE "done",
          ![c].said = CASE ~ok -> 503 [] ok /\ calls[c].kind = "probe" -> 200 [] OTHER -> 0]
  /\ child' = [child EXCEPT !.outbox = Tail(@)]
  /\ locks' = [locks EXCEPT !.pipe = Nobody, !.confirm = Nobody]
  /\ UNCHANGED <<bank, world>>

(* DiarizeSlot.hold: the slot, or 429 having waited for it. *)
TakesSlot(c) ==
  /\ At(c, "queued") /\ locks.slot = Nobody
  /\ locks' = [locks EXCEPT !.slot = c]
  /\ Goes(c, "run")
  /\ UNCHANGED <<child, readiness, bank, world>>

Refused(c) ==
  /\ At(c, "queued") /\ locks.slot # Nobody
  /\ Replies(c, 429)
  /\ UNCHANGED <<child, readiness, locks, bank, world>>

(* The outcome of a clip: its labels are worked out inside the slot; a
   pipeline that did not load is a 503, an inference that raised a 500. *)
SlotAfterAnswer(c) == c

HearsClip(c) ==
  /\ At(c, "ran") /\ child.outbox # <<>>
  /\ LET answer == Head(child.outbox) IN
     calls' = [calls EXCEPT
       ![c].got = answer.of,
       ![c].pc = IF answer.how = "ok" THEN "label" ELSE "leave",
       ![c].said = CASE answer.how = "ok" -> 200 [] answer.how = "raised" -> 500 [] OTHER -> 503]
  /\ child' = [child EXCEPT !.outbox = Tail(@)]
  /\ locks' = [locks EXCEPT !.pipe = Nobody, !.slot = SlotAfterAnswer(c)]
  /\ UNCHANGED <<readiness, bank, world>>

LabelsClip(c) ==
  /\ At(c, "label")
  /\ bank' = Append(bank, c)
  /\ Goes(c, "leave")
  /\ UNCHANGED <<child, readiness, locks, world>>

LeavesSlot(c) ==
  /\ At(c, "leave")
  /\ locks' = [locks EXCEPT !.slot = IF @ = c THEN Nobody ELSE @]
  /\ Goes(c, "done")
  /\ UNCHANGED <<child, readiness, bank, world>>

(* EOF on the pipe of a child that is gone: discarded, and the caller told. *)
HearsNothing(c) ==
  /\ At(c, "asked") \/ At(c, "ran")
  /\ ~child.alive /\ child.outbox = <<>>
  /\ child' = [NoChild EXCEPT !.n = child.n]
  /\ locks' = [locks EXCEPT !.pipe = Nobody, !.confirm = IF @ = c THEN Nobody ELSE @]
  /\ Goes(c, "forget")
  /\ UNCHANGED <<readiness, bank, world>>

(* Readiness.forget, under its lock, then the 503; a clip leaves its slot. *)
Forgets(c) ==
  /\ At(c, "forget") /\ locks.confirm = Nobody
  /\ readiness' = [ready |-> FALSE, failed |-> FALSE]
  /\ locks' = [locks EXCEPT !.slot = IF @ = c THEN Nobody ELSE @]
  /\ Replies(c, 503)
  /\ UNCHANGED <<child, bank, world>>

(* DELETE /sessions/{id}. *)
SessionForgotten ==
  /\ bank # <<>>
  /\ bank' = <<>>
  /\ UNCHANGED <<calls, child, readiness, locks, world>>

(* The child is killed for its memory, inside an inference or idle. *)
ChildDies ==
  /\ child.alive /\ world.deaths < MaxDeaths
  /\ child' = [child EXCEPT !.alive = FALSE, !.inbox = <<>>]
  /\ world' = [world EXCEPT !.deaths = @ + 1]
  /\ UNCHANGED <<calls, readiness, locks, bank>>

(* The volume with the models mounts, late or at once. *)
ModelsMount ==
  /\ ~world.loads
  /\ world' = [world EXCEPT !.loads = TRUE]
  /\ UNCHANGED <<calls, child, readiness, locks, bank>>

(* _LOAD_RETRY_S has passed since a load failed, on either side. *)
RetryWindowPasses ==
  /\ readiness.failed
  /\ readiness' = [readiness EXCEPT !.failed = FALSE]
  /\ UNCHANGED <<calls, child, locks, bank, world>>

(* WorkerProcess.close takes no lock: the child is ended under its caller. *)
Closes ==
  /\ ~world.closed
  /\ world' = [world EXCEPT !.closed = TRUE]
  /\ child' = [child EXCEPT !.alive = FALSE, !.inbox = <<>>, !.outbox = <<>>]
  /\ UNCHANGED <<calls, readiness, locks, bank>>

CallStep(c) ==
  \/ Arrives(c) \/ KnownReady(c) \/ SeesUnready(c) \/ TakesConfirm(c) \/ LooksAgain(c)
  \/ Sends(c) \/ Unheard(c) \/ HearsCheck(c)
  \/ TakesSlot(c) \/ Refused(c) \/ HearsClip(c) \/ LabelsClip(c) \/ LeavesSlot(c)
  \/ HearsNothing(c) \/ Forgets(c)

DiarizerNext ==
  \/ \E c \in Calls : CallStep(c)
  \/ Answers \/ ChildDies \/ ModelsMount \/ RetryWindowPasses \/ Closes \/ SessionForgotten
=============================================================================
