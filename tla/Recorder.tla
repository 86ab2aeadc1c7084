------------------------------ MODULE Recorder ------------------------------
(***************************************************************************)
(* What "one session at a time" promises to everyone outside the session   *)
(* manager: a session records, is ended, and has finished ending before    *)
(* the next one begins.  Session.tla is shown to implement it.             *)
(***************************************************************************)
CONSTANT Sessions

VARIABLE phase   \* "unborn" -> "recording" -> "ending" -> "ended"

Idle == \A s \in Sessions : phase[s] \in {"unborn", "ended"}

Init == phase = [s \in Sessions |-> "unborn"]

Begin(s) ==
  /\ phase[s] = "unborn" /\ Idle
  /\ phase' = [phase EXCEPT ![s] = "recording"]

(* Someone pressed Stop, or the capture ended itself. *)
End(s) ==
  /\ phase[s] = "recording"
  /\ phase' = [phase EXCEPT ![s] = "ending"]

Finish(s) ==
  /\ phase[s] = "ending"
  /\ phase' = [phase EXCEPT ![s] = "ended"]

(* A start that named a session and then failed: the id is spent. *)
Abandon(s) ==
  /\ phase[s] = "unborn" /\ Idle
  /\ phase' = [phase EXCEPT ![s] = "ended"]

(* The process died: whatever was going on is over. *)
Die ==
  \E spent \in SUBSET {s \in Sessions : phase[s] = "unborn"} :
    phase' = [s \in Sessions |->
                IF s \in spent \/ phase[s] # "unborn" THEN "ended" ELSE "unborn"]

Next == Die \/ \E s \in Sessions : Begin(s) \/ End(s) \/ Finish(s) \/ Abandon(s)

Spec == Init /\ [][Next]_phase

(* An ending session ends. *)
Finishes == \A s \in Sessions : phase[s] = "ending" ~> phase[s] = "ended"
=============================================================================
