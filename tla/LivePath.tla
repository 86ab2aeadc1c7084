------------------------------ MODULE LivePath ------------------------------
(***************************************************************************)
(* _run_stream and _hand_off (session/manager.py): a streaming session's   *)
(* live task.  The capture task feeds the stream and, once the session has *)
(* been handed over, the utterance queue a router drains.                  *)
(***************************************************************************)
EXTENDS StreamPath, SttRouter

CONSTANT QueueMax        \* _UTTERANCE_QUEUE_MAX

ASSUME LiveAssumption ==
  /\ {Primary, Fallback} \subseteq Providers
  /\ QueueMax \in Nat \ {0} /\ MaxFrames <= MaxUtts

Done == 0                \* _CAPTURE_DONE among the utterances

VARIABLE offered         \* the utterance queue

vars == <<streamVars, routerVars, offered>>

Init == StreamInit /\ RouterInit /\ offered = <<>>

Offer(x) == offered' = Append(IF Len(offered) = QueueMax THEN Tail(offered) ELSE offered, x)

-----------------------------------------------------------------------------
(* _capture_utterances: a frame, and perhaps the utterance it completes, which
   goes into the queue once a router drains it; _close_capture. *)
FrameCaptured ==
  /\ Captures
  /\ \/ UNCHANGED offered
     \/ step # "unbuilt" /\ Offer(now')
  /\ UNCHANGED routerVars

CaptureEnds ==
  /\ CaptureDone /\ Offer(Done)
  /\ UNCHANGED routerVars

-----------------------------------------------------------------------------
PathWorks == StreamWorks /\ UNCHANGED <<routerVars, offered>>
PathReads == (Reading \/ VendorCloses) /\ UNCHANGED <<routerVars, offered>>
PathCut   == Cancelled /\ UNCHANGED <<routerVars, offered>>

(* _hand_off, and the alert it awaits before the router's first utterance. *)
HandsOff ==
  /\ pc = "over" /\ end = "handoff"
  /\ RouterBuilt(Handoff)
  /\ UNCHANGED <<streamVars, offered>>

Pulls ==
  /\ offered # <<>> /\ offered' = Tail(offered)
  /\ IF Head(offered) = Done THEN RouterEnds ELSE RouterPulls(Head(offered))
  /\ UNCHANGED streamVars

(* _stt_exhausted: whatever comes is discarded, until the capture ends. *)
Discarding == step = "exhausted" \/ (step = "unbuilt" /\ pc = "over" /\ end = "exhausted")

Discards ==
  /\ Discarding /\ offered # <<>> /\ offered' = Tail(offered)
  /\ IF Head(offered) = Done THEN step' = "over" ELSE UNCHANGED step
  /\ UNCHANGED <<streamVars, pair, utt, asking, asked, retiredAt, streak, degraded,
                 dropped, alerts, recoveries, written>>

RouterStep == RouterWorks /\ UNCHANGED <<streamVars, offered>>

(* The stop's drain ran out, once the path is over: whatever the live task
   awaits, it is gone. *)
RouterCut ==
  /\ "drain" \in StreamFaults
  /\ step \in {"pull", "ask", "alert", "publish"} \/ Discarding
  /\ RouterCancelled
  /\ UNCHANGED <<streamVars, offered>>

LiveOver == pc = "over" /\ (step = "over" \/ end \notin {"handoff", "exhausted"})

Ended ==
  /\ LiveOver /\ stopped
  /\ UNCHANGED vars

LiveTask == PathWorks \/ HandsOff \/ Pulls \/ Discards \/ RouterStep

Next ==
  \/ FrameCaptured \/ CaptureEnds
  \/ LiveTask \/ PathReads \/ PathCut \/ RouterCut \/ Ended

Spec == Init /\ [][Next]_vars

(* The live task goes on when it can: sockets, requests and alerts come back.
   Frames, the microphone's end, what a vendor says and the stop's drain
   promise nothing. *)
FairSpec == Spec /\ WF_vars(LiveTask)
=============================================================================
