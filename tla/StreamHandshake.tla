--------------------------- MODULE StreamHandshake ---------------------------
(***************************************************************************)
(* open_stream and close_stream of the five streaming connectors           *)
(* (stt/backends), and close_socket (_ws.py) behind them.                  *)
(*                                                                         *)
(* The service takes some of what the setup asks and refuses the rest: a   *)
(* parameter a session can go without, one it cannot ("required"), or the  *)
(* model itself.  A connector keeps what it learnt across connections.     *)
(* The caller, TranscriptStream, may be cancelled at any await.            *)
(***************************************************************************)
EXTENDS Integers, FiniteSets

CONSTANTS MaxSockets     \* connects, over all the opens of a connector

VARIABLE hs

Vendors == {"deepgram", "assemblyai", "gemini", "xai", "openai"}

(* _OPTIONAL_PARAMS, sessionResumption, the glossary prompt. *)
Optional == [v \in Vendors |->
  CASE v \in {"deepgram", "assemblyai"} -> {"keyterm", "labels"}
    [] v = "gemini" -> {"resumption"}
    [] v = "openai" -> {"prompt"}
    [] v = "xai"    -> {}]

HandshakeInit ==
  \E v \in Vendors : \E refuses \in SUBSET (Optional[v] \cup {"required", "model"}) :
    hs = [vendor |-> v, refuses |-> refuses, pc |-> "idle", attempt |-> 0, next |-> 1,
          open |-> {}, closing |-> {}, cur |-> 0, stored |-> 0, dropped |-> {},
          outcome |-> "none", luck |-> TRUE, learnt |-> FALSE]

Sends(h) == (Optional[h.vendor] \cup {"required", "model"}) \ h.dropped

Refusals(h) == h.refuses \cap Sends(h)

(* close_socket: a task of its own, that its caller's cancellation leaves. *)
Drops(h, socket) == IF socket = 0 THEN h ELSE [h EXCEPT !.closing = @ \cup {socket}]

OverLeavesSocket(h, outcome) == [h EXCEPT !.pc = "idle", !.cur = 0, !.outcome = outcome]

Over(h, outcome) ==
  [Drops(h, h.cur) EXCEPT !.pc = "idle", !.cur = 0, !.outcome = outcome]

-----------------------------------------------------------------------------
(* A reconnect must not leak the dead socket: open_stream closes it first. *)
OpenStream ==
  /\ hs.pc = "idle" /\ hs.next + 1 <= MaxSockets
  /\ hs' = [Drops(hs, hs.stored) EXCEPT !.pc = "closing", !.stored = 0, !.attempt = 1,
                                        !.outcome = "none", !.luck = TRUE, !.learnt = FALSE]

CloseStream ==
  /\ hs.pc = "idle" /\ hs.stored # 0
  /\ hs' = [Drops(hs, hs.stored) EXCEPT !.stored = 0, !.outcome = "closed"]

(* The close answered, or ran out of its bound. *)
SocketGone ==
  \E s \in hs.closing :
    hs' = [hs EXCEPT !.open = @ \ {s}, !.closing = @ \ {s}]

Closed ==
  /\ hs.pc = "closing" /\ hs.closing = {}
  /\ hs' = [hs EXCEPT !.pc = "connect"]

Accepted(h) == [h EXCEPT !.pc = "idle", !.cur = 0, !.stored = h.cur, !.outcome = "open"]

Raised(h) == [Over(h, "failed") EXCEPT !.luck = FALSE]

(* Refused on the HTTP upgrade, or in a frame on an open socket: dropped for
   good and asked again once, or on the same socket, or on the next open. *)
Refused(h, p) ==
  LET learnt == [h EXCEPT !.dropped = @ \cup {p}, !.learnt = TRUE]
      again  == [Drops(learnt, h.cur) EXCEPT !.cur = 0, !.attempt = 2, !.pc = "closing"]
  IN CASE p = "model" /\ h.vendor # "xai" -> Over(h, "unsupported")
       [] p \in Optional[h.vendor] ->
            CASE h.vendor \in {"deepgram", "assemblyai"} /\ h.attempt = 1 -> again
              [] h.vendor = "gemini" -> Over(learnt, "failed")
              [] h.vendor = "openai" -> learnt
              [] OTHER               -> Over(h, "failed")
       [] OTHER -> Over(h, "failed")

(* Deepgram's query string is its whole configuration: the upgrade answers. *)
Connect ==
  /\ hs.pc = "connect"
  /\ LET up == [hs EXCEPT !.next = @ + 1, !.open = @ \cup {hs.next}, !.cur = hs.next,
                          !.pc = "answer"]
         down == [hs EXCEPT !.next = @ + 1]
     IN \/ hs' = Raised(down)
        \/ /\ hs.vendor = "deepgram"
           /\ \/ Refusals(hs) = {} /\ hs' = Accepted(up)
              \/ \E p \in Refusals(hs) : hs' = Refused(down, p)
        \/ hs.vendor # "deepgram" /\ hs' = up

(* Begin, setupComplete, transcript.created, session.updated; or the refusal
   in its place; or a socket that closes, or says nothing in time. *)
Answer ==
  /\ hs.pc = "answer"
  /\ \/ Refusals(hs) = {} /\ hs' = Accepted(hs)
     \/ \E p \in Refusals(hs) : hs' = Refused(hs, p)
     \/ hs' = Raised(hs)

(* The caller is cancelled while it waits. *)
Cancel ==
  /\ hs.pc # "idle"
  /\ hs' = [Over(hs, "cancelled") EXCEPT !.luck = FALSE]

HandshakeNext ==
  OpenStream \/ CloseStream \/ SocketGone \/ Closed \/ Connect \/ Answer \/ Cancel
=============================================================================
