------------------------------ MODULE ClientMic ------------------------------
(***************************************************************************)
(* The browser as microphone (audio/client_source.py, the capture socket   *)
(* of web/routes/audio.py): sockets that come and go, the one that feeds,  *)
(* and the capture source a session opens on it.  Time passes in frames.   *)
(***************************************************************************)
EXTENDS Integers

CONSTANTS
  Window,      \* _RECONNECT_WINDOW_S, in frames
  PollEvery,   \* _POLL_INTERVAL_S, in frames
  QueueMax,    \* _QUEUE_MAX
  Fresh,       \* _PREFLIGHT_FRESH_S, in frames
  MaxClock     \* frames of the whole behaviour

VARIABLES
  clock,     \* now, in frames
  socks,     \* socket -> where its handler is
  mic,       \* ClientMic: the socket holding the token, and when audio came last
  cap        \* the capture source of the session, and the session's own stage

micVars == <<clock, socks, mic, cap>>

Sockets == {1, 2}

Never == -1

(* born: when it was opened.  lost: since when it has had no socket.  queued,
   taken: frames in its queue, frames the session took.  waited: how long
   frames() has waited on an empty queue.  The rest is history, for what is
   promised of the recording: sent counts the frames its browsers delivered,
   away the time it spent without one, late the returns after the window. *)
NoSource ==
  [at |-> "idle", born |-> 0, lost |-> Never, queued |-> 0, taken |-> 0, waited |-> 0,
   sent |-> 0, away |-> 0, late |-> 0]

MicInit ==
  /\ clock = 0 /\ socks = [s \in Sockets |-> "away"]
  /\ mic = [token |-> 0, last |-> Never] /\ cap = NoSource

Attached == mic.token # 0

(* _live_source: a stopped source is forgotten. *)
Listening == cap.at \in {"starting", "capturing"}

Lower(a, b) == IF a < b THEN a ELSE b

-----------------------------------------------------------------------------
(* The socket: accepted, its hello, then connect. *)

SocketOpens(s) ==
  /\ socks[s] = "away" /\ socks' = [socks EXCEPT ![s] = "hello"]
  /\ UNCHANGED <<clock, mic, cap>>

(* _hello_from refuses it, it never comes, or the browser leaves. *)
HelloRejected(s) ==
  /\ socks[s] = "hello" /\ socks' = [socks EXCEPT ![s] = "away"]
  /\ UNCHANGED <<clock, mic, cap>>

(* _pad_silence: silence stands in for the audio that could not be sent, and
   _offer drops the oldest frame of a full queue. *)
Padded(source, gap) == [source EXCEPT !.queued = Lower(@ + Lower(gap, Window), QueueMax)]

(* Mutant: what comes after the gap is spliced onto what came before. *)
RewiredSpliced(source) ==
  IF source.lost = Never THEN source
  ELSE [source EXCEPT !.lost = Never, !.away = @ + clock - source.lost]

Rewired(source) ==
  LET gap == clock - source.lost
  IN IF source.lost = Never THEN source
     ELSE [Padded(source, gap) EXCEPT
             !.lost = Never, !.away = @ + gap, !.late = IF gap > Window THEN @ + 1 ELSE @]

connect(s) ==
  /\ socks[s] = "hello"
  /\ IF Attached
     THEN socks' = [socks EXCEPT ![s] = "away"] /\ UNCHANGED <<mic, cap>>
     ELSE /\ socks' = [socks EXCEPT ![s] = "feeding"]
          /\ mic' = [mic EXCEPT !.token = s]
          /\ cap' = IF Listening THEN Rewired(cap) ELSE cap
  /\ UNCHANGED clock

disconnect(s) ==
  /\ socks[s] = "feeding" /\ socks' = [socks EXCEPT ![s] = "away"]
  /\ mic' = [mic EXCEPT !.token = 0]
  /\ cap' = IF Listening /\ cap.lost = Never THEN [cap EXCEPT !.lost = clock] ELSE cap
  /\ UNCHANGED clock

-----------------------------------------------------------------------------
(* The session. *)

(* open, and preflight in the same breath: Start awaits nothing between them.
   A start that is refused leaves a source nobody reads, until the next one. *)
Heard == Attached /\ mic.last # Never /\ clock - mic.last <= Fresh

open ==
  /\ cap.at = "idle" /\ Heard
  /\ cap' = [NoSource EXCEPT !.at = "starting", !.born = clock]
  /\ UNCHANGED <<clock, socks, mic>>

(* The rest of Start: it fails, or the capture loop takes the frames up. *)
Starts ==
  /\ cap.at = "starting"
  /\ \E l \in {"idle", "capturing"} : cap' = [cap EXCEPT !.at = l]
  /\ UNCHANGED <<clock, socks, mic>>

frames ==
  /\ cap.at = "capturing" /\ cap.queued > 0
  /\ cap' = [cap EXCEPT !.queued = @ - 1, !.taken = @ + 1, !.waited = 0]
  /\ UNCHANGED <<clock, socks, mic>>

(* The wait timed out: _check_still_there. *)
Polls ==
  /\ cap.at = "capturing" /\ cap.queued = 0 /\ cap.waited = PollEvery
  /\ cap' = IF cap.lost # Never /\ clock - cap.lost >= Window
            THEN [cap EXCEPT !.at = "idle"] ELSE [cap EXCEPT !.waited = 0]
  /\ UNCHANGED <<clock, socks, mic>>

stop ==
  /\ cap.at = "capturing" /\ cap' = [cap EXCEPT !.at = "idle"]
  /\ UNCHANGED <<clock, socks, mic>>

-----------------------------------------------------------------------------
(* A frame's time passes: the attached browser sends its block, or nothing
   comes.  The capture loop is faster than the sound: it has taken what was
   queued, and a wait that timed out is over, before a frame more goes by; and
   Start takes less than the queue has room for. *)

KeepsUp ==
  /\ cap.at = "capturing" => cap.queued = 0 /\ cap.waited < PollEvery
  /\ cap.at = "starting" => clock - cap.born < QueueMax - Window

FedSource ==
  IF Listening THEN [cap EXCEPT !.queued = Lower(@ + 1, QueueMax), !.sent = @ + 1] ELSE cap

feed ==
  /\ Attached /\ KeepsUp /\ clock < MaxClock /\ clock' = clock + 1
  /\ mic' = [mic EXCEPT !.last = clock + 1] /\ cap' = FedSource
  /\ UNCHANGED socks

(* No silence is made up while a socket is attached. *)
Stalls ==
  /\ KeepsUp /\ clock < MaxClock /\ clock' = clock + 1
  /\ cap' = IF cap.at = "capturing" THEN [cap EXCEPT !.waited = @ + 1] ELSE cap
  /\ UNCHANGED <<socks, mic>>

MicNext ==
  \/ \E s \in Sockets : SocketOpens(s) \/ HelloRejected(s) \/ connect(s) \/ disconnect(s)
  \/ open \/ Starts \/ frames \/ Polls \/ stop \/ feed \/ Stalls
=============================================================================
