----------------------------- MODULE StreamPath -----------------------------
(***************************************************************************)
(* The streaming live path: StreamPath (session/streaming.py), which fails *)
(* over between providers, around TranscriptStream (stt/streaming.py),     *)
(* which keeps one provider connected.                                     *)
(*                                                                         *)
(* The capture loop feeds frames and never waits; the send loop writes     *)
(* them to the current connection; a reader task turns the vendor's        *)
(* signals into rows.  What a dead connection swallowed is a gap, marked   *)
(* where somebody transcribes again, or where the path ends.               *)
(***************************************************************************)
EXTENDS Integers, Sequences, FiniteSets, SequencesExt

CONSTANTS
  Primary, Fallback,  \* provider ids
  StreamFaults,   \* subset of StreamFaultKinds
  QueueFrames,    \* StreamConfig.queue_frames
  KeepFrames,     \* StreamConfig.resume_keep_frames
  MaxReconnects,  \* StreamConfig.max_reconnects
  MaxOpenTurns,   \* _MAX_OPEN_TURNS
  MaxFrames,      \* bound: frames captured
  MaxTurns,       \* bound: turns a connection names
  MaxHealthy      \* bound: connections that earn a fresh budget

StreamFaultKinds == {"connect", "unsupported", "socket", "send", "watchdog", "drain"}
ASSUME StreamAssumption ==
  /\ Primary # Fallback
  /\ StreamFaults \subseteq StreamFaultKinds
  /\ QueueFrames \in Nat \ {0} /\ KeepFrames \in 1 .. QueueFrames
  /\ MaxReconnects \in Nat /\ MaxOpenTurns \in Nat \ {0}
  /\ MaxFrames \in Nat /\ MaxTurns \in Nat /\ MaxHealthy \in Nat

Turn == 1 .. MaxTurns
STOP == 0          \* _STOP among the frames, which are numbered from 1

VARIABLES
  shape,    \* what each provider is: "stream", "both", "call", "none"
  now,      \* _last_frame_ts: frames captured
  stopped,  \* done() was called
  pc,       \* where run() awaits
  left,     \* providers the loop has not tried
  cur,      \* the provider it is at
  retired,  \* _retired
  shaped,   \* _call_shaped: that provider alone, or nobody
  end,      \* how run() ended
  attempts, healthy,
  frames,   \* the stream's queue
  stalled,  \* it overflowed
  gen,      \* connections opened by the current stream
  t0, last, \* first and last frame written to this connection, or 0
  alive,    \* its reader task is running
  turns,    \* its open turns, oldest first
  closed,   \* the turns it settled
  gap,      \* _gap: where it starts, or 0
  sent, evicted, markers,  \* history: frames written, dropped by stop(), gap rows
  interim, final           \* transcript rows, by <<provider, connection, turn>>

pathVars == <<shape, pc, left, cur, retired, shaped, end, attempts, healthy, gen>>
connVars == <<stalled, t0, last, alive, turns, closed>>
rowVars  == <<interim, final>>
gapVars  == <<gap, markers>>
feedVars == <<now, stopped, frames, evicted>>
streamVars == <<pathVars, connVars, rowVars, gapVars, feedVars, sent>>

Streams(p) == shape[p] \in {"stream", "both"}

StreamInit ==
  /\ shape \in [{Primary, Fallback} -> {"stream", "both", "call", "none"}]
  /\ Streams(Primary)
  /\ left = IF Streams(Fallback) THEN <<Primary, Fallback>> ELSE <<Primary>>
  /\ cur = Primary /\ retired = {} /\ shaped = <<>> /\ end = "no" /\ pc = "pick"
  /\ now = 0 /\ stopped = FALSE
  /\ attempts = 0 /\ healthy = 0 /\ frames = <<>> /\ stalled = FALSE /\ gen = 0
  /\ t0 = 0 /\ last = 0 /\ alive = FALSE /\ turns = <<>> /\ closed = {}
  /\ gap = 0 /\ sent = {} /\ evicted = {} /\ markers = {}
  /\ interim = {} /\ final = {}

(* StreamPath.handoff: the pair the utterance path takes over with. *)
Handoff ==
  LET fallback == IF shape[Fallback] = "none" THEN <<>> ELSE <<Fallback>> IN
  IF shaped # <<>> THEN shaped \o fallback
  ELSE IF shape[Fallback] = "call" THEN fallback ELSE <<>>

-----------------------------------------------------------------------------
(* The capture loop: frame() and done(), which reach the stream while there
   is one.  A send loop that waits for a frame is woken by the first. *)
Connected == {"recv", "send", "finish"}
Streaming == Connected \cup {"open", "sleep", "teardown"}

Pushed(x) == Append(IF Len(frames) >= QueueFrames THEN Tail(frames) ELSE frames, x)

Captures ==
  /\ ~stopped /\ now < MaxFrames
  /\ pc = "recv" => Len(frames) < QueueFrames
  /\ now' = now + 1
  /\ IF pc \in Streaming
     THEN /\ frames' = Pushed(now')
          /\ stalled' = (stalled \/ Len(frames) = QueueFrames)
     ELSE UNCHANGED <<frames, stalled>>
  /\ UNCHANGED <<stopped, evicted, pathVars, t0, last, alive, turns, closed, rowVars,
                 gapVars, sent>>

(* Mutant: a full queue does not take the sentinel. *)
CaptureDoneFull ==
  /\ ~stopped /\ stopped' = TRUE
  /\ IF pc \in Streaming /\ Len(frames) < QueueFrames
     THEN frames' = Append(frames, STOP) ELSE UNCHANGED frames
  /\ UNCHANGED <<now, evicted, pathVars, connVars, rowVars, gapVars, sent>>

CaptureDone ==
  /\ ~stopped /\ stopped' = TRUE
  /\ IF pc \in Streaming
     THEN /\ frames' = Pushed(STOP)
          /\ evicted' = IF Len(frames) = QueueFrames THEN {Head(frames)} ELSE {}
     ELSE UNCHANGED <<frames, evicted>>
  /\ UNCHANGED <<now, pathVars, connVars, rowVars, gapVars, sent>>

-----------------------------------------------------------------------------
(* StreamPath._stream is None, or a new TranscriptStream. *)
NoStream ==
  /\ frames' = <<>> /\ gen' = 0 /\ attempts' = 0
  /\ stalled' = FALSE /\ t0' = 0 /\ last' = 0 /\ turns' = <<>> /\ closed' = {}

(* StreamPath._run: the next provider, or what is left without one. *)
Picks ==
  /\ pc = "pick"
  /\ NoStream
  /\ IF left = <<>>
     THEN /\ end' = IF Handoff # <<>> THEN "handoff" ELSE "exhausted"
          /\ pc' = "gap" /\ UNCHANGED <<left, cur>>
     ELSE IF stopped
     THEN end' = "ended" /\ pc' = "gap" /\ UNCHANGED <<left, cur>>
     ELSE cur' = Head(left) /\ left' = Tail(left) /\ pc' = "open" /\ UNCHANGED end
  /\ UNCHANGED <<shape, retired, shaped, healthy, now, stopped, evicted, alive, rowVars,
                 gapVars, sent>>

(* TranscriptStream.run after an attempt: its budget, or the next one. *)
Attempted(n) == /\ attempts' = n
                /\ pc' = IF n > MaxReconnects THEN "retire" ELSE "sleep"

OpenFails ==
  /\ "connect" \in StreamFaults /\ pc = "open"
  /\ Attempted(attempts + 1)
  /\ UNCHANGED <<shape, left, cur, retired, shaped, end, healthy, gen, connVars, rowVars,
                 gapVars, feedVars, sent>>

(* StreamUnsupportedError: the rest of the session goes call by call, if this
   connector has that shape. *)
OpenUnsupported ==
  /\ "unsupported" \in StreamFaults /\ pc = "open"
  /\ IF shape[cur] = "both"
     THEN shaped' = <<cur>> /\ left' = <<>> /\ pc' = "pick"
     ELSE pc' = "retire" /\ UNCHANGED <<shaped, left>>
  /\ UNCHANGED <<shape, cur, retired, end, attempts, healthy, gen, connVars, rowVars,
                 gapVars, feedVars, sent>>

(* _serve: _reset_connection drops all but the tail of what was captured
   meanwhile; the sentinel is always its last item. *)
Opened ==
  LET n == Len(frames) IN
  /\ pc = "open" /\ pc' = "recv"
  /\ gen' = gen + 1 /\ t0' = 0 /\ alive' = TRUE /\ turns' = <<>> /\ closed' = {}
  /\ stalled' = FALSE
  /\ frames' = IF n > KeepFrames THEN SubSeq(frames, n - KeepFrames + 1, n) ELSE frames
  /\ UNCHANGED <<shape, left, cur, retired, shaped, end, attempts, healthy, last, rowVars,
                 gapVars, now, stopped, evicted, sent>>

Slept ==
  /\ pc = "sleep"
  /\ IF stopped THEN pc' = "gap" /\ end' = "ended" ELSE pc' = "open" /\ UNCHANGED end
  /\ UNCHANGED <<shape, left, cur, retired, shaped, attempts, healthy, gen, connVars, rowVars,
                 gapVars, feedVars, sent>>

-----------------------------------------------------------------------------
(* _send_loop, _write and _check_liveness. *)

(* _open_gap, for a connection that wrote up to frame w first written at a. *)
GapOf(a, w) ==
  IF a = 0 THEN gap
  ELSE LET oldest == IF turns = <<>> THEN w ELSE turns[1].start
       IN  IF gap = 0 \/ oldest < gap THEN oldest ELSE gap

Marked(until) == IF gap # 0 /\ until > gap THEN markers \cup {<<gap, until>>} ELSE markers

(* The socket ended under the loop: the frame in hand goes nowhere. *)
TakesDead ==
  /\ pc = "recv" /\ frames # <<>> /\ Head(frames) # STOP /\ ~alive
  /\ frames' = Tail(frames) /\ pc' = "teardown" /\ gap' = GapOf(t0, last)
  /\ UNCHANGED <<now, stopped, evicted, markers, connVars, rowVars, sent, shape, left, cur,
                 retired, shaped, end, attempts, healthy, gen>>

(* Mutant: the gap is marked and kept. *)
TakesMarking ==
  /\ pc = "recv" /\ frames # <<>> /\ Head(frames) # STOP /\ alive
  /\ frames' = Tail(frames) /\ pc' = "send"
  /\ last' = Head(frames) /\ sent' = sent \cup {Head(frames)}
  /\ IF t0 = 0 THEN t0' = Head(frames) /\ markers' = Marked(Head(frames))
     ELSE UNCHANGED <<t0, markers>>
  /\ UNCHANGED <<now, stopped, evicted, stalled, alive, turns, closed, rowVars, shape, left,
                 cur, retired, shaped, end, attempts, healthy, gen, gap>>

Takes ==
  /\ pc = "recv" /\ frames # <<>> /\ Head(frames) # STOP /\ alive
  /\ frames' = Tail(frames) /\ pc' = "send"
  /\ last' = Head(frames) /\ sent' = sent \cup {Head(frames)}
  /\ IF t0 = 0 THEN t0' = Head(frames) /\ markers' = Marked(Head(frames)) /\ gap' = 0
     ELSE UNCHANGED <<t0, markers, gap>>
  /\ UNCHANGED <<now, stopped, evicted, stalled, alive, turns, closed, rowVars, shape, left,
                 cur, retired, shaped, end, attempts, healthy, gen>>

Written ==
  /\ pc = "send" /\ ~stalled
  /\ pc' = "recv"
  /\ UNCHANGED <<connVars, rowVars, gapVars, feedVars, sent, shape, left, cur, retired,
                 shaped, end, attempts, healthy, gen>>

(* The write raises or blocks, the queue overflowed meanwhile, or speech went
   out and nothing came back. *)
ConnectionLost ==
  /\ pc = "send"
  /\ stalled \/ StreamFaults \cap {"send", "watchdog"} # {}
  /\ pc' = "teardown" /\ gap' = GapOf(t0, last)
  /\ UNCHANGED <<connVars, rowVars, markers, feedVars, sent, shape, left, cur, retired,
                 shaped, end, attempts, healthy, gen>>

(* The sentinel: flush, and a bounded wait for the last finals. *)
TakesStop ==
  /\ pc = "recv" /\ frames # <<>> /\ Head(frames) = STOP
  /\ frames' = Tail(frames)
  /\ pc' = IF alive THEN "finish" ELSE "teardown"
  /\ UNCHANGED <<now, stopped, evicted, connVars, rowVars, gapVars, sent, shape, left, cur,
                 retired, shaped, end, attempts, healthy, gen>>

Finished ==
  /\ pc = "finish" /\ pc' = "teardown"
  /\ UNCHANGED <<connVars, rowVars, gapVars, feedVars, sent, shape, left, cur, retired,
                 shaped, end, attempts, healthy, gen>>

-----------------------------------------------------------------------------
(* The reader task: turns. *)
Row(r)  == <<cur, gen, r>>
Hearing == pc \in Connected /\ alive /\ t0 # 0     \* the vendor speaks of audio it has
ReaderFrame == UNCHANGED <<pathVars, gapVars, feedVars, sent, stalled, t0, last, alive>>

IsOpen(r) == \E i \in DOMAIN turns : turns[i].ref = r
Without(r) ==
  IF IsOpen(r) THEN RemoveAt(turns, CHOOSE i \in DOMAIN turns : turns[i].ref = r) ELSE turns

(* _open and _evict_oldest: the turns with r among them, and the one that had
   to go. *)
WithTurn(r, start) ==
  IF IsOpen(r) THEN turns ELSE Append(turns, [ref |-> r, start |-> start, shown |-> FALSE])
Kept(ts)    == IF Len(ts) > MaxOpenTurns THEN Tail(ts) ELSE ts
Settled(ts) == {Row(ts[i].ref) : i \in {k \in DOMAIN ts : ts[k].shown}}
Evicted(ts) == IF Len(ts) > MaxOpenTurns THEN <<Head(ts)>> ELSE <<>>

TurnStarts(r) ==
  /\ Hearing
  /\ \E start \in {t0, last} :
       LET ts == WithTurn(r, start) IN
       /\ turns' = Kept(ts)
       /\ closed' = closed \cup {t.ref : t \in Range(Evicted(ts))}
       /\ final' = final \cup Settled(Evicted(ts))
       /\ interim' = interim \ Settled(Evicted(ts))
  /\ ReaderFrame

(* Mutant: a late partial opens its turn again. *)
TurnGrowsLate(r) ==
  /\ Hearing
  /\ \E shows \in BOOLEAN :
       LET ts   == WithTurn(r, last)
           gone == Settled(Evicted(ts))
           now1 == IF shows THEN {Row(r)} ELSE {}
       IN  /\ turns' = [i \in DOMAIN Kept(ts) |->
                 [Kept(ts)[i] EXCEPT !.shown = @ \/ (shows /\ Kept(ts)[i].ref = r)]]
           /\ closed' = closed \cup {t.ref : t \in Range(Evicted(ts))}
           /\ final' = (final \cup gone) \ now1
           /\ interim' = (interim \ gone) \cup now1
  /\ ReaderFrame

(* More text; published, or held back by the throttle. *)
TurnGrows(r) ==
  /\ Hearing /\ r \notin closed
  /\ \E shows \in BOOLEAN :
       LET ts   == WithTurn(r, last)
           gone == Settled(Evicted(ts))
           now1 == IF shows THEN {Row(r)} ELSE {}
       IN  /\ turns' = [i \in DOMAIN Kept(ts) |->
                 [Kept(ts)[i] EXCEPT !.shown = @ \/ (shows /\ Kept(ts)[i].ref = r)]]
           /\ closed' = closed \cup {t.ref : t \in Range(Evicted(ts))}
           /\ final' = (final \cup gone) \ now1
           /\ interim' = (interim \ gone) \cup now1
  /\ ReaderFrame

(* Mutant: an empty final says nothing. *)
TurnClosesEmpty(r) ==
  /\ Hearing
  /\ turns' = Without(r)
  /\ closed' = closed \cup {r}
  /\ \E text \in BOOLEAN :
       IF text THEN final' = final \cup {Row(r)} /\ interim' = interim \ {Row(r)}
       ELSE UNCHANGED rowVars
  /\ ReaderFrame

(* _close: the settled text, or the last interim for an empty one. *)
TurnCloses(r) ==
  LET shown == \E i \in DOMAIN turns : turns[i].ref = r /\ turns[i].shown IN
  /\ Hearing
  /\ turns' = Without(r)
  /\ closed' = closed \cup {r}
  /\ \E text \in BOOLEAN :
       IF text \/ shown THEN final' = final \cup {Row(r)} /\ interim' = interim \ {Row(r)}
       ELSE UNCHANGED rowVars
  /\ ReaderFrame

VendorCloses ==
  /\ "socket" \in StreamFaults
  /\ pc \in Connected /\ alive /\ alive' = FALSE
  /\ UNCHANGED <<pathVars, gapVars, feedVars, sent, stalled, t0, last, turns, closed, rowVars>>

-----------------------------------------------------------------------------
(* The end of a connection, of a provider, of the path. *)

SettleOpen == /\ final' = final \cup Settled(turns)
              /\ interim' = interim \ Settled(turns)
              /\ turns' = <<>>

(* The socket is closed and what was open settled; then it is over, or the
   budget decides, a fresh one for a connection that held. *)
TornDown ==
  /\ pc = "teardown"
  /\ SettleOpen /\ alive' = FALSE
  /\ \/ /\ stopped /\ pc' = "gap" /\ end' = "ended" /\ UNCHANGED <<attempts, healthy>>
     \/ /\ ~stopped /\ Attempted(attempts + 1) /\ UNCHANGED <<end, healthy>>
     \/ /\ ~stopped /\ healthy < MaxHealthy /\ healthy' = healthy + 1
        /\ Attempted(0) /\ UNCHANGED end
  /\ UNCHANGED <<shape, left, cur, retired, shaped, gen, stalled, t0, last, closed, gapVars,
                 feedVars, sent>>

(* Mutant: a dead provider takes its gap with it. *)
RetiresForgetting ==
  /\ pc = "retire" /\ pc' = "alert"
  /\ retired' = retired \cup {cur} /\ frames' = <<>> /\ gap' = 0
  /\ UNCHANGED <<shape, left, cur, shaped, end, attempts, healthy, gen, connVars, rowVars,
                 markers, now, stopped, evicted, sent>>

(* _retire, up to the alert it awaits. *)
Retires ==
  /\ pc = "retire" /\ pc' = "alert"
  /\ retired' = retired \cup {cur} /\ frames' = <<>>
  /\ UNCHANGED <<shape, left, cur, shaped, end, attempts, healthy, gen, connVars, rowVars,
                 gapVars, now, stopped, evicted, sent>>

Alerted ==
  /\ pc = "alert" /\ pc' = "pick"
  /\ UNCHANGED <<shape, left, cur, retired, shaped, end, attempts, healthy, gen, connVars,
                 rowVars, gapVars, feedVars, sent>>

(* run()'s finally: a gap nobody ended is marked, the labels still in flight
   get a moment. *)
ClosesGap ==
  /\ pc = "gap" /\ pc' = "labels"
  /\ markers' = Marked(now) /\ gap' = 0
  /\ NoStream
  /\ UNCHANGED <<shape, left, cur, retired, shaped, end, healthy, alive, rowVars, now,
                 stopped, evicted, sent>>

Labelled ==
  /\ pc = "labels" /\ pc' = "over"
  /\ UNCHANGED <<shape, left, cur, retired, shaped, end, attempts, healthy, gen, connVars,
                 rowVars, gapVars, feedVars, sent>>

(* The stop's drain ran out: a CancelledError where run() awaits.  It is no
   failure of the connection, so it opens no gap; _teardown runs in a finally,
   but a cancellation that meets it inside close_stream skips what is left. *)
Cancelled ==
  /\ "drain" \in StreamFaults /\ end \notin {"cancelled", "torn"}
  /\ pc \in Streaming \cup {"alert", "labels"}
  /\ end' = IF pc = "teardown" THEN "torn" ELSE "cancelled"
  /\ pc' = IF pc = "labels" THEN "over" ELSE "gap"
  /\ IF pc \in Connected THEN SettleOpen ELSE UNCHANGED <<turns, rowVars>>
  /\ alive' = FALSE
  /\ UNCHANGED <<shape, left, cur, retired, shaped, attempts, healthy, gen, stalled, t0, last,
                 closed, gapVars, feedVars, sent>>

Connecting == OpenFails \/ OpenUnsupported \/ Opened
Sending    == TakesDead \/ Takes \/ Written \/ ConnectionLost \/ TakesStop \/ Finished
Leaving    == TornDown \/ Retires \/ Alerted \/ ClosesGap \/ Labelled
StreamWorks == Picks \/ Connecting \/ Slept \/ Sending \/ Leaving

Reading == \E r \in Turn : TurnStarts(r) \/ TurnGrows(r) \/ TurnCloses(r)
=============================================================================
