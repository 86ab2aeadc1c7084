---------------------------- MODULE ConnectorProps ----------------------------
(***************************************************************************)
(* What the connectors owe the session: the transcript is what the service *)
(* settled, a connection is left between turns, one socket is held, and a  *)
(* call answers with its own utterance.                                    *)
(***************************************************************************)
EXTENDS Connectors, FiniteSets, SequencesExt

Streaming == ended # Off

Rows(final) == {book.rows[i] : i \in {j \in DOMAIN book.rows : book.rows[j].final = final}}

(* While a connection is up, the settled rows of the transcript are exactly
   what its service has settled: each turn once, under one handle, with its
   last text and words, whatever interims, duplicates, late answers and
   revisions came in between (signals() of the five connectors, _apply). *)
SaidIsWritten ==
  Streaming /\ ended = "no" =>
    {[handle |-> r.handle, text |-> r.text, words |-> r.words] : r \in Rows(TRUE)} = said

(* A row still shown as an interim belongs to a turn that is still open, and
   however the connection ends no interim is left behind (_settle_open). *)
NoStrandedInterim ==
  Streaming =>
    /\ \A r \in Rows(FALSE) : \E i \in DOMAIN book.open : book.open[i].handle = r.handle
    /\ ended # "no" => Rows(FALSE) = {}

(* A reader that leaves by its own choice before the vendor's cap leaves no
   turn half told; the cap itself is met only in the middle of a turn. *)
LeavesBetweenTurns ==
  /\ machine = "gemini" => (ended = "left" => ~GL!MidTurn)
  /\ machine = "assemblyai" => /\ ended = "left" => ~AA!MidTurn
                               /\ ended = "cut" => AA!MidTurn

(* How a connection ends: with no row left as an interim, and when the reader
   chose the moment itself, with no turn half told (signals, _settle_open). *)
LeavesCleanly == NoStrandedInterim /\ LeavesBetweenTurns

(* A connector holds one socket: those not being closed are at most one, and
   between two calls exactly the stored one.  Whatever interrupts an open,
   nothing is leaked (open_stream, close_socket). *)
OneLiveSocket ==
  machine = "handshake" =>
    /\ Cardinality(hs.open \ hs.closing) <= 1
    /\ hs.pc = "idle" => hs.open \ hs.closing = {hs.stored} \ {0}

(* An open refused over something a session can go without is answered once:
   it opens, or the connector has learnt what to leave out, or there was
   something else to refuse.  A refused model is what it reports as such. *)
RefusalTeaches ==
  machine = "handshake" =>
    /\ hs.outcome = "failed" /\ hs.luck =>
         \/ hs.learnt \/ "required" \in hs.refuses
         \/ hs.vendor = "xai" /\ "model" \in hs.refuses
    /\ hs.outcome = "unsupported" => "model" \in hs.refuses

(* What a connector holds and what it has learnt are true after every opening,
   however it was refused or interrupted (open_stream, _drop_refused). *)
OpeningKeepsBooks == OneLiveSocket /\ RefusalTeaches

(* The text of an utterance is of that utterance: "emits one completed event
   per input_audio_buffer.commit, so a single connection serves the whole
   session" (stt/backends/openai_realtime.py). *)
OwnWords ==
  machine = "call" /\ call.answer.text # <<>> =>
    \A t \in ToSet(call.answer.text) : t # 0 =>
      LET start == UC!Start(call.answer.utt) IN
      (IF t < 0 THEN -t ELSE t) \in start .. (start + MaxTurns + 1)

(* A call that read its service to the end returns all of it, in order and
   with its words on the session's clock; Gemini, which may settle a turn it
   had only shown, at least every turn, the tail of the audio too.  On the
   socket OpenAI's calls share, the answer is the utterance's own unless the
   router gave one up there (transcribe_one of the five connectors). *)
AnswerIsWhole ==
  machine = "call" =>
    /\ call.vendor = "gemini" /\ call.answer.whole =>
         /\ UNION {ToSet(call.said[n]) : n \in 1..MaxTurns} \subseteq ToSet(call.answer.text)
         /\ ~call.tail
    /\ call.vendor \in {"deepgram", "assemblyai", "xai"} /\ call.answer.whole =>
         /\ call.answer.text = FlattenSeq(call.said)
         /\ call.answer.words = call.answer.text
    /\ (call.vendor = "openai" => ~call.cut) => OwnWords

(* A job the call knows of is not left at the vendor: either its transcript
   came back or its deletion is under way, made, or was refused; and it is
   never waited for beyond the ceiling (transcribe_one, _await_completion). *)
NoPaidJobLeft ==
  machine = "batch" /\ batch.vendor = "assemblyai" =>
    /\ batch.job.waited <= JobTimeout
    /\ batch.pc = "idle" /\ batch.job.known =>
         batch.outcome = "answered" \/ batch.job.clean # "no"

(* The sockets a session streams over: opened without a leak, whatever refuses
   or interrupts the opening, and left with nothing half told. *)
ConnectionsKept == OpeningKeepsBooks /\ LeavesCleanly

(* The calls of one utterance: answered whole, and nothing paid for is left
   at the service. *)
CallsKept == AnswerIsWhole /\ NoPaidJobLeft
=============================================================================
