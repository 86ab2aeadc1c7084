---------------------------- MODULE UtteranceCalls ----------------------------
(***************************************************************************)
(* transcribe_one of the five socket connectors (stt/backends), one call   *)
(* per utterance: the router gives a call up after its own timeout.        *)
(*                                                                         *)
(* Word k of utterance u is Start(u) + k, negative in an interim.  A       *)
(* frame's words count from the audio sent: k, shifted by Start(u).        *)
(***************************************************************************)
EXTENDS Integers, Sequences, SequencesExt

CONSTANTS MaxUtts, MaxTurns     \* utterances; turns the service finds in one

VARIABLE call

SocketVendors == {"deepgram", "assemblyai", "xai", "gemini", "openai"}

Start(u) == (MaxTurns + 2) * u     \* nothing says more words than that

Nothing == [n \in 1..MaxTurns |-> <<>>]

Quiet == [parts |-> <<>>, words |-> <<>>, turns |-> Nothing, interim |-> <<>>, ended |-> FALSE]

NoAnswer == [utt |-> 0, text |-> <<>>, words |-> <<>>, whole |-> FALSE]

CallInit ==
  \E v \in SocketVendors :
    call = [vendor |-> v, pc |-> "idle", utt |-> 0, got |-> Quiet, said |-> Nothing, turn |-> 1,
            shown |-> FALSE, flushed |-> FALSE, tail |-> FALSE, ws |-> "none", due |-> <<>>, cut |-> FALSE,
            answer |-> NoAnswer]

Token(n) == Start(call.utt) + n

(* parse_alternative, parse_words: onto the session clock. *)
Shifted(words, offset) == [i \in DOMAIN words |-> words[i] + offset]

Read == call.pc = "reading"

Is(v) == call.vendor = v

(* One frame folded in; the service settled text of turn n with it. *)
Folds(got, n, text) ==
  call' = [call EXCEPT !.got = got, !.said[n] = text, !.turn = IF n = @ THEN @ + 1 ELSE @]

(* Connector.transcribe: an empty text is no event. *)
Returns(text, words, whole) ==
  call' = [call EXCEPT !.pc = "idle", !.answer =
             IF text = <<>> THEN [NoAnswer EXCEPT !.utt = call.utt, !.whole = whole]
             ELSE [utt |-> call.utt, text |-> text, words |-> words, whole |-> whole]]

-----------------------------------------------------------------------------
(* A connection of its own for each utterance, or the one kept open. *)
Transcribe ==
  /\ call.pc = "idle" /\ call.utt < MaxUtts
  /\ call' = [call EXCEPT !.utt = @ + 1, !.got = Quiet, !.said = Nothing, !.turn = 1,
                          !.shown = FALSE, !.flushed = FALSE, !.tail = FALSE, !.answer = NoAnswer,
                          !.pc = IF Is("openai") \/ Is("gemini") THEN "setup" ELSE "reading"]

(* setupComplete, session.updated; on the kept socket nothing to set up.  A
   commit is answered by one completed event, in the order of the commits. *)
Ready ==
  /\ call.pc = "setup" /\ (Is("openai") => call.ws # "over")
  /\ call' = [call EXCEPT !.pc = "reading",
                          !.ws = IF Is("openai") THEN "open" ELSE @,
                          !.due = IF Is("openai") THEN Append(@, call.utt) ELSE @]

(* Any failure of the socket; the kept one is dropped. *)
Raises ==
  /\ call.pc # "idle"
  /\ call' = [call EXCEPT !.pc = "idle", !.ws = "none", !.due = <<>>, !.cut = FALSE]

(* asyncio.wait_for in the router: a cancellation, which no handler of the
   call catches. *)
RouterGivesUp ==
  /\ call.pc # "idle"
  /\ call' = [call EXCEPT !.pc = "idle", !.cut = Read \/ @]

-----------------------------------------------------------------------------
(* Deepgram: final Results are all kept, one without a transcript adds none. *)
DeepgramResults ==
  /\ Read /\ Is("deepgram") /\ call.turn <= MaxTurns
  /\ \E heard \in BOOLEAN :
       LET n == call.turn IN
       Folds(IF heard THEN [call.got EXCEPT !.parts = Append(@, Token(n)),
                                            !.words = @ \o Shifted(<<n>>, Start(call.utt))]
             ELSE call.got,
             n, IF heard THEN <<Token(n)>> ELSE <<>>)

(* AssemblyAI: the last message of each turn_order, a formatted one too. *)
AssemblyTurn ==
  /\ Read /\ Is("assemblyai")
  /\ \E n \in 1..MaxTurns :
       /\ n <= call.turn
       /\ LET text == IF n = call.turn THEN <<Token(n)>> ELSE <<Token(n), 0>> IN
          Folds([call.got EXCEPT !.turns[n] = text], n, text)

(* xAI: locked partials, kept in case transcript.done has no text. *)
XaiPartial ==
  /\ Read /\ Is("xai") /\ call.turn <= MaxTurns
  /\ LET n == call.turn IN
     Folds([call.got EXCEPT !.parts = Append(@, Token(n)),
                            !.words = @ \o Shifted(<<n>>, Start(call.utt))],
           n, <<Token(n)>>)

XaiDone ==
  /\ Read /\ Is("xai")
  /\ \E empty \in BOOLEAN :
       IF empty THEN Returns(call.got.parts, call.got.words, TRUE)
       ELSE LET all == FlattenSeq(call.said) IN
            Returns(all, Shifted([i \in DOMAIN all |-> all[i] - Start(call.utt)], Start(call.utt)),
                    TRUE)

(* Once the audio is over, the service has its tail to answer and no more. *)
Speech == call.flushed => call.tail

(* Gemini, _TurnState.apply: an interim is the whole turn so far. *)
GeminiInterim ==
  /\ Read /\ Is("gemini") /\ call.turn <= MaxTurns /\ Speech
  /\ call' = [call EXCEPT !.got.interim = <<-Token(call.turn)>>, !.got.ended = FALSE, !.shown = TRUE]

(* A turn's text, late perhaps for a turn already completed without it. *)
GeminiFinal ==
  /\ Read /\ Is("gemini")
  /\ \E n \in 1..MaxTurns :
       /\ \/ n = call.turn /\ call.said[n] = <<>> /\ Speech
          \/ n = call.turn - 1 /\ call.said[n] = <<-Token(n)>> /\ ~call.shown
       /\ call' = [call EXCEPT !.got.parts = Append(@, Token(n)), !.got.interim = <<>>,
                               !.got.ended = FALSE, !.said[n] = <<Token(n)>>,
                               !.shown = (n = call.turn)]

(* _flush_open_turn: of a turn never finalized, its newest interim. *)
Flushed(got) == [got EXCEPT !.parts = @ \o got.interim, !.interim = <<>>]

(* generationComplete, of a turn the service has settled or only shown. *)
GeminiTurnEnds ==
  /\ Read /\ Is("gemini") /\ call.shown
  /\ LET n == call.turn IN
     call' = [call EXCEPT !.got = [Flushed(@) EXCEPT !.ended = TRUE], !.turn = @ + 1,
                          !.shown = FALSE, !.tail = FALSE,
                          !.said[n] = IF @ = <<>> THEN <<-Token(n)>> ELSE @]

LastChunk(got) ==
  /\ Read /\ Is("gemini") /\ ~call.flushed
  /\ \E more \in BOOLEAN :
       call' = [call EXCEPT !.flushed = TRUE, !.got = got, !.tail = more \/ call.shown]

GeminiLastChunkKeepsEnd == LastChunk(call.got)

(* The paced send is over: audioStreamEnd, and only a turn that ends after it
   ends the reading.  Every earlier turn closed while audio was going out. *)
GeminiLastChunk == LastChunk([call.got EXCEPT !.ended = FALSE])

(* OpenAI: the next completed event on the kept socket; or a failed one. *)
OpenAICompleted ==
  /\ Read /\ Is("openai") /\ call.due # <<>>
  /\ \E failed \in BOOLEAN :
       LET text == IF failed THEN <<>> ELSE <<Start(Head(call.due)) + 1>> IN
       call' = [call EXCEPT !.pc = "idle", !.due = Tail(@),
                            !.answer = [utt |-> call.utt, text |-> text, words |-> <<>>,
                                        whole |-> ~failed]]

-----------------------------------------------------------------------------
GotText ==
  IF Is("assemblyai") THEN FlattenSeq(call.got.turns) ELSE Flushed(call.got).parts

GotWords ==
  IF Is("deepgram") \/ Is("xai") THEN call.got.words ELSE IF Is("gemini") THEN <<>> ELSE GotText

(* Metadata, Termination; for Gemini the end of the turn the flush closed. *)
ServiceIsDone ==
  /\ Read
  /\ \/ Is("deepgram") \/ Is("assemblyai")
     \/ Is("gemini") /\ call.flushed /\ call.got.ended
  /\ Returns(GotText, GotWords, TRUE)

(* A quiet socket, a clean close before the end, xAI's error frame. *)
ReadingStops ==
  /\ Read /\ ~Is("openai")
  /\ Returns(GotText, GotWords, FALSE)

(* The kept socket closed cleanly: nothing heard, and still kept, so that the
   next call's send raises. *)
KeptSocketCloses ==
  /\ Read /\ Is("openai")
  /\ call' = [call EXCEPT !.pc = "idle", !.ws = "over", !.due = <<>>, !.cut = FALSE]

CallNext ==
  \/ Transcribe \/ Ready \/ Raises \/ RouterGivesUp
  \/ DeepgramResults \/ AssemblyTurn \/ XaiPartial \/ XaiDone
  \/ GeminiInterim \/ GeminiFinal \/ GeminiTurnEnds \/ GeminiLastChunk
  \/ OpenAICompleted \/ ServiceIsDone \/ ReadingStops \/ KeptSocketCloses
=============================================================================
