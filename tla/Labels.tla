------------------------------- MODULE Labels --------------------------------
(***************************************************************************)
(* Who said it: the speakers of a live session's turns.  A final turn is   *)
(* published at once and again when the diarizer, asked beside the stream  *)
(* about the audio still held, has answered (session/streaming.py,         *)
(* audio/rolling.py, diarization/).  A second of audio is one voice and    *)
(* one word; a label is the number that whoever gives it gives a voice:    *)
(* the diarizer's memory, the vendor's stream, or one call to a vendor.    *)
(* MaxSeconds bounds the session, MaxFinals its turns, MaxRestarts the     *)
(* restarts of the service.                                                *)
(***************************************************************************)
EXTENDS Integers, Sequences, FiniteSets, SequencesExt

CONSTANTS Voices, Held, MaxSeconds, MaxFinals, MaxRestarts

VARIABLE desk

(* A label, <<giver, number>>: a number means nothing beyond its giver.  The
   calls that transcribe one utterance are givers by the turn they make. *)
Stream == -1
Bank == -2
Nobody == <<0, 0>>

Remote == "remote"
Wordless == "remote, from a vendor without words"
Inline == "inline"
NoRow == [final |-> 0, from |-> 0, heard |-> 0, who |-> <<>>, speaker |-> Nobody]

(* Remote mode asks a service, inline takes the vendor's word for it; some
   vendors label the words they return whatever the mode, some return none (the
   ones between, whose words come without labels, are told apart by nothing here).  A row's heard is where the audio begins that the diarizer
   answered about, 0 where it has not. *)
DeskInit ==
  desk \in [mode : {Remote, Wordless, Inline},
            room : {<<>>}, path : {"streams"},
            finals : {<<>>},                 \* the finals published, in order
            tasks : {{}},                    \* the labels in flight
            rows : {[t \in 1..MaxFinals |-> NoRow]},
            known : {<<>>}, gen : {1},       \* the service: voices, process
            seen : {0}, warned : {FALSE}]    \* what its client has noted

Now(d) == Len(d.room)

(* One more second goes through the rolling window; voices are numbered as
   they are first heard. *)
Captures ==
  /\ desk.path \in {"streams", "utterances"} /\ Now(desk) < MaxSeconds
  /\ \E v \in Voices :
       /\ v = 1 \/ v - 1 \in ToSet(desk.room)
       /\ desk' = [desk EXCEPT !.room = Append(@, v)]

(* Where the part of a turn that is still held begins: later than the turn
   where its opening has aged out of the window. *)
ClipFrom(d, from) == IF from > Now(d) - Held THEN from ELSE Now(d) - Held + 1

(* What the diarizer answers counts from where its audio began, which is not
   where the turn does when the window has moved on. *)
AskedFrom(f, t) == f.from

SentFrom(f, t) == t.at

(* Voices in the order they are first heard. *)
Heard(known, voices) ==
  FoldLeft(LAMBDA k, v : IF v \in ToSet(k) THEN k ELSE Append(k, v), known, voices)

FirstLabelled(labels) ==
  LET given == SelectSeq(labels, LAMBDA l : l # Nobody) IN
  IF given = <<>> THEN Nobody ELSE Head(given)

(* The voice with most of the seconds labelled, the first heard of equals. *)
Dominant(labels) ==
  LET given == SelectSeq(labels, LAMBDA l : l # Nobody)
      seconds(l) == Cardinality({i \in DOMAIN given : given[i] = l})
      first(l) == CHOOSE i \in DOMAIN given : given[i] = l /\ \A j \in 1..(i - 1) : given[j] # l IN
  IF given = <<>> THEN Nobody
  ELSE CHOOSE l \in ToSet(given) : \A m \in ToSet(given) :
         \/ seconds(l) > seconds(m)
         \/ seconds(l) = seconds(m) /\ first(l) <= first(m)

(* What a vendor says of the words of [from, to]: its stream numbers voices as
   it hears them through the session, as the room here does, and a call those of
   its own audio. *)
Vendor(d, giver, from, to) ==
  LET span == SubSeq(d.room, from, to)
      called == Heard(<<>>, span)
      number(v) == IF giver = Stream THEN v ELSE CHOOSE n \in DOMAIN called : called[n] = v IN
  CASE d.mode = Wordless -> <<>>
    [] OTHER -> [i \in DOMAIN span |-> <<giver, number(span[i])>>]

(* The diarizer's segments, which begin at a second of the session, put on the
   words they overlap; a word without one keeps its vendor's label, and votes
   with it.  Without an answer the event stays what the vendor made of it. *)
Assigned(f, at, segments, event) ==
  LET spoken(s) == IF s - at + 1 \in DOMAIN segments THEN segments[s - at + 1] ELSE Nobody
      span == [i \in 1..(f.to - f.from + 1) |-> spoken(f.from + i - 1)]
      who == [i \in DOMAIN event.who |-> IF span[i] # Nobody THEN span[i] ELSE event.who[i]]
      votes == <<Dominant(who), Dominant(span), event.speaker>> IN
  [who |-> who, speaker |-> FirstLabelled(votes)]

(* A publication is upserted on its turn. *)
Publish(d, n, labels, heard) ==
  LET f == d.finals[n] IN
  [d EXCEPT !.rows[f.turn] = [final |-> n, from |-> f.from, heard |-> heard,
                              who |-> labels.who, speaker |-> labels.speaker]]

(* What a stream publishes of a turn: its words, and no speaker. *)
Streamed(d, f) == [who |-> Vendor(d, Stream, f.from, f.to), speaker |-> Nobody]

(* A final goes out, inline with the speaker its own words give, and otherwise
   a task takes what is held of its audio to the diarizer. *)
PublishFinal(d, f) ==
  LET n == Len(d.finals) + 1
      told == [d EXCEPT !.finals = Append(@, f)]
      event == Streamed(d, f)
      clip == ClipFrom(d, f.from)
      task == [of |-> n, at |-> clip, answer |-> <<>>, gen |-> 0] IN
  IF d.mode = Inline THEN Publish(told, n, Assigned(f, f.from, event.who, event), 0)
  ELSE [Publish(told, n, event, 0) EXCEPT !.tasks = IF clip > f.to THEN @ ELSE @ \cup {task}]

LastTurn(d) == IF d.finals = <<>> THEN [turn |-> 0, to |-> 0, again |-> FALSE] ELSE Last(d.finals)

(* A vendor closes a turn, some time after it was spoken. *)
Finals ==
  /\ desk.path = "streams" /\ LastTurn(desk).turn < MaxFinals
  /\ \E from, to \in (LastTurn(desk).to + 1)..Now(desk) :
       /\ from <= to
       /\ desk' = PublishFinal(desk, [turn |-> LastTurn(desk).turn + 1, from |-> from, to |-> to,
                                      again |-> FALSE])

(* A vendor that closes a turn a second time, with better text. *)
Revises ==
  /\ desk.path = "streams" /\ LastTurn(desk).turn > 0 /\ ~LastTurn(desk).again
  /\ desk' = PublishFinal(desk, [LastTurn(desk) EXCEPT !.again = TRUE])

(* The service matches a call's voices against those it knows. *)
Hears(d, voices) == Heard(d.known, voices)

Numbers(known, voices) ==
  [i \in DOMAIN voices |-> <<Bank, CHOOSE n \in DOMAIN known : known[n] = voices[i]>>]

Diarizes ==
  \E t \in desk.tasks :
    LET clip == SubSeq(desk.room, t.at, desk.finals[t.of].to)
        known == Hears(desk, clip) IN
    /\ t.gen = 0
    /\ desk' = [desk EXCEPT !.known = known,
                  !.tasks = (@ \ {t}) \cup
                    {[t EXCEPT !.gen = desk.gen, !.answer = Numbers(known, clip)]}]

NoteGeneration(d, gen) ==
  [d EXCEPT !.seen = gen, !.warned = @ \/ (d.seen # 0 /\ d.seen # gen)]

(* An answer arrives: the turn is published again, as it was then. *)
Labelled ==
  \E t \in desk.tasks :
    /\ t.gen # 0
    /\ LET f == desk.finals[t.of] IN
       desk' = [Publish(NoteGeneration(desk, t.gen), t.of,
                        Assigned(f, SentFrom(f, t), t.answer, Streamed(desk, f)), t.at)
                EXCEPT !.tasks = @ \ {t}]

(* A timeout, an error, or nothing recognised: the row stays as it is. *)
GivesUp == \E t \in desk.tasks : desk' = [desk EXCEPT !.tasks = @ \ {t}]

(* The service restarts, its memory with it. *)
Restarts ==
  /\ desk.known # <<>> /\ desk.gen <= MaxRestarts
  /\ desk' = [desk EXCEPT !.gen = @ + 1, !.known = <<>>]

(* The path has ended; the labels in flight get a moment, then are dropped. *)
PathEnds ==
  /\ desk.path = "streams"
  /\ desk' = [desk EXCEPT !.path = "drains"]

DropLabels(d) == [d EXCEPT !.tasks = {}]

(* The session goes on utterance by utterance, each one labelled before it is
   published, or closes, and with it the diarizer, which forgets. *)
Drained ==
  /\ desk.path = "drains"
  /\ \E next \in {"utterances", "over"} :
       desk' = [DropLabels(desk) EXCEPT !.path = next,
                  !.known = IF next = "over" THEN <<>> ELSE @]

(* An utterance brings its own audio: its turn is published once, with the
   diarizer's answer, or as the call made it where there was none. *)
Utterance ==
  /\ desk.path = "utterances" /\ LastTurn(desk).turn < MaxFinals
  /\ \E from, to \in (LastTurn(desk).to + 1)..Now(desk), answered \in BOOLEAN :
       LET f == [turn |-> LastTurn(desk).turn + 1, from |-> from, to |-> to, again |-> FALSE]
           told == [desk EXCEPT !.finals = Append(@, f)]
           n == Len(told.finals)
           pcm == SubSeq(desk.room, from, to)
           known == Hears(desk, pcm)
           words == Vendor(desk, f.turn, from, to)
           event == [who |-> words, speaker |-> FirstLabelled(words)] IN
       /\ from <= to
       /\ desk' = IF desk.mode = Inline THEN Publish(told, n, Assigned(f, from, words, event), 0)
                  ELSE IF ~answered THEN Publish(told, n, event, 0)
                  ELSE [Publish(NoteGeneration(told, desk.gen), n,
                                Assigned(f, from, Numbers(known, pcm), event), from)
                        EXCEPT !.known = known]

DeskNext ==
  \/ Captures \/ Finals \/ Revises \/ Diarizes \/ Labelled \/ GivesUp
  \/ Restarts \/ PathEnds \/ Drained \/ Utterance
=============================================================================
