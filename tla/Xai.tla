-------------------------------- MODULE Xai --------------------------------
(***************************************************************************)
(* stt/backends/xai.py, the streaming shape.  text is cumulative, and the  *)
(* documentation says two ways over what: svc.whole is one of them, chosen *)
(* when the connection opens.  Word offsets count from the stream's start. *)
(***************************************************************************)
EXTENDS TurnBook

CONSTANTS MaxWords       \* words heard on one connection

Vocabulary == {1, 2}

VARIABLES conn, svc, said, book, ended

vars == <<conn, svc, said, book, ended>>

Init ==
  /\ conn = [text |-> <<>>, until |-> 0, open |-> FALSE]
  /\ svc \in [whole : BOOLEAN, words : {<<>>}, from : {1}, opened : {0}, last : {<<>>}]
  /\ said = {} /\ book = EmptyBook /\ ended = "no"

Texts(words) == [i \in DOMAIN words |-> words[i].word]

(* Only a strictly longer text is stripped of what is settled. *)
Since(settled, text) ==
  IF settled = <<>> \/ Len(text) <= Len(settled) \/ ~IsPrefix(settled, text) THEN text
  ELSE SubSeq(text, Len(settled) + 1, Len(text))

TurnWords(c, words) == Chosen(words, {i \in DOMAIN words : words[i].end > c.until})

OpenTurn(c, at) == IF c.open THEN <<>> ELSE <<Started(NoRef, at)>>

(* _partial *)
PartialSignals(c, m) ==
  LET words == TurnWords(c, m.words)
      text  == Since(c.text, Texts(m.words))
  IN IF ~m.last
     THEN IF text = <<>> THEN [conn |-> c, signals |-> <<Alive>>]
          ELSE [conn    |-> [c EXCEPT !.open = TRUE],
                signals |-> Append(OpenTurn(c, m.start), Partial(NoRef, text, FALSE))]
     ELSE [conn    |-> [text |-> Texts(m.words), open |-> FALSE,
                        until |-> IF words = <<>> THEN c.until ELSE words[Len(words)].end],
           signals |-> Append(OpenTurn(c, m.start), Final(NoRef, text, words))]

Hears(t) ==
  /\ ended = "no" /\ conn' = t.conn /\ book' = ApplyAll(book, t.signals)
  /\ UNCHANGED ended

-----------------------------------------------------------------------------
Turn == SubSeq(svc.words, svc.from, Len(svc.words))

Message(words, start, last) ==
  [words |-> IF svc.whole THEN words ELSE SubSeq(words, svc.from, Len(words)),
   start |-> start, last |-> last]

(* One more word of the turn.  Where the turn began may be revised. *)
Grows ==
  /\ Len(svc.words) < MaxWords
  /\ \E word \in Vocabulary, shift \in {0, 1} :
       LET words == Append(svc.words, [word |-> word, end |-> Len(svc.words) + 1])
           start == 2 * svc.from + shift
       IN /\ svc' = [svc EXCEPT !.words = words, !.opened = IF @ = 0 THEN start ELSE @]
          /\ Hears(PartialSignals(conn, Message(words, start, FALSE)))
  /\ UNCHANGED said

(* speech_final, by endpointing or by finalize.  Read per utterance, a turn
   that extends the one before it verbatim loses its opening: the documented
   price, left out here. *)
Closes ==
  /\ Turn # <<>>
  /\ svc.whole \/ ~IsStrictPrefix(svc.last, Texts(Turn)) \/ svc.last = <<>>
  /\ \E shift \in {0, 1} :
       Hears(PartialSignals(conn, Message(svc.words, 2 * svc.from + shift, TRUE)))
  /\ said' = said \cup {[handle |-> Handle(NoRef, svc.opened), text |-> Texts(Turn), words |-> Turn]}
  /\ svc' = [svc EXCEPT !.from = Len(svc.words) + 1, !.opened = 0, !.last = Texts(Turn)]

(* transcript.done, an error frame, or the socket's end. *)
Hangup ==
  /\ ended = "no" /\ ended' = "socket" /\ book' = SettledBook(book)
  /\ UNCHANGED <<conn, svc, said>>

Next == Grows \/ Closes \/ Hangup
=============================================================================
