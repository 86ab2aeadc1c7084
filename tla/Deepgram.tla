------------------------------ MODULE Deepgram ------------------------------
(***************************************************************************)
(* stt/backends/deepgram.py, _TurnState: one turn is several Results.      *)
(*                                                                         *)
(* svc is the service: the segment it is hearing, what it has settled of   *)
(* the turn, what it showed and never settled.  said is what it has told   *)
(* of the turns it closed.  Segment n begins at second n and its text is   *)
(* <<n>>; <<-n>> is what an interim of it reads.                           *)
(***************************************************************************)
EXTENDS TurnBook

CONSTANTS MaxSegs        \* segments heard on one connection

VARIABLES conn, svc, said, book, ended

vars == <<conn, svc, said, book, ended>>

NoTurn == [open |-> FALSE, start |-> 0, parts |-> <<>>, interim |-> <<>>]

NoSpeech == [seg |-> 1, turn |-> <<>>, from |-> 0, hang |-> <<>>, lastEnd |-> 0]

Init ==
  /\ conn = NoTurn /\ svc = NoSpeech /\ said = {}
  /\ book = EmptyBook /\ ended = "no"

TurnText(c) == c.parts \o c.interim

(* _results and _close: [conn, signals] *)
Results(c, m) ==
  LET opens == m.text # <<>> /\ ~c.open
      o == IF opens THEN [c EXCEPT !.open = TRUE, !.start = m.start] ELSE c
      h == IF m.final
           THEN [o EXCEPT !.parts = @ \o m.text, !.interim = IF m.text # <<>> THEN <<>> ELSE @]
           ELSE [o EXCEPT !.interim = IF m.text # <<>> THEN m.text ELSE @]
      start == IF opens THEN <<Started(NoRef, m.start)>> ELSE <<>>
  IN IF ~h.open THEN [conn |-> h, signals |-> start]
     ELSE IF m.last
     THEN [conn |-> NoTurn, signals |-> Append(start, Final(NoRef, TurnText(h), h.parts))]
     ELSE [conn |-> h, signals |-> IF m.text # <<>>
                                   THEN Append(start, Partial(NoRef, TurnText(h), FALSE))
                                   ELSE start]

UtteranceEndAnyTime(c, end) ==
  IF ~c.open THEN [conn |-> c, signals |-> <<>>]
  ELSE [conn |-> NoTurn, signals |-> <<Final(NoRef, TurnText(c), c.parts)>>]

(* A gap between words closes the turn endpointing did not; one that names a
   time before the open turn is about an earlier one. *)
UtteranceEnd(c, end) ==
  IF ~c.open \/ end <= c.start THEN [conn |-> c, signals |-> <<>>]
  ELSE [conn |-> NoTurn, signals |-> <<Final(NoRef, TurnText(c), c.parts)>>]

(* signals(): what a frame means reaches the stream in the order it came. *)
Hears(t) ==
  /\ ended = "no"
  /\ conn' = t.conn /\ book' = ApplyAll(book, t.signals)
  /\ UNCHANGED ended

Told(turn, hang, from) ==
  IF turn \o hang = <<>> THEN said
  ELSE said \cup {[handle |-> Handle(NoRef, from), text |-> turn \o hang, words |-> turn]}

-----------------------------------------------------------------------------
(* What the service may send. *)

From == IF svc.from = 0 THEN svc.seg ELSE svc.from

Interim ==
  /\ svc.seg <= MaxSegs
  /\ svc' = [svc EXCEPT !.hang = <<-svc.seg>>, !.from = From]
  /\ Hears(Results(conn, [text |-> <<-svc.seg>>, start |-> svc.seg, final |-> FALSE, last |-> FALSE]))
  /\ UNCHANGED said

(* A settled segment, perhaps without text, perhaps the turn's end:
   speech_final, or from_finalize after the client's Finalize. *)
Locks(text, last) ==
  LET turn == svc.turn \o text
      hang == IF text # <<>> THEN <<>> ELSE svc.hang
      from == IF text # <<>> THEN From ELSE svc.from
  IN /\ svc.seg <= MaxSegs
     /\ svc' = [seg |-> svc.seg + 1, turn |-> IF last THEN <<>> ELSE turn,
                from |-> IF last THEN 0 ELSE from, hang |-> IF last THEN <<>> ELSE hang,
                lastEnd |-> IF last /\ turn \o hang # <<>> THEN svc.seg + 1 ELSE svc.lastEnd]
     /\ said' = IF last THEN Told(turn, hang, from) ELSE said
     /\ Hears(Results(conn, [text |-> text, start |-> svc.seg, final |-> TRUE, last |-> last]))

Segment == \E text \in {<<>>, <<svc.seg>>}, last \in BOOLEAN : Locks(text, last)

(* UtteranceEnd about the turn still open: what was not settled is not coming. *)
GapEnds ==
  /\ svc.turn \o svc.hang # <<>>
  /\ LET n == IF svc.hang = <<-svc.seg>> THEN svc.seg + 1 ELSE svc.seg IN
     /\ svc' = [NoSpeech EXCEPT !.seg = n, !.lastEnd = n]
     /\ Hears(UtteranceEnd(conn, n))
  /\ said' = Told(svc.turn, svc.hang, svc.from)

(* UtteranceEnd about a turn already closed, with its time or the marker. *)
LateEnd ==
  /\ svc.lastEnd > 0
  /\ \E end \in {-1, svc.lastEnd} : Hears(UtteranceEnd(conn, end))
  /\ UNCHANGED <<svc, said>>

(* An error frame, or the socket's end. *)
Hangup ==
  /\ ended = "no" /\ ended' = "socket" /\ book' = SettledBook(book)
  /\ UNCHANGED <<conn, svc, said>>

Next == Interim \/ Segment \/ GapEnds \/ LateEnd \/ Hangup
=============================================================================
