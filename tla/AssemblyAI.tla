----------------------------- MODULE AssemblyAI -----------------------------
(***************************************************************************)
(* stt/backends/assemblyai.py, the streaming shape after its Begin frame.  *)
(*                                                                         *)
(* The service numbers its turns, may send a settled turn again formatted  *)
(* (<<n, 0>> for <<n>>), revises speaker labels at the end, and cuts the   *)
(* session at an instant it announced.  A turn's words are its label.      *)
(***************************************************************************)
EXTENDS TurnBook

CONSTANTS MaxTurns       \* turns heard on one connection

VARIABLES conn, svc, said, book, ended

vars == <<conn, svc, said, book, ended>>

(* The settled texts by turn_order, for a revision to republish. *)
NoFinals == [n \in 1..MaxTurns |-> <<>>]

Init ==
  /\ conn = [turnOpen |-> FALSE, finals |-> NoFinals]
  /\ svc = [turn |-> 1, heard |-> FALSE, resent |-> TRUE, cap |-> "far", mic |-> "on",
            label |-> 0]
  /\ said = {} /\ book = EmptyBook /\ ended = "no"

(* _turn_signals *)
TurnSignals(n, text, words, end) ==
  IF end THEN <<Final(n, text, words)>> ELSE <<Started(n, n), Partial(n, text, FALSE)>>

(* _revision_signals: a revision re-states words, never the text. *)
Revised(c, orders, words) ==
  LET known == Chosen(orders, {i \in DOMAIN orders : c.finals[orders[i]] # <<>>})
  IN [i \in DOMAIN known |-> Final(known[i], c.finals[known[i]], words)]

(* _frames: between turns, the next read ends at the session's own cap. *)
Expiring == svc.cap = "due" /\ ~conn.turnOpen

Hears(c, signals) ==
  /\ ended = "no" /\ ~Expiring
  /\ conn' = c /\ book' = ApplyAll(book, signals)

HearsTurn(n, text, words, end) ==
  /\ Hears([turnOpen |-> ~end, finals |-> IF end THEN [conn.finals EXCEPT ![n] = text]
                                          ELSE conn.finals],
           TurnSignals(n, text, words, end))
  /\ UNCHANGED ended

Told(n, text, words) ==
  {t \in said : t.handle # Handle(n, 0)} \cup
    {[handle |-> Handle(n, 0), text |-> text, words |-> words]}

-----------------------------------------------------------------------------
MidTurn == svc.heard

SpeechStarted ==
  /\ svc.turn <= MaxTurns /\ svc.mic # "terminated" /\ ~svc.heard
  /\ svc' = [svc EXCEPT !.heard = TRUE, !.resent = TRUE]
  /\ Hears([conn EXCEPT !.turnOpen = TRUE], <<Alive>>)
  /\ UNCHANGED <<said, ended>>

TurnGrows ==
  /\ svc.turn <= MaxTurns /\ (svc.heard \/ svc.mic # "terminated")
  /\ svc' = [svc EXCEPT !.heard = TRUE, !.resent = TRUE]
  /\ HearsTurn(svc.turn, <<-svc.turn>>, <<>>, FALSE)
  /\ UNCHANGED said

TurnEnds ==
  /\ svc.heard
  /\ svc' = [svc EXCEPT !.turn = @ + 1, !.heard = FALSE, !.resent = FALSE]
  /\ said' = Told(svc.turn, <<svc.turn>>, <<svc.label>>)
  /\ HearsTurn(svc.turn, <<svc.turn>>, <<svc.label>>, TRUE)

(* format_turns: the turn just ended, sent once more. *)
TurnFormatted ==
  /\ ~svc.resent /\ svc' = [svc EXCEPT !.resent = TRUE]
  /\ LET n == svc.turn - 1 IN
     /\ said' = Told(n, <<n, 0>>, <<svc.label>>)
     /\ HearsTurn(n, <<n, 0>>, <<svc.label>>, TRUE)

(* flush_input *)
Terminates ==
  /\ svc.mic = "on" /\ svc' = [svc EXCEPT !.mic = "terminated"]
  /\ UNCHANGED <<conn, said, book, ended>>

(* The speaker pass: of every turn, the last one perhaps before its final. *)
SpeakerRevision ==
  /\ svc.mic = "terminated" /\ svc.label = 0
  /\ svc' = [svc EXCEPT !.label = 1, !.resent = TRUE]
  /\ said' = {[t EXCEPT !.words = <<1>>] : t \in said}
  /\ LET last == IF svc.heard THEN svc.turn ELSE svc.turn - 1
     IN Hears(conn, Revised(conn, [n \in 1..last |-> n], <<1>>))
  /\ UNCHANGED ended

(* Termination and an Error frame end the reading alike. *)
Stops ==
  /\ svc.mic = "terminated" => ~svc.heard
  /\ ended = "no" /\ ~Expiring /\ ended' = "socket" /\ book' = SettledBook(book)
  /\ UNCHANGED <<conn, svc, said>>

CapNears ==
  /\ svc.cap = "far" /\ ended = "no" /\ svc' = [svc EXCEPT !.cap = "due"]
  /\ UNCHANGED <<conn, said, book, ended>>

Leaves ==
  /\ Expiring /\ ended = "no" /\ ended' = "left" /\ book' = SettledBook(book)
  /\ UNCHANGED <<conn, svc, said>>

(* The instant itself, a margin after the deadline a reader leaves at. *)
ServerCuts ==
  /\ svc.cap = "due" /\ ~Expiring /\ ended = "no"
  /\ ended' = "cut" /\ book' = SettledBook(book)
  /\ UNCHANGED <<conn, svc, said>>

Next ==
  \/ SpeechStarted \/ TurnGrows \/ TurnEnds \/ TurnFormatted \/ Terminates
  \/ SpeakerRevision \/ Stops \/ CapNears \/ Leaves \/ ServerCuts
=============================================================================
