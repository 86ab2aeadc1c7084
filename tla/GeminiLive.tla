----------------------------- MODULE GeminiLive -----------------------------
(***************************************************************************)
(* stt/backends/gemini_live.py, _StreamTurns and signals(): the service    *)
(* names no turns, may complete one it never finalized and finalize it     *)
(* late, and announces with goAway that the session is about to end.       *)
(***************************************************************************)
EXTENDS TurnBook

CONSTANTS MaxTurns

VARIABLES conn, svc, said, book, ended

vars == <<conn, svc, said, book, ended>>

Init ==
  /\ conn = [interim |-> <<>>, owes |-> FALSE, turn |-> 1, over |-> FALSE,
             provisional |-> FALSE, goAway |-> FALSE]
  /\ svc = [turn |-> 1, shown |-> FALSE, final |-> FALSE, done |-> FALSE]
  /\ said = {} /\ book = EmptyBook /\ ended = "no"

NextTurn(c) == [c EXCEPT !.turn = @ + 1, !.over = FALSE, !.provisional = FALSE]

(* A final of a turn the service has ended and settled is the next one's. *)
Settle(c, text) ==
  LET n == IF c.over /\ ~c.provisional THEN NextTurn(c) ELSE c
  IN [conn    |-> [n EXCEPT !.interim = <<>>, !.owes = FALSE, !.provisional = FALSE],
      signals |-> <<Final(n.turn, text, <<>>)>>]

Revise(c, text) ==
  LET n == IF c.over THEN NextTurn(c) ELSE c
  IN [conn    |-> [n EXCEPT !.interim = text, !.owes = TRUE],
      signals |-> <<Partial(n.turn, text, FALSE)>>]

(* generationComplete: a turn still owed its text gets the newest interim. *)
CloseTurn(c) ==
  LET owed == c.owes /\ c.interim # <<>>
  IN [conn    |-> [c EXCEPT !.interim = <<>>, !.owes = FALSE, !.over = TRUE,
                            !.provisional = owed \/ @],
      signals |-> IF owed THEN <<Final(c.turn, c.interim, <<>>)>> ELSE <<Alive>>]

(* signals(): after goAway, the reader leaves as soon as no turn is owed. *)
Hears(t) ==
  /\ ended = "no" /\ conn' = t.conn
  /\ LET b == ApplyAll(book, t.signals) IN
     IF t.conn.goAway /\ ~t.conn.owes
     THEN ended' = "left" /\ book' = SettledBook(b)
     ELSE book' = b /\ UNCHANGED ended

Told(n, text) ==
  {t \in said : t.handle # Handle(n, 0)} \cup
    {[handle |-> Handle(n, 0), text |-> text, words |-> <<>>]}

-----------------------------------------------------------------------------
(* What the service has begun to tell and not settled. *)
MidTurn == svc.shown /\ ~svc.final /\ ~svc.done

ComingTurn == [turn |-> svc.turn + 1, shown |-> FALSE, final |-> FALSE, done |-> FALSE]

Interim ==
  LET s == IF svc.done THEN ComingTurn ELSE svc IN
  /\ s.turn <= MaxTurns /\ ~s.final
  /\ svc' = [s EXCEPT !.shown = TRUE]
  /\ Hears(Revise(conn, <<-s.turn>>)) /\ UNCHANGED said

(* inputTranscription: in its turn, late for a turn already completed, or as
   all there is of a short one. *)
Finalizes ==
  LET s == IF svc.done /\ svc.final THEN ComingTurn ELSE svc IN
  /\ s.turn <= MaxTurns /\ ~s.final
  /\ svc' = [s EXCEPT !.final = TRUE]
  /\ said' = Told(s.turn, <<s.turn>>)
  /\ Hears(Settle(conn, <<s.turn>>))

Completes ==
  /\ svc.shown \/ svc.final
  /\ ~svc.done /\ svc' = [svc EXCEPT !.done = TRUE]
  /\ said' = IF svc.final THEN said ELSE Told(svc.turn, <<-svc.turn>>)
  /\ Hears(CloseTurn(conn))

GoesAway ==
  /\ ~conn.goAway
  /\ Hears([conn |-> [conn EXCEPT !.goAway = TRUE], signals |-> <<Alive>>])
  /\ UNCHANGED <<svc, said>>

(* The deadline before goAway's own, in a room that has gone quiet mid-turn. *)
Deadline ==
  /\ conn.goAway /\ ended = "no" /\ ended' = "deadline" /\ book' = SettledBook(book)
  /\ UNCHANGED <<conn, svc, said>>

Hangup ==
  /\ ended = "no" /\ ended' = "socket" /\ book' = SettledBook(book)
  /\ UNCHANGED <<conn, svc, said>>

Next == Interim \/ Finalizes \/ Completes \/ GoesAway \/ Deadline \/ Hangup
=============================================================================
