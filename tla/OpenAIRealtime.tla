--------------------------- MODULE OpenAIRealtime ---------------------------
(***************************************************************************)
(* stt/backends/openai_realtime.py, the streaming shape.  The service      *)
(* names its items; the text of one may come after the next one began, and *)
(* words of one after its text.                                            *)
(***************************************************************************)
EXTENDS TurnBook

CONSTANTS MaxTurns, MaxDeltas     \* items, and increments of each

VARIABLES conn, svc, said, book, ended

vars == <<conn, svc, said, book, ended>>

Items == 1..MaxTurns

Init ==
  /\ conn = "stateless"
  /\ svc = [n \in Items |-> [phase |-> "unheard", deltas |-> 0]]
  /\ said = {} /\ book = EmptyBook /\ ended = "no"

(* signals(): every message is a signal of its own. *)
Hears(signal) ==
  /\ ended = "no" /\ book' = Applied(book, signal)
  /\ UNCHANGED <<conn, ended>>

Delta(n, k) == 10 * n + k

Deltas(n, k) == [i \in 1..k |-> Delta(n, i)]

Told(n, text) ==
  IF text = <<>> THEN said
  ELSE said \cup {[handle |-> Handle(n, 0), text |-> text, words |-> <<>>]}

-----------------------------------------------------------------------------
Moves(n, from, to) == svc[n].phase = from /\ svc' = [svc EXCEPT ![n].phase = to]

SpeechStarted ==
  \E n \in Items :
    /\ \A k \in 1..(n - 1) : svc[k].phase \notin {"unheard", "speaking"}
    /\ Moves(n, "unheard", "speaking")
    /\ Hears(Started(n, n)) /\ UNCHANGED said

SpeechStopped ==
  \E n \in Items :
    /\ Moves(n, "speaking", "stopped")
    /\ Hears(Ended(n)) /\ UNCHANGED said

(* An increment, perhaps one that was on its way when the item settled. *)
Increment ==
  \E n \in Items :
    /\ svc[n].phase # "unheard" /\ svc[n].deltas < MaxDeltas
    /\ svc' = [svc EXCEPT ![n].deltas = @ + 1]
    /\ Hears(Partial(n, <<Delta(n, svc[n].deltas + 1)>>, TRUE))
    /\ UNCHANGED said

Completed ==
  \E n \in Items :
    /\ Moves(n, "stopped", "done") /\ said' = Told(n, <<n>>)
    /\ Hears(Final(n, <<n>>, <<>>))

(* Bad news about one item: what it said so far is its text. *)
Failed ==
  \E n \in Items :
    /\ Moves(n, "stopped", "done") /\ said' = Told(n, Deltas(n, svc[n].deltas))
    /\ Hears(Final(n, <<>>, <<>>))

(* An error frame, a commit with nothing buffered, or the socket's end. *)
Hangup ==
  /\ ended = "no" /\ ended' = "socket" /\ book' = SettledBook(book)
  /\ UNCHANGED <<conn, svc, said>>

Next ==
  \/ SpeechStarted \/ SpeechStopped \/ Increment \/ Completed \/ Failed \/ Hangup
=============================================================================
