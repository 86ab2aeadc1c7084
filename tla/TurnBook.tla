------------------------------ MODULE TurnBook ------------------------------
(***************************************************************************)
(* The books TranscriptStream keeps of one connection's turns              *)
(* (stt/streaming.py): which turns are open, which are settled, and the    *)
(* transcript rows their interims and finals are written under.  A         *)
(* connector's signals are applied to them one at a time.                  *)
(*                                                                         *)
(* A text is a sequence of tokens.  ref 0 is a vendor that names no turns. *)
(* Throttling, timestamps and the caps on the books are left out.          *)
(***************************************************************************)
EXTENDS Integers, Sequences, SequencesExt

NoRef == 0

Started(ref, at)          == [sig |-> "started", ref |-> ref, at |-> at]
Partial(ref, text, append) == [sig |-> "partial", ref |-> ref, text |-> text, append |-> append]
Final(ref, text, words)   == [sig |-> "final", ref |-> ref, text |-> text, words |-> words]
Ended(ref)                == [sig |-> "ended", ref |-> ref]
Alive                     == [sig |-> "alive"]

EmptyBook == [open |-> <<>>, closed |-> {}, rows |-> <<>>]

(* The vendor's name for the turn, or where it began. *)
Handle(ref, at) == <<ref, IF ref = NoRef THEN at ELSE 0>>

Put(rows, row) ==
  IF \E i \in DOMAIN rows : rows[i].handle = row.handle
  THEN [i \in DOMAIN rows |-> IF rows[i].handle = row.handle THEN row ELSE rows[i]]
  ELSE Append(rows, row)

(* An empty text is not a segment. *)
Emit(rows, handle, text, words, final) ==
  IF text = <<>> THEN rows
  ELSE Put(rows, [handle |-> handle, text |-> text, words |-> words, final |-> final])

Resolve(book, ref) == IF ref # NoRef \/ book.open = <<>> THEN ref ELSE book.open[1].ref

OpenAt(book, key) == {i \in DOMAIN book.open : book.open[i].ref = key}

Opened(book, ref, at) ==
  LET key == Resolve(book, ref) IN
  IF OpenAt(book, key) # {} THEN book
  ELSE [book EXCEPT !.open = Append(@, [ref |-> key, handle |-> Handle(key, at), text |-> <<>>])]

PlaceOf(book, key) == CHOOSE i \in OpenAt(book, key) : TRUE

GrownAt(book, i, s) ==
  LET text == IF s.append THEN book.open[i].text \o s.text ELSE s.text
  IN [book EXCEPT !.open[i].text = text,
                  !.rows = Emit(@, book.open[i].handle, text, <<>>, FALSE)]

(* A late partial of a settled turn must not reopen it. *)
Grown(book, s) ==
  IF s.ref # NoRef /\ s.ref \in book.closed THEN book
  ELSE LET b == Opened(book, s.ref, -1)
       IN GrownAt(b, PlaceOf(b, Resolve(b, s.ref)), s)

(* An empty final settles the turn with its last interim. *)
Closed(book, s) ==
  LET key  == Resolve(book, s.ref)
      at   == OpenAt(book, key)
      turn == IF at = {} THEN [ref |-> key, handle |-> Handle(key, -1), text |-> <<>>]
              ELSE book.open[PlaceOf(book, key)]
      text == IF s.text = <<>> THEN turn.text ELSE s.text
  IN [open   |-> IF at = {} THEN book.open ELSE RemoveAt(book.open, PlaceOf(book, key)),
      closed |-> IF key = NoRef THEN book.closed ELSE book.closed \cup {key},
      rows   |-> Emit(book.rows, turn.handle, text, s.words, TRUE)]

Applied(book, s) ==
  CASE s.sig = "started" -> Opened(book, s.ref, s.at)
    [] s.sig = "partial" -> Grown(book, s)
    [] s.sig = "final"   -> Closed(book, s)
    [] OTHER             -> book

ApplyAll(book, signals) ==
  LET after[n \in 0..Len(signals)] ==
        IF n = 0 THEN book ELSE Applied(after[n - 1], signals[n])
  IN after[Len(signals)]

SettledBookForgets(book) == [book EXCEPT !.open = <<>>]

(* _settle_open, however the connection ended. *)
SettledBook(book) ==
  LET rows[n \in 0..Len(book.open)] ==
        IF n = 0 THEN book.rows
        ELSE Emit(rows[n - 1], book.open[n].handle, book.open[n].text, <<>>, TRUE)
  IN [open   |-> <<>>,
      closed |-> book.closed \cup {book.open[i].ref : i \in DOMAIN book.open},
      rows   |-> rows[Len(book.open)]]

(* The elements of a list at some of its positions, in order. *)
Chosen(list, positions) ==
  LET upTo[n \in 0..Len(list)] ==
        IF n = 0 THEN <<>>
        ELSE IF n \in positions THEN Append(upTo[n - 1], list[n]) ELSE upTo[n - 1]
  IN upTo[Len(list)]
=============================================================================
