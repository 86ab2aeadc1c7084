----------------------------- MODULE BookProofs ------------------------------
(***************************************************************************)
(* Lemmas about the books of one connection's turns (TurnBook): what each  *)
(* signal does to the rows and to the open turns, and that nothing is left *)
(* an interim when the books are settled; for any texts and any number of  *)
(* turns.                                                                  *)
(*                                                                         *)
(* The books fold a connector's signals and its open turns.  What a fold   *)
(* does is an induction over its length, and the induction is made from    *)
(* the least length it would fail at (Least, Climb, Recursion).            *)
(***************************************************************************)
EXTENDS TurnBook, FiniteSets, FiniteSetTheorems, WellFoundedInduction, SequenceTheorems, TLAPS

-----------------------------------------------------------------------------
(* Induction along an interval, without a predicate for a parameter. *)

LEMMA Least ==
  ASSUME NEW T \in SUBSET Nat, T # {}
  PROVE  \E x \in T : \A y \in T : x <= y
<1> DEFINE U == {1..n : n \in T}
<1>1. IsWellFoundedOn(StrictSubsetOrdering(Nat), FiniteSubsetsOf(Nat))
  BY FS_StrictSubsetOrderingWellFounded
<1>2. U \subseteq FiniteSubsetsOf(Nat)
  <2> SUFFICES ASSUME NEW n \in T PROVE 1..n \in FiniteSubsetsOf(Nat)
    OBVIOUS
  <2>1. IsFiniteSet(1..n) /\ 1..n \in SUBSET Nat
    BY FS_Interval
  <2> QED BY <2>1 DEF FiniteSubsetsOf
<1>3. \E u \in U : \A v \in U : ~(<<v, u>> \in StrictSubsetOrdering(Nat))
  <2>1. U # {}
    OBVIOUS
  <2> HIDE DEF U
  <2> QED BY <1>1, <1>2, <2>1, WFMin
<1>4. PICK x \in T : \A y \in T : ~(<<1..y, 1..x>> \in StrictSubsetOrdering(Nat))
  BY <1>3
<1>5. ASSUME NEW y \in T, y < x PROVE FALSE
  <2>1. 1..y \subseteq 1..x /\ 1..y # 1..x
    <3>1. 1..y \subseteq 1..x /\ x \in 1..x /\ x \notin 1..y
      BY <1>5
    <3> QED BY <3>1
  <2>2. 1..y \in SUBSET Nat /\ 1..x \in SUBSET Nat
    OBVIOUS
  <2>3. <<1..y, 1..x>> \in StrictSubsetOrdering(Nat)
    BY <2>1, <2>2 DEF StrictSubsetOrdering
  <2> QED BY <2>3, <1>4
<1> QED BY <1>5

LEMMA Climb ==
  ASSUME NEW N \in Nat, NEW P, 0 \in P, \A n \in 0..(N - 1) : n \in P => n + 1 \in P
  PROVE  \A n \in 0..N : n \in P
<1> DEFINE T == {n \in 0..N : n \notin P}
<1>1. ASSUME T # {} PROVE FALSE
  <2>1. T \in SUBSET Nat
    OBVIOUS
  <2>2. PICK x \in T : \A y \in T : x <= y
    BY <1>1, <2>1, Least
  <2>3. x # 0
    OBVIOUS
  <2>4. x - 1 \notin T /\ x - 1 \in 0..(N - 1)
    BY <2>2, <2>3
  <2>5. x - 1 + 1 \in P
    BY <2>4
  <2> QED BY <2>5
<1> QED BY <1>1

(* What is computed one element after another exists. *)
Computes(f, S, base, N, step) ==
  f \in [0..N -> S] /\ \A n \in 0..N : f[n] = IF n = 0 THEN base ELSE step[<<f[n - 1], n>>]

LEMMA Recursion ==
  ASSUME NEW S, NEW base \in S, NEW N \in Nat, NEW step \in [S \X (1..N) -> S]
  PROVE  \E f : Computes(f, S, base, N, step)
<1> DEFINE Good(f, m) == \A n \in 0..m : f[n] = IF n = 0 THEN base ELSE step[<<f[n - 1], n>>]
           P == {m \in 0..N : \E f \in [0..m -> S] : Good(f, m)}
<1>1. 0 \in P
  <2> DEFINE f == [n \in 0..0 |-> base]
  <2>1. f \in [0..0 -> S]
    OBVIOUS
  <2>2. Good(f, 0)
    OBVIOUS
  <2>3. \E g \in [0..0 -> S] : Good(g, 0)
    <3> HIDE DEF f, Good
    <3> QED BY <2>1, <2>2
  <2> HIDE DEF Good
  <2> QED BY <2>3
<1>2. ASSUME NEW m \in 0..(N - 1), m \in P PROVE m + 1 \in P
  <2>1. PICK f \in [0..m -> S] : Good(f, m)
    BY <1>2
  <2> DEFINE g == [n \in 0..(m + 1) |-> IF n = m + 1 THEN step[<<f[m], m + 1>>] ELSE f[n]]
  <2>2. f[m] \in S /\ m + 1 \in 1..N
    BY <2>1
  <2>3. g \in [0..(m + 1) -> S]
    <3>1. step[<<f[m], m + 1>>] \in S
      BY <2>2
    <3> QED BY <3>1, <2>1
  <2>4. Good(g, m + 1)
    <3> SUFFICES ASSUME NEW n \in 0..(m + 1)
                 PROVE  g[n] = IF n = 0 THEN base ELSE step[<<g[n - 1], n>>]
      OBVIOUS
    <3>1. CASE n = m + 1
      <4>1. n # 0 /\ n - 1 = m /\ m # m + 1
        BY <3>1
      <4>2. g[n - 1] = f[m]
        BY <4>1
      <4> QED BY <3>1, <4>1, <4>2
    <3>2. CASE n \in 0..m
      <4>1. g[n] = f[n] /\ (n # 0 => g[n - 1] = f[n - 1])
        BY <3>2
      <4> QED BY <3>2, <4>1, <2>1
    <3> QED BY <3>1, <3>2
  <2>5. \E h \in [0..(m + 1) -> S] : Good(h, m + 1)
    <3> HIDE DEF g, Good
    <3> QED BY <2>3, <2>4
  <2>6. m + 1 \in 0..N
    OBVIOUS
  <2> HIDE DEF Good
  <2> QED BY <2>5, <2>6
<1>3. \A m \in 0..N : m \in P
  <2> HIDE DEF P
  <2> QED BY <1>1, <1>2, Climb
<1>4. N \in P
  BY <1>3
<1> QED BY <1>4 DEF Computes
-----------------------------------------------------------------------------
(* The books, one signal at a time.  What is on the page and what is open are
   looked at as sets: an interim or a final replaces whatever its turn's handle
   had, wherever it stands. *)
Text     == Seq(Int)
Words    == Seq(Int) \cup Seq([word : Int, end : Int])
RowType  == [handle : Int \X Int, text : Text, words : Words, final : BOOLEAN]
TurnType == [ref : Int, handle : Int \X Int, text : Text]
BookType == [open : Seq(TurnType), closed : SUBSET Int, rows : Seq(RowType)]

OneEach(open) == \A i, j \in DOMAIN open : open[i].ref = open[j].ref => i = j

Row(handle, text, words, final) ==
  [handle |-> handle, text |-> text, words |-> words, final |-> final]

Without(R, handle) == {r \in R : r.handle # handle}

Others(O, k) == {u \in O : u.ref # k}

Saying(t, text) == [t EXCEPT !.text = text]

(* The text a partial leaves its turn with, and the text a final settles. *)
Heard(s, t) == IF s.append THEN t.text \o s.text ELSE s.text

TextLeft(new, t) == IF new = <<>> THEN t.text ELSE new

(* What writing a turn does to a set of rows: settled, or as an interim. *)
Settled(R, handle, text, words) ==
  IF text = <<>> THEN R ELSE Without(R, handle) \cup {Row(handle, text, words, TRUE)}

Shown(R, handle, text) ==
  IF text = <<>> THEN R ELSE Without(R, handle) \cup {Row(handle, text, <<>>, FALSE)}

LEMMA Lists ==
  ASSUME NEW S, NEW s \in Seq(S)
  PROVE  /\ Len(s) \in Nat /\ DOMAIN s = 1..Len(s) /\ ToSet(s) = {s[i] : i \in 1..Len(s)}
         /\ \A i \in 1..Len(s) : s[i] \in S /\ s[i] \in ToSet(s)
         /\ \A x \in ToSet(s) : x \in S /\ \E i \in 1..Len(s) : s[i] = x
         /\ s = <<>> <=> ToSet(s) = {}
         /\ s = <<>> <=> Len(s) = 0
  BY DEF ToSet

LEMMA Longer == \A x, y \in Seq(Int) : y # <<>> => x \o y # <<>>
<1> SUFFICES ASSUME NEW x \in Seq(Int), NEW y \in Seq(Int), y # <<>> PROVE x \o y # <<>>
  OBVIOUS
<1>1. Len(x) \in Nat /\ Len(y) \in Nat /\ Len(y) # 0 /\ Len(x \o y) = Len(x) + Len(y)
  OBVIOUS
<1>2. Len(x \o y) # 0
  BY <1>1
<1> QED BY <1>2

LEMMA Appended ==
  ASSUME NEW S, NEW s \in Seq(S), NEW e \in S
  PROVE  /\ Append(s, e) \in Seq(S) /\ Len(Append(s, e)) = Len(s) + 1
         /\ \A i \in 1..Len(s) : Append(s, e)[i] = s[i]
         /\ Append(s, e)[Len(s) + 1] = e
         /\ ToSet(Append(s, e)) = ToSet(s) \cup {e}
<1>1. /\ Append(s, e) \in Seq(S) /\ Len(s) \in Nat /\ Len(Append(s, e)) = Len(s) + 1
      /\ DOMAIN s = 1..Len(s) /\ DOMAIN Append(s, e) = 1..(Len(s) + 1)
      /\ \A i \in 1..Len(s) : Append(s, e)[i] = s[i]
      /\ Append(s, e)[Len(s) + 1] = e
  OBVIOUS
<1>2. \A i \in 1..(Len(s) + 1) : i = Len(s) + 1 \/ i \in 1..Len(s)
  BY <1>1
<1>3. ToSet(Append(s, e)) = ToSet(s) \cup {e}
  BY <1>1, <1>2 DEF ToSet
<1> QED BY <1>1, <1>3

LEMMA Puts ==
  ASSUME NEW rows \in Seq(RowType), NEW row \in RowType
  PROVE  /\ Put(rows, row) \in Seq(RowType)
         /\ ToSet(Put(rows, row)) = Without(ToSet(rows), row.handle) \cup {row}
<1>1. CASE \E i \in DOMAIN rows : rows[i].handle = row.handle
  <2> DEFINE p == [i \in DOMAIN rows |-> IF rows[i].handle = row.handle THEN row ELSE rows[i]]
  <2>1. Put(rows, row) = p
    BY <1>1 DEF Put
  <2>2. p \in Seq(RowType) /\ DOMAIN p = DOMAIN rows
    BY Lists
  <2>3. ToSet(p) = Without(ToSet(rows), row.handle) \cup {row}
    BY <1>1, Lists DEF ToSet, Without
  <2> QED BY <2>1, <2>2, <2>3
<1>2. CASE ~\E i \in DOMAIN rows : rows[i].handle = row.handle
  <2>1. Put(rows, row) = Append(rows, row)
    BY <1>2 DEF Put
  <2>2. ToSet(rows) = Without(ToSet(rows), row.handle)
    BY <1>2 DEF ToSet, Without
  <2> QED BY <2>1, <2>2, Appended
<1> QED BY <1>1, <1>2

LEMMA Emits ==
  ASSUME NEW rows \in Seq(RowType), NEW handle \in Int \X Int, NEW text \in Text,
         NEW words \in Words
  PROVE  /\ Emit(rows, handle, text, words, TRUE) \in Seq(RowType)
         /\ ToSet(Emit(rows, handle, text, words, TRUE)) =
              Settled(ToSet(rows), handle, text, words)
         /\ Emit(rows, handle, text, <<>>, FALSE) \in Seq(RowType)
         /\ ToSet(Emit(rows, handle, text, <<>>, FALSE)) = Shown(ToSet(rows), handle, text)
<1> DEFINE t == Row(handle, text, words, TRUE)
           f == Row(handle, text, <<>>, FALSE)
<1>1. t \in RowType /\ f \in RowType
  BY DEF Row, RowType, Words
<1>2. t.handle = handle /\ f.handle = handle
  BY DEF Row
<1>3. CASE text = <<>>
  BY <1>3 DEF Emit, Settled, Shown
<1>4. CASE text # <<>>
  <2>1. /\ Emit(rows, handle, text, words, TRUE) = Put(rows, t)
        /\ Emit(rows, handle, text, <<>>, FALSE) = Put(rows, f)
    BY <1>4 DEF Emit, Row
  <2>2. /\ Settled(ToSet(rows), handle, text, words) =
             Without(ToSet(rows), handle) \cup {t}
        /\ Shown(ToSet(rows), handle, text) =
             Without(ToSet(rows), handle) \cup {f}
    BY <1>4 DEF Settled, Shown
  <2> HIDE DEF t, f
  <2>3. /\ Put(rows, t) \in Seq(RowType)
        /\ ToSet(Put(rows, t)) = Without(ToSet(rows), t.handle) \cup {t}
    BY <1>1, Puts
  <2>4. /\ Put(rows, f) \in Seq(RowType)
        /\ ToSet(Put(rows, f)) = Without(ToSet(rows), f.handle) \cup {f}
    BY <1>1, Puts
  <2> QED BY <1>2, <2>1, <2>2, <2>3, <2>4
<1> QED BY <1>3, <1>4

NewTurn(k, at) == [ref |-> k, handle |-> Handle(k, at), text |-> <<>>]

(* The turn a signal is about, or the one it opens. *)
Meant(b, k, at, t) ==
  \/ t \in ToSet(b.open) /\ t.ref = k
  \/ (\A u \in ToSet(b.open) : u.ref # k) /\ t = NewTurn(k, at)

BookKept(b) == b \in BookType /\ OneEach(b.open)

LEMMA Fields ==
  ASSUME NEW b \in BookType
  PROVE  /\ b.open \in Seq(TurnType) /\ b.closed \in SUBSET Int /\ b.rows \in Seq(RowType)
         /\ b = [open |-> b.open, closed |-> b.closed, rows |-> b.rows]
  BY DEF BookType

LEMMA KeyType ==
  ASSUME NEW b \in BookType, NEW ref \in Int
  PROVE  /\ Resolve(b, ref) \in Int
         /\ ref # 0 => Resolve(b, ref) = ref
         /\ (\A t \in ToSet(b.open) : t.ref = 0) => Resolve(b, 0) = 0
<1>1. b.open # <<>> => b.open[1] \in TurnType /\ b.open[1] \in ToSet(b.open)
  BY Fields, Lists
<1> QED BY <1>1 DEF Resolve, NoRef, TurnType

LEMMA HandleType == \A k, at \in Int : Handle(k, at) \in Int \X Int
  BY DEF Handle, NoRef

LEMMA OpenedEffect ==
  ASSUME NEW b, BookKept(b), NEW ref \in Int, NEW at \in Int
  PROVE  LET k == Resolve(b, ref)
             c == Opened(b, ref, at)
         IN /\ BookKept(c) /\ c.rows = b.rows /\ c.closed = b.closed
            /\ Resolve(c, ref) = k
            /\ \E t \in ToSet(c.open) : Meant(b, k, at, t) /\ ToSet(c.open) = ToSet(b.open) \cup {t}
<1> DEFINE k == Resolve(b, ref)
           c == Opened(b, ref, at)
           t == NewTurn(k, at)
<1>0. b \in BookType /\ OneEach(b.open) /\ b.open \in Seq(TurnType) /\ k \in Int
  BY Fields, KeyType DEF BookKept
<1>1. CASE OpenAt(b, k) # {}
  <2>1. c = b
    BY <1>1 DEF Opened
  <2>2. \E t_ \in ToSet(b.open) : t_.ref = k
    BY <1>0, <1>1, Lists DEF OpenAt
  <2> QED BY <1>0, <2>1, <2>2 DEF Meant, BookKept
<1>2. CASE OpenAt(b, k) = {}
  <2>1. c = [b EXCEPT !.open = Append(b.open, t)]
    BY <1>2 DEF Opened, NewTurn
  <2>2. t \in TurnType
    BY <1>0, HandleType DEF NewTurn, TurnType, Text
  <2>3. \A i \in 1..Len(b.open) : b.open[i].ref # k
    BY <1>0, <1>2, Lists DEF OpenAt
  <2>4. \A u \in ToSet(b.open) : u.ref # k
    BY <1>0, <2>3, Lists
  <2>5. c.open = Append(b.open, t) /\ c.rows = b.rows /\ c.closed = b.closed /\ c \in BookType
    BY <1>0, <2>1, <2>2, Appended, Fields DEF BookType
  <2>6. OneEach(c.open)
    <3>1. DOMAIN c.open = 1..(Len(b.open) + 1) /\ Len(b.open) \in Nat /\ DOMAIN b.open = 1..Len(b.open)
      BY <1>0, <2>2, <2>5, Appended, Lists
    <3>2. \A i \in 1..(Len(b.open) + 1) : i = Len(b.open) + 1 \/ i \in 1..Len(b.open)
      BY <3>1
    <3>3. \A i \in 1..Len(b.open) : c.open[i] = b.open[i]
      BY <1>0, <2>2, <2>5, Appended
    <3>4. c.open[Len(b.open) + 1].ref = k
      BY <1>0, <2>2, <2>5, Appended DEF NewTurn
    <3> QED BY <1>0, <2>3, <3>1, <3>2, <3>3, <3>4 DEF OneEach
  <2>7. ToSet(c.open) = ToSet(b.open) \cup {t}
    BY <1>0, <2>2, <2>5, Appended
  <2>8. Resolve(c, ref) = k
    <3>1. CASE ref # 0
      BY <3>1 DEF Resolve, NoRef
    <3>2. CASE ref = 0
      <4>1. CASE b.open = <<>>
        <5>1. k = 0 /\ c.open[1] = t /\ c.open # <<>>
          <6>1. Len(b.open) = 0
            BY <4>1
          <6> QED BY <1>0, <2>2, <2>5, <3>2, <4>1, <6>1, Appended, Lists DEF Resolve, NoRef
        <5> QED BY <3>2, <5>1 DEF Resolve, NoRef, NewTurn
      <4>2. CASE b.open # <<>>
        <5>1. 1 \in 1..Len(b.open)
          BY <1>0, <4>2, Lists
        <5>2. c.open[1] = b.open[1]
          BY <1>0, <2>2, <2>5, <5>1, Appended
        <5>3. c.open # <<>>
          BY <1>0, <2>2, <2>5
        <5> QED BY <3>2, <4>2, <5>2, <5>3 DEF Resolve, NoRef
      <4> QED BY <4>1, <4>2
    <3> QED BY <3>1, <3>2
  <2>9. t \in ToSet(c.open) /\ Meant(b, k, at, t)
    BY <2>4, <2>7 DEF Meant
  <2> QED BY <2>5, <2>6, <2>7, <2>8, <2>9 DEF BookKept
<1> QED BY <1>1, <1>2

(* A turn grows, or a late partial finds it settled. *)
LEMMA GrownEffect ==
  ASSUME NEW b, BookKept(b), NEW s, s.sig = "partial", s.ref \in Int, s.text \in Text,
         s.append \in BOOLEAN
  PROVE  LET k == Resolve(b, s.ref)
             c == Applied(b, s)
         IN /\ s.ref # 0 /\ s.ref \in b.closed => c = b
            /\ ~(s.ref # 0 /\ s.ref \in b.closed) =>
                 \E t \in TurnType :
                   LET text == Heard(s, t) IN
                   /\ Meant(b, k, -1, t) /\ BookKept(c) /\ c.closed = b.closed
                   /\ ToSet(c.open) = Others(ToSet(b.open), k) \cup {Saying(t, text)}
                   /\ ToSet(c.rows) = Shown(ToSet(b.rows), t.handle, text)
<1> DEFINE ref == s.ref
           k == Resolve(b, ref)
           c == Applied(b, s)
           o == Opened(b, ref, -1)
<1>2. c = Grown(b, s)
  BY DEF Applied
<1>3. CASE ref # 0 /\ ref \in b.closed
  BY <1>2, <1>3 DEF Grown, NoRef
<1>4. CASE ~(ref # 0 /\ ref \in b.closed)
  <2>1. /\ BookKept(o) /\ o.rows = b.rows /\ o.closed = b.closed /\ Resolve(o, ref) = k
        /\ \E t \in ToSet(o.open) : Meant(b, k, -1, t) /\ ToSet(o.open) = ToSet(b.open) \cup {t}
    <3>1. ref \in Int /\ -1 \in Int
      OBVIOUS
    <3> HIDE DEF ref
    <3> QED BY <3>1, OpenedEffect
  <2>2. PICK t \in ToSet(o.open) : Meant(b, k, -1, t) /\ ToSet(o.open) = ToSet(b.open) \cup {t}
    BY <2>1
  <2>3. o \in BookType /\ OneEach(o.open) /\ o.open \in Seq(TurnType) /\ o.rows \in Seq(RowType)
    BY <2>1, Fields DEF BookKept
  <2>4. t.ref = k /\ t \in TurnType
    BY <2>2, <2>3, Lists DEF Meant, NewTurn
  <2>5. PICK j \in 1..Len(o.open) : o.open[j] = t
    BY <2>3, Lists
  <2>6. OpenAt(o, k) = {j}
    <3> HIDE DEF o, k
    <3>1. DOMAIN o.open = 1..Len(o.open)
      BY <2>3, Lists
    <3>2. \A i \in 1..Len(o.open) : o.open[i].ref = k => i = j
      BY <2>3, <2>4, <2>5, <3>1 DEF OneEach
    <3> QED BY <2>4, <2>5, <3>1, <3>2 DEF OpenAt
  <2>7. PlaceOf(o, Resolve(o, s.ref)) = j
    <3> HIDE DEF o, k
    <3> QED BY <2>1, <2>6 DEF PlaceOf
  <2> DEFINE text == Heard(s, t)
             new_t == Saying(t, text)
             rows == Emit(o.rows, t.handle, text, <<>>, FALSE)
  <2>8. c = [o EXCEPT !.open[j].text = text, !.rows = rows]
    <3>1. c = GrownAt(o, j, s)
      <4>1. ~(s.ref # NoRef /\ s.ref \in b.closed) /\ o = Opened(b, s.ref, -1)
        BY <1>4 DEF NoRef
      <4> HIDE DEF c, o
      <4> QED BY <1>2, <2>7, <4>1 DEF Grown
    <3> HIDE DEF c, o
    <3> QED BY <2>5, <3>1 DEF GrownAt, Heard
  <2>9. c.open = [o.open EXCEPT ![j] = new_t] /\ c.rows = rows /\ c.closed = o.closed
    <3>1. [o.open EXCEPT ![j].text = text] = [o.open EXCEPT ![j] = new_t]
      BY <2>5 DEF Saying
    <3> QED BY <2>3, <2>8, <3>1, Fields
  <2>10. text \in Text /\ new_t \in TurnType /\ new_t.ref = k /\ t.handle \in Int \X Int
    <3>1. text \in Text
      BY <2>4 DEF TurnType, Text, Heard
    <3> HIDE DEF text
    <3> QED BY <2>4, <3>1 DEF TurnType, Saying
  <2>11. /\ c.open \in Seq(TurnType) /\ Len(c.open) = Len(o.open)
         /\ \A i \in 1..Len(o.open) : c.open[i] = IF i = j THEN new_t ELSE o.open[i]
    <3> HIDE DEF new_t
    <3> QED BY <2>3, <2>5, <2>9, <2>10, Lists
  <2>12. /\ rows \in Seq(RowType)
         /\ ToSet(rows) = Shown(ToSet(b.rows), t.handle, text)
    <3>1. <<>> \in Words
      BY DEF Words
    <3> HIDE DEF text, rows
    <3>2. rows = Emit(b.rows, t.handle, text, <<>>, FALSE)
      BY <2>1 DEF rows
    <3> QED BY <2>1, <2>3, <2>10, <3>1, <3>2, Emits
  <2>13. c \in BookType
    <3>1. c = [open |-> c.open, closed |-> c.closed, rows |-> c.rows]
      BY <2>3, <2>8, Fields
    <3>2. c.closed \in SUBSET Int
      BY <2>3, <2>9, Fields
    <3> HIDE DEF c, rows
    <3> QED BY <2>9, <2>11, <2>12, <3>1, <3>2 DEF BookType
  <2>14. OneEach(c.open)
    <3>1. DOMAIN c.open = 1..Len(o.open) /\ DOMAIN o.open = 1..Len(o.open) /\ o.open[j].ref = k
      BY <2>3, <2>4, <2>5, <2>11, Lists
    <3>2. \A i \in 1..Len(o.open) : c.open[i].ref = o.open[i].ref
      BY <2>10, <2>11, <3>1
    <3> HIDE DEF c
    <3> QED BY <2>3, <3>1, <3>2 DEF OneEach
  <2>15. ToSet(c.open) = Others(ToSet(b.open), k) \cup {new_t}
    <3> HIDE DEF c, new_t, o, k, rows
    <3>1. Others(ToSet(b.open), k) = Others(ToSet(o.open), k)
      BY <2>2, <2>4 DEF Others
    <3>2. DOMAIN o.open = 1..Len(o.open) /\ ToSet(o.open) = {o.open[i] : i \in 1..Len(o.open)}
      BY <2>3, Lists
    <3>3. \A i \in 1..Len(o.open) : o.open[i].ref # k <=> i # j
      BY <2>3, <2>4, <2>5, <3>2 DEF OneEach
    <3>4. ToSet(c.open) = {c.open[i] : i \in 1..Len(o.open)}
      BY <2>11, Lists
    <3>5. ToSet(c.open) \subseteq Others(ToSet(o.open), k) \cup {new_t}
      BY <2>11, <3>2, <3>3, <3>4 DEF Others
    <3>6. Others(ToSet(o.open), k) \cup {new_t} \subseteq ToSet(c.open)
      BY <2>5, <2>11, <3>2, <3>3, <3>4 DEF Others
    <3> QED BY <3>1, <3>5, <3>6
  <2>16. c.closed = b.closed
    BY <2>1, <2>9
  <2>17. BookKept(c)
    BY <2>13, <2>14 DEF BookKept
  <2>18. \E t_ \in TurnType :
           LET w == Heard(s, t_) IN
           /\ Meant(b, k, -1, t_) /\ BookKept(c) /\ c.closed = b.closed
           /\ ToSet(c.open) = Others(ToSet(b.open), k) \cup {Saying(t_, w)}
           /\ ToSet(c.rows) = Shown(ToSet(b.rows), t_.handle, w)
    <3> HIDE DEF c, rows, o, k
    <3> QED BY <2>17, <2>2, <2>4, <2>9, <2>12, <2>15, <2>16
  <2> QED BY <1>4, <2>18
<1> QED BY <1>3, <1>4

Elsewhere(s, j) == {s[i] : i \in (1..Len(s)) \ {j}}

LEMMA Removed ==
  ASSUME NEW S, NEW s \in Seq(S), NEW j \in 1..Len(s)
  PROVE  /\ RemoveAt(s, j) \in Seq(S) /\ Len(RemoveAt(s, j)) = Len(s) - 1
         /\ \A i \in 1..(Len(s) - 1) : RemoveAt(s, j)[i] = s[IF i < j THEN i ELSE i + 1]
         /\ ToSet(RemoveAt(s, j)) = Elsewhere(s, j)
<1> DEFINE l == SubSeq(s, 1, j - 1)
           r == SubSeq(s, j + 1, Len(s))
           x == RemoveAt(s, j)
<1>0. Len(s) \in Nat /\ j \in Int /\ 1 <= j /\ j <= Len(s)
  OBVIOUS
<1>1. l \in Seq(S) /\ Len(l) = j - 1 /\ \A i \in 1..(j - 1) : l[i] = s[i]
  BY <1>0
<1>2. r \in Seq(S) /\ Len(r) = Len(s) - j /\ \A i \in 1..(Len(s) - j) : r[i] = s[i + j]
  BY <1>0
<1>3. x = l \o r
  BY DEF RemoveAt
<1>4. x \in Seq(S) /\ Len(x) = Len(s) - 1
  <2> HIDE DEF l, r, x
  <2> QED BY <1>0, <1>1, <1>2, <1>3
<1>5. ASSUME NEW i \in 1..(Len(s) - 1) PROVE x[i] = s[IF i < j THEN i ELSE i + 1]
  <2> HIDE DEF l, r, x
  <2>1. CASE i < j
    BY <1>0, <1>1, <1>2, <1>3, <2>1
  <2>2. CASE ~(i < j)
    <3>1. x[i] = r[i - (j - 1)]
      BY <1>0, <1>1, <1>2, <1>3, <2>2
    <3>2. i - (j - 1) \in 1..(Len(s) - j) /\ i - (j - 1) + j = i + 1
      BY <1>0, <2>2
    <3> QED BY <1>2, <2>2, <3>1, <3>2
  <2> QED BY <2>1, <2>2
<1>6. ToSet(x) = {s[i] : i \in (1..Len(s)) \ {j}}
  <2> HIDE DEF l, r, x
  <2>1. ToSet(x) = {x[i] : i \in 1..(Len(s) - 1)}
    BY <1>4, Lists
  <2>2. \A i \in 1..(Len(s) - 1) : (IF i < j THEN i ELSE i + 1) \in (1..Len(s)) \ {j}
    BY <1>0
  <2>3. \A i \in (1..Len(s)) \ {j} :
          \E m \in 1..(Len(s) - 1) : (IF m < j THEN m ELSE m + 1) = i
    <3> SUFFICES ASSUME NEW i \in (1..Len(s)) \ {j}
                 PROVE  \E m \in 1..(Len(s) - 1) : (IF m < j THEN m ELSE m + 1) = i
      OBVIOUS
    <3>1. CASE i < j
      BY <1>0, <3>1
    <3>2. CASE i > j
      <4>1. i - 1 \in 1..(Len(s) - 1) /\ ~(i - 1 < j) /\ i - 1 + 1 = i
        BY <1>0, <3>2
      <4> QED BY <4>1
    <3> QED BY <1>0, <3>1, <3>2
  <2>4. ToSet(x) \subseteq {s[i] : i \in (1..Len(s)) \ {j}}
    BY <1>5, <2>1, <2>2
  <2>5. ASSUME NEW i \in (1..Len(s)) \ {j} PROVE s[i] \in ToSet(x)
    <3>1. PICK m \in 1..(Len(s) - 1) : (IF m < j THEN m ELSE m + 1) = i
      BY <2>3
    <3>2. x[m] = s[i]
      BY <1>5, <3>1
    <3> QED BY <2>1, <3>2
  <2> QED BY <2>4, <2>5
<1> QED BY <1>4, <1>5, <1>6 DEF Elsewhere

(* A turn settles, one that was never heard of too. *)
LEMMA ClosedEffect ==
  ASSUME NEW b, BookKept(b), NEW ref \in Int, NEW new \in Text, NEW words \in Words
  PROVE  LET k == Resolve(b, ref)
             c == Applied(b, Final(ref, new, words))
         IN \E t \in TurnType :
              LET text == TextLeft(new, t) IN
              /\ Meant(b, k, -1, t) /\ BookKept(c)
              /\ c.closed = (IF k = 0 THEN b.closed ELSE b.closed \cup {k})
              /\ ToSet(c.open) = Others(ToSet(b.open), k)
              /\ ToSet(c.rows) = Settled(ToSet(b.rows), t.handle, text, words)
<1> DEFINE k == Resolve(b, ref)
           s == Final(ref, new, words)
           c == Applied(b, s)
           j == PlaceOf(b, k)
           t == IF OpenAt(b, k) = {} THEN NewTurn(k, -1) ELSE b.open[j]
           text == TextLeft(new, t)
<1>1. s.sig = "final" /\ s.ref = ref /\ s.text = new /\ s.words = words
  BY DEF Final
<1>2. b \in BookType /\ OneEach(b.open) /\ b.open \in Seq(TurnType) /\ k \in Int
      /\ b.closed \in SUBSET Int /\ b.rows \in Seq(RowType)
  BY Fields, KeyType DEF BookKept
<1>3. c = [open   |-> IF OpenAt(b, k) = {} THEN b.open ELSE RemoveAt(b.open, j),
           closed |-> IF k = 0 THEN b.closed ELSE b.closed \cup {k},
           rows   |-> Emit(b.rows, t.handle, text, words, TRUE)]
  <2>1. c = Closed(b, s)
    BY <1>1 DEF Applied
  <2> HIDE DEF s, c
  <2> QED BY <1>1, <2>1 DEF Closed, NoRef, NewTurn, TextLeft
<1>4. /\ t \in TurnType /\ Meant(b, k, -1, t)
      /\ c.open \in Seq(TurnType) /\ OneEach(c.open)
      /\ ToSet(c.open) = Others(ToSet(b.open), k)
  <2> HIDE DEF k, s
  <2>1. CASE OpenAt(b, k) = {}
    <3>1. t = NewTurn(k, -1) /\ c.open = b.open
      BY <1>3, <2>1
    <3> HIDE DEF t, c, j
    <3>2. \A u \in ToSet(b.open) : u.ref # k
      <4>1. /\ DOMAIN b.open = 1..Len(b.open)
            /\ \A u \in ToSet(b.open) : \E i \in 1..Len(b.open) : b.open[i] = u
        BY <1>2, Lists
      <4> QED BY <2>1, <4>1 DEF OpenAt
    <3>3. t \in TurnType
      <4>1. Handle(k, -1) \in Int \X Int /\ <<>> \in Text
        <5>1. k \in Int /\ -1 \in Int
          BY <1>2
        <5>2. Handle(k, -1) \in Int \X Int
          BY <5>1, HandleType
        <5> QED BY <5>2 DEF Text
      <4> QED BY <1>2, <3>1, <4>1 DEF NewTurn, TurnType
    <3> QED BY <1>2, <3>1, <3>2, <3>3 DEF Meant, Others
  <2>2. CASE OpenAt(b, k) # {}
    <3>1. t = b.open[j] /\ c.open = RemoveAt(b.open, j)
      BY <1>3, <2>2
    <3>2. j \in OpenAt(b, k)
      BY <2>2 DEF PlaceOf
    <3> HIDE DEF t, c, j
    <3>3. DOMAIN b.open = 1..Len(b.open) /\ j \in 1..Len(b.open) /\ t.ref = k
          /\ t \in TurnType /\ t \in ToSet(b.open) /\ Len(b.open) \in Nat
      BY <1>2, <3>1, <3>2, Lists DEF OpenAt
    <3>4. \A i \in 1..Len(b.open) : b.open[i].ref = k <=> i = j
      BY <1>2, <3>1, <3>3 DEF OneEach
    <3>5. c.open \in Seq(TurnType) /\ DOMAIN c.open = 1..(Len(b.open) - 1)
          /\ \A i \in 1..(Len(b.open) - 1) : c.open[i] = b.open[IF i < j THEN i ELSE i + 1]
      <4>1. /\ c.open \in Seq(TurnType) /\ Len(c.open) = Len(b.open) - 1
            /\ \A i \in 1..(Len(b.open) - 1) : c.open[i] = b.open[IF i < j THEN i ELSE i + 1]
        BY <1>2, <3>1, <3>3, Removed
      <4> QED BY <4>1, Lists
    <3>6. OneEach(c.open)
      <4> SUFFICES ASSUME NEW i \in 1..(Len(b.open) - 1), NEW m \in 1..(Len(b.open) - 1),
                          c.open[i].ref = c.open[m].ref
                   PROVE  i = m
        BY <3>5 DEF OneEach
      <4> DEFINE up(z) == IF z < j THEN z ELSE z + 1
      <4>1. up(i) \in 1..Len(b.open) /\ up(m) \in 1..Len(b.open)
        BY <3>3
      <4>2. b.open[up(i)].ref = b.open[up(m)].ref
        BY <3>5
      <4>3. up(i) = up(m)
        BY <1>2, <3>3, <4>1, <4>2 DEF OneEach
      <4> QED BY <3>3, <4>3
    <3>7. ToSet(c.open) = Others(ToSet(b.open), k)
      <4>1. ToSet(c.open) = Elsewhere(b.open, j)
        BY <1>2, <3>1, <3>3, Removed
      <4>2. ToSet(b.open) = {b.open[i] : i \in 1..Len(b.open)}
        BY <1>2, Lists
      <4> QED BY <3>4, <4>1, <4>2 DEF Others, Elsewhere
    <3> QED BY <3>3, <3>5, <3>6, <3>7 DEF Meant
  <2> QED BY <2>1, <2>2
<1>5. text \in Text /\ t.handle \in Int \X Int
  BY <1>4 DEF TurnType, TextLeft
<1>6. c.rows \in Seq(RowType)
      /\ ToSet(c.rows) = Settled(ToSet(b.rows), t.handle, text, words)
  <2>1. c.rows = Emit(b.rows, t.handle, text, words, TRUE)
    BY <1>3
  <2> HIDE DEF t, text, c, s, k, j
  <2>2. /\ Emit(b.rows, t.handle, text, words, TRUE) \in Seq(RowType)
        /\ ToSet(Emit(b.rows, t.handle, text, words, TRUE)) =
             Settled(ToSet(b.rows), t.handle, text, words)
    BY <1>2, <1>5, Emits
  <2> QED BY <2>1, <2>2
<1>7. c.closed = (IF k = 0 THEN b.closed ELSE b.closed \cup {k})
  BY <1>3
<1>8. BookKept(c)
  <2>1. c = [open |-> c.open, closed |-> c.closed, rows |-> c.rows]
    BY <1>3
  <2>2. c.closed \in SUBSET Int
    BY <1>2, <1>7
  <2> HIDE DEF c, t
  <2> QED BY <1>4, <1>6, <2>1, <2>2 DEF BookKept, BookType
<1>9. \E t_ \in TurnType :
        LET w == TextLeft(new, t_) IN
        /\ Meant(b, k, -1, t_) /\ BookKept(c)
        /\ c.closed = (IF k = 0 THEN b.closed ELSE b.closed \cup {k})
        /\ ToSet(c.open) = Others(ToSet(b.open), k)
        /\ ToSet(c.rows) = Settled(ToSet(b.rows), t_.handle, w, words)
  <2> HIDE DEF c, t, k
  <2> QED BY <1>4, <1>6, <1>7, <1>8
<1> QED BY <1>9

-----------------------------------------------------------------------------
(* What a book tells: its settled rows, as the service is heard to say them.
   A good book owes each interim row to an open turn with a text, so settling
   what is open leaves none. *)
Telling(handle, text, words) == [handle |-> handle, text |-> text, words |-> words]

SaidOf(R) == {Telling(r.handle, r.text, r.words) : r \in {x \in R : x.final}}

Said(b) == SaidOf(ToSet(b.rows))

OwedBy(R, O) == \A r \in R : ~r.final => \E t \in O : t.handle = r.handle /\ t.text # <<>>

Good(b) == BookKept(b) /\ OwedBy(ToSet(b.rows), ToSet(b.open))

LEMMA Telt ==
  ASSUME NEW R \in SUBSET RowType, NEW handle \in Int \X Int, NEW text \in Text, NEW words \in Words
  PROVE  /\ text = <<>> => SaidOf(Settled(R, handle, text, words)) = SaidOf(R)
         /\ text # <<>> =>
              /\ SaidOf(Settled(R, handle, text, words)) =
                   Without(SaidOf(R), handle) \cup {Telling(handle, text, words)}
              /\ SaidOf(Shown(R, handle, text)) = Without(SaidOf(R), handle)
<1>1. CASE text = <<>>
  BY <1>1 DEF Settled, Shown
<1>2. CASE text # <<>>
  <2> DEFINE old == Without(R, handle)
             t == Row(handle, text, words, TRUE)
             f == Row(handle, text, <<>>, FALSE)
  <2>1. SaidOf(old) = Without(SaidOf(R), handle)
    BY DEF SaidOf, Telling, Without
  <2>2. /\ t.final = TRUE /\ f.final = FALSE
        /\ Telling(t.handle, t.text, t.words) = Telling(handle, text, words)
    BY DEF Row
  <2>3. Settled(R, handle, text, words) = old \cup {t} /\ Shown(R, handle, text) = old \cup {f}
    BY <1>2 DEF Settled, Shown
  <2> HIDE DEF old, t, f
  <2>4. SaidOf(old \cup {t}) = SaidOf(old) \cup {Telling(handle, text, words)}
    BY <2>2 DEF SaidOf
  <2>5. SaidOf(old \cup {f}) = SaidOf(old)
    BY <2>2 DEF SaidOf
  <2> QED BY <1>2, <2>1, <2>3, <2>4, <2>5
<1> QED BY <1>1, <1>2

LEMMA RowsType == \A b \in BookType : ToSet(b.rows) \in SUBSET RowType /\ ToSet(b.open) \in SUBSET TurnType
<1> SUFFICES ASSUME NEW b \in BookType
             PROVE  ToSet(b.rows) \in SUBSET RowType /\ ToSet(b.open) \in SUBSET TurnType
  OBVIOUS
<1>1. b.open \in Seq(TurnType) /\ b.rows \in Seq(RowType)
  BY Fields
<1> QED BY <1>1, Lists

(* A turn written as an interim, or settled, leaves nothing owed to it. *)
LEMMA OwedAfter ==
  ASSUME NEW R, NEW O, OwedBy(R, O), NEW t, NEW k, NEW words, NEW text, NEW new,
         t \in O \/ t.text = <<>>, \A u \in O : u.ref = k => u = t
  PROVE  /\ new = Saying(t, text) /\ text # <<>> /\ t \in TurnType =>
              OwedBy(Shown(R, t.handle, text), Others(O, k) \cup {new})
         /\ (text = <<>> => t.text = <<>>) =>
              OwedBy(Settled(R, t.handle, text, words), Others(O, k))
<1>1. ASSUME new = Saying(t, text), text # <<>>, t \in TurnType
      PROVE  OwedBy(Shown(R, t.handle, text), Others(O, k) \cup {new})
  <2>1. new.handle = t.handle /\ new.text = text
    BY <1>1 DEF TurnType, Saying
  <2>2. Shown(R, t.handle, text) =
          Without(R, t.handle) \cup {Row(t.handle, text, <<>>, FALSE)}
    BY <1>1 DEF Shown
  <2>3. Row(t.handle, text, <<>>, FALSE).handle = new.handle
    BY <2>1 DEF Row
  <2>4. ASSUME NEW r \in R, r.handle # t.handle, ~r.final
        PROVE  \E u \in Others(O, k) \cup {new} : u.handle = r.handle /\ u.text # <<>>
    BY <2>4 DEF OwedBy, Others
  <2> QED BY <1>1, <2>1, <2>2, <2>3, <2>4 DEF OwedBy, Without
<1>2. ASSUME text = <<>> => t.text = <<>>
      PROVE  OwedBy(Settled(R, t.handle, text, words), Others(O, k))
  <2>1. ASSUME NEW r \in Settled(R, t.handle, text, words), ~r.final
        PROVE  r \in R /\ (text = <<>> \/ r.handle # t.handle)
    BY <2>1 DEF Settled, Row, Without
  <2>2. ASSUME NEW r \in R, ~r.final, text = <<>> \/ r.handle # t.handle
        PROVE  \E u \in Others(O, k) : u.handle = r.handle /\ u.text # <<>>
    <3>1. PICK u \in O : u.handle = r.handle /\ u.text # <<>>
      BY <2>2 DEF OwedBy
    <3>2. u # t
      BY <1>2, <2>2, <3>1
    <3> QED BY <3>1, <3>2 DEF Others
  <2> QED BY <2>1, <2>2 DEF OwedBy
<1> QED BY <1>1, <1>2

LEMMA OneByRef ==
  ASSUME NEW b, BookKept(b), NEW k, NEW at, NEW t, Meant(b, k, at, t)
  PROVE  /\ \A u \in ToSet(b.open) : u.ref = k => u = t
         /\ t \in ToSet(b.open) \/ t.text = <<>>
<1>1. b.open \in Seq(TurnType) /\ OneEach(b.open)
  BY Fields DEF BookKept
<1>2. \A u, v \in ToSet(b.open) : u.ref = v.ref => u = v
  <2>1. /\ DOMAIN b.open = 1..Len(b.open)
        /\ \A u \in ToSet(b.open) : \E i \in 1..Len(b.open) : b.open[i] = u
    BY <1>1, Lists
  <2> QED BY <1>1, <2>1 DEF OneEach
<1> QED BY <1>2 DEF Meant, NewTurn

(* What a signal does to the turn it is about. *)
Opens(b, c, k, at) ==
  \E t \in ToSet(c.open) : Meant(b, k, at, t) /\ ToSet(c.open) = ToSet(b.open) \cup {t}

Grows(b, c, k, s) ==
  \E t \in TurnType :
    /\ Meant(b, k, -1, t)
    /\ ToSet(c.open) = Others(ToSet(b.open), k) \cup {Saying(t, Heard(s, t))}
    /\ Said(c) = Without(Said(b), t.handle)

Settles(b, c, k, new, words) ==
  \E t \in TurnType :
    /\ Meant(b, k, -1, t)
    /\ ToSet(c.open) = Others(ToSet(b.open), k)
    /\ Said(c) = IF TextLeft(new, t) = <<>> THEN Said(b)
                 ELSE Without(Said(b), t.handle) \cup {Telling(t.handle, TextLeft(new, t), words)}

LEMMA StartedKeeps ==
  ASSUME NEW b, Good(b), NEW ref \in Int, NEW at \in Int
  PROVE  LET k == Resolve(b, ref)
             c == Applied(b, Started(ref, at))
         IN /\ Good(c) /\ Said(c) = Said(b) /\ c.closed = b.closed
            /\ Opens(b, c, k, at)
<1> DEFINE c == Applied(b, Started(ref, at))
<1>1. c = Opened(b, ref, at)
  BY DEF Applied, Started
<1>2. /\ BookKept(c) /\ c.rows = b.rows /\ c.closed = b.closed
      /\ \E t \in ToSet(c.open) : Meant(b, Resolve(b, ref), at, t) /\ ToSet(c.open) = ToSet(b.open) \cup {t}
  <2>1. BookKept(b)
    BY DEF Good
  <2> HIDE DEF c
  <2> QED BY <1>1, <2>1, OpenedEffect
<1>3. Good(c) /\ Said(c) = Said(b)
  <2> HIDE DEF c
  <2> QED BY <1>2 DEF Good, OwedBy, Said
<1> QED BY <1>2, <1>3 DEF Opens

LEMMA GrownKeeps ==
  ASSUME NEW b, Good(b), NEW s, s.sig = "partial", s.ref \in Int, s.text \in Text,
         s.append \in BOOLEAN, s.text # <<>>
  PROVE  LET k == Resolve(b, s.ref)
             c == Applied(b, s)
         IN /\ Good(c) /\ c.closed = b.closed
            /\ s.ref # 0 /\ s.ref \in b.closed => c = b
            /\ ~(s.ref # 0 /\ s.ref \in b.closed) => Grows(b, c, k, s)
<1> DEFINE k == Resolve(b, s.ref)
           c == Applied(b, s)
<1>1. BookKept(b) /\ b \in BookType /\ OwedBy(ToSet(b.rows), ToSet(b.open))
  BY DEF Good, BookKept
<1>2. CASE s.ref # 0 /\ s.ref \in b.closed
  BY <1>1, <1>2, GrownEffect
<1>3. CASE ~(s.ref # 0 /\ s.ref \in b.closed)
  <2>1. PICK t \in TurnType :
          LET text == Heard(s, t) IN
          /\ Meant(b, k, -1, t) /\ BookKept(c) /\ c.closed = b.closed
          /\ ToSet(c.open) = Others(ToSet(b.open), k) \cup {Saying(t, text)}
          /\ ToSet(c.rows) = Shown(ToSet(b.rows), t.handle, text)
    BY <1>1, <1>3, GrownEffect
  <2> DEFINE text == Heard(s, t)
  <2>2. text # <<>>
    <3>1. t.text \in Seq(Int) /\ s.text \in Seq(Int)
      BY DEF TurnType, Text
    <3>2. t.text \o s.text # <<>>
      BY <3>1, Longer
    <3> QED BY <3>2 DEF Heard
  <2> HIDE DEF text, c, k
  <2>3. /\ \A u \in ToSet(b.open) : u.ref = k => u = t
        /\ t \in ToSet(b.open) \/ t.text = <<>>
    BY <1>1, <2>1, OneByRef
  <2>4. OwedBy(Shown(ToSet(b.rows), t.handle, text),
               Others(ToSet(b.open), k) \cup {Saying(t, text)})
    BY <1>1, <2>2, <2>3, OwedAfter
  <2>5. /\ BookKept(c) /\ c.closed = b.closed /\ Meant(b, k, -1, t)
        /\ ToSet(c.open) = Others(ToSet(b.open), k) \cup {Saying(t, text)}
        /\ ToSet(c.rows) = Shown(ToSet(b.rows), t.handle, text)
    BY <2>1 DEF text
  <2>6. Good(c)
    BY <2>4, <2>5 DEF Good
  <2>7. Said(c) = Without(Said(b), t.handle)
    <3>1. ToSet(b.rows) \in SUBSET RowType /\ t.handle \in Int \X Int /\ <<>> \in Words
      BY <1>1, RowsType DEF TurnType, Words
    <3>2. text \in Text
      <4>1. t.text \in Text
        BY DEF TurnType
      <4> QED BY <4>1 DEF text, Heard, Text
    <3>3. SaidOf(Shown(ToSet(b.rows), t.handle, text)) = Without(SaidOf(ToSet(b.rows)), t.handle)
      BY <2>2, <3>1, <3>2, Telt
    <3> QED BY <2>5, <3>3 DEF Said
  <2>8. Grows(b, c, k, s)
    BY <2>5, <2>7 DEF Grows, text
  <2> USE DEF c, k
  <2> QED BY <1>3, <2>5, <2>6, <2>8
<1> QED BY <1>2, <1>3

LEMMA ClosedKeeps ==
  ASSUME NEW b, Good(b), NEW ref \in Int, NEW new \in Text, NEW words \in Words
  PROVE  LET k == Resolve(b, ref)
             c == Applied(b, Final(ref, new, words))
         IN /\ Good(c) /\ c.closed = (IF k = 0 THEN b.closed ELSE b.closed \cup {k})
            /\ Settles(b, c, k, new, words)
<1> DEFINE k == Resolve(b, ref)
           c == Applied(b, Final(ref, new, words))
<1>1. BookKept(b) /\ b \in BookType /\ OwedBy(ToSet(b.rows), ToSet(b.open))
  BY DEF Good, BookKept
<1>2. PICK t \in TurnType :
        LET text == TextLeft(new, t) IN
        /\ Meant(b, k, -1, t) /\ BookKept(c)
        /\ c.closed = (IF k = 0 THEN b.closed ELSE b.closed \cup {k})
        /\ ToSet(c.open) = Others(ToSet(b.open), k)
        /\ ToSet(c.rows) = Settled(ToSet(b.rows), t.handle, text, words)
  BY <1>1, ClosedEffect
<1> DEFINE text == TextLeft(new, t)
<1>3. text = <<>> => t.text = <<>>
  BY DEF TextLeft
<1>4. /\ Meant(b, k, -1, t) /\ BookKept(c)
      /\ c.closed = (IF k = 0 THEN b.closed ELSE b.closed \cup {k})
      /\ ToSet(c.open) = Others(ToSet(b.open), k)
      /\ ToSet(c.rows) = Settled(ToSet(b.rows), t.handle, text, words)
  BY <1>2
<1>5. /\ \A u \in ToSet(b.open) : u.ref = k => u = t
      /\ t \in ToSet(b.open) \/ t.text = <<>>
  <2> HIDE DEF c, k, text
  <2> QED BY <1>1, <1>4, OneByRef
<1>6. Good(c)
  <2> HIDE DEF c, k, text
  <2>1. OwedBy(Settled(ToSet(b.rows), t.handle, text, words), Others(ToSet(b.open), k))
    BY <1>1, <1>3, <1>5, OwedAfter
  <2> QED BY <1>4, <2>1 DEF Good
<1>7. Said(c) = IF text = <<>> THEN Said(b)
                ELSE Without(Said(b), t.handle) \cup {Telling(t.handle, text, words)}
  <2> HIDE DEF c, k, text
  <2>1. ToSet(b.rows) \in SUBSET RowType /\ t.handle \in Int \X Int
    BY <1>1, RowsType DEF TurnType
  <2>2. text \in Text
    <3>1. t.text \in Text
      BY DEF TurnType
    <3> QED BY <3>1 DEF text, TextLeft
  <2>3. /\ text = <<>> => SaidOf(Settled(ToSet(b.rows), t.handle, text, words)) = SaidOf(ToSet(b.rows))
        /\ text # <<>> =>
             SaidOf(Settled(ToSet(b.rows), t.handle, text, words)) =
               Without(SaidOf(ToSet(b.rows)), t.handle) \cup {Telling(t.handle, text, words)}
    BY <2>1, <2>2, Telt
  <2> QED BY <1>4, <2>3 DEF Said
<1>8. Settles(b, c, k, new, words)
  <2> HIDE DEF c, k
  <2> QED BY <1>4, <1>7 DEF Settles
<1> QED BY <1>4, <1>6, <1>8

-----------------------------------------------------------------------------
(* However a connection ends, nothing stays an interim. *)
LEMMA SettlesAll ==
  ASSUME NEW b, Good(b)
  PROVE  LET c == SettledBook(b)
         IN Good(c) /\ ToSet(c.open) = {} /\ \A r \in ToSet(c.rows) : r.final
<1> DEFINE N == Len(b.open)
           left(n) == {b.open[i] : i \in (n + 1)..N}
           emit(rows, n) == Emit(rows, b.open[n].handle, b.open[n].text, <<>>, TRUE)
           step == [p \in Seq(RowType) \X (1..N) |-> emit(p[1], p[2])]
           D(f) == [n \in 0..N |-> IF n = 0 THEN b.rows ELSE emit(f[n - 1], n)]
           rows == CHOOSE f : f = D(f)
           c == SettledBook(b)
<1>0. /\ b \in BookType /\ b.open \in Seq(TurnType) /\ b.closed \in SUBSET Int /\ b.rows \in Seq(RowType)
      /\ N \in Nat /\ DOMAIN b.open = 1..N /\ ToSet(b.open) = {b.open[i] : i \in 1..N}
      /\ OwedBy(ToSet(b.rows), ToSet(b.open)) /\ \A i \in 1..N : b.open[i] \in TurnType
  <2>1. b \in BookType /\ OwedBy(ToSet(b.rows), ToSet(b.open))
    BY DEF Good, BookKept
  <2>2. b.open \in Seq(TurnType) /\ b.closed \in SUBSET Int /\ b.rows \in Seq(RowType)
    BY <2>1, Fields
  <2> QED BY <2>1, <2>2, Lists
<1>1. ASSUME NEW rs \in Seq(RowType), NEW n \in 1..N
      PROVE  /\ emit(rs, n) \in Seq(RowType)
             /\ ToSet(emit(rs, n)) = Settled(ToSet(rs), b.open[n].handle, b.open[n].text, <<>>)
  <2>1. b.open[n].handle \in Int \X Int /\ b.open[n].text \in Text
    <3>1. b.open[n] \in TurnType
      BY <1>0
    <3> QED BY <3>1 DEF TurnType
  <2>2. <<>> \in Words
    BY DEF Words
  <2> QED BY <2>1, <2>2, Emits
<1>2. rows = D(rows)
  <2>1. step \in [Seq(RowType) \X (1..N) -> Seq(RowType)]
    <3> HIDE DEF emit, N
    <3> QED BY <1>1
  <2>2. PICK f : Computes(f, Seq(RowType), b.rows, N, step)
    <3>1. N \in Nat /\ b.rows \in Seq(RowType)
      BY <1>0
    <3> HIDE DEF step, N
    <3> QED BY <2>1, <3>1, Recursion
  <2>3. ASSUME NEW n \in 0..N PROVE f[n] = IF n = 0 THEN b.rows ELSE emit(f[n - 1], n)
    <3> HIDE DEF emit, N
    <3>1. CASE n = 0
      BY <2>2, <3>1 DEF Computes
    <3>2. CASE n # 0
      <4>1. n - 1 \in 0..N /\ n \in 1..N
        BY <1>0, <3>2
      <4>2. f[n] = step[<<f[n - 1], n>>] /\ f[n - 1] \in Seq(RowType)
        BY <2>2, <3>2, <4>1 DEF Computes
      <4> QED BY <3>2, <4>1, <4>2
    <3> QED BY <3>1, <3>2
  <2>4. f = D(f)
    <3> HIDE DEF emit, N
    <3>1. f = [n \in 0..N |-> f[n]]
      BY <2>2 DEF Computes
    <3> QED BY <2>3, <3>1
  <2> HIDE DEF D
  <2> QED BY <2>4
<1>3. c = [open   |-> <<>>, closed |-> b.closed \cup {b.open[i].ref : i \in DOMAIN b.open},
           rows   |-> rows[N]]
  BY DEF SettledBook
<1>4. \A n \in 0..N : rows[n] = IF n = 0 THEN b.rows ELSE emit(rows[n - 1], n)
  <2> HIDE DEF rows, emit, N
  <2> QED BY <1>2
<1> DEFINE P == {n \in 0..N : rows[n] \in Seq(RowType) /\ OwedBy(ToSet(rows[n]), left(n))}
<1>5. 0 \in P
  <2> HIDE DEF rows, emit, N
  <2>1. left(0) = ToSet(b.open)
    BY <1>0
  <2>2. 0 \in 0..N /\ OwedBy(ToSet(b.rows), ToSet(b.open)) /\ b.rows \in Seq(RowType)
    BY <1>0
  <2>3. rows[0] = b.rows
    BY <1>4, <2>2
  <2> HIDE DEF left
  <2> QED BY <2>1, <2>2, <2>3
<1>6. ASSUME NEW n \in 0..(N - 1), n \in P PROVE n + 1 \in P
  <2> HIDE DEF rows, emit, N
  <2> DEFINE t == b.open[n + 1]
  <2>1. n + 1 \in 0..N /\ n + 1 \in 1..N /\ n + 1 # 0 /\ n + 1 - 1 = n /\ n \in 0..N
    BY <1>0
  <2>2. rows[n + 1] = emit(rows[n], n + 1)
    BY <1>4, <2>1
  <2>3. rows[n] \in Seq(RowType) /\ OwedBy(ToSet(rows[n]), left(n))
    BY <1>6
  <2>4. left(n) = left(n + 1) \cup {t}
    <3>1. (n + 1)..N = ((n + 1 + 1)..N) \cup {n + 1}
      BY <1>0, <2>1
    <3> QED BY <3>1
  <2>5. /\ rows[n + 1] \in Seq(RowType)
        /\ ToSet(rows[n + 1]) = Settled(ToSet(rows[n]), t.handle, t.text, <<>>)
    BY <1>1, <2>1, <2>2, <2>3
  <2> HIDE DEF left, t
  <2>6. ASSUME NEW r \in Settled(ToSet(rows[n]), t.handle, t.text, <<>>), ~r.final
        PROVE  \E u \in left(n + 1) : u.handle = r.handle /\ u.text # <<>>
    <3>1. r \in ToSet(rows[n]) /\ (t.text = <<>> \/ r.handle # t.handle)
      BY <2>6 DEF Settled, Row, Without
    <3> QED BY <2>3, <2>4, <2>6, <3>1 DEF OwedBy
  <2>7. OwedBy(ToSet(rows[n + 1]), left(n + 1))
    BY <2>5, <2>6 DEF OwedBy
  <2> QED BY <2>1, <2>5, <2>7
<1>7. N \in P
  <2> HIDE DEF P
  <2>1. \A n \in 0..N : n \in P
    <3> HIDE DEF N
    <3> QED BY <1>0, <1>5, <1>6, Climb
  <2> QED BY <1>0, <2>1
<1>8. rows[N] \in Seq(RowType) /\ \A r \in ToSet(rows[N]) : r.final
  <2> HIDE DEF rows, emit, N
  <2>1. left(N) = {}
    BY <1>0
  <2> HIDE DEF left
  <2> QED BY <1>7, <2>1 DEF OwedBy
<1>9. c.open = <<>> /\ c.rows = rows[N] /\ c \in BookType
  <2>1. {b.open[i].ref : i \in DOMAIN b.open} \in SUBSET Int
    BY <1>0 DEF TurnType
  <2> HIDE DEF rows, N, c
  <2> QED BY <1>0, <1>3, <1>8, <2>1 DEF BookType
<1>10. Good(c) /\ ToSet(c.open) = {} /\ \A r \in ToSet(c.rows) : r.final
  <2> HIDE DEF rows, N, c
  <2>1. ToSet(c.open) = {}
    BY <1>9 DEF ToSet
  <2> QED BY <1>8, <1>9, <2>1 DEF Good, BookKept, OneEach, OwedBy
<1> QED BY <1>10

(* A list of signals is applied from its first to its last. *)
LEMMA AppliesNone == \A b : ApplyAll(b, <<>>) = b
<1> SUFFICES ASSUME NEW b PROVE ApplyAll(b, <<>>) = b
  OBVIOUS
<1> DEFINE D(f) == [n \in 0..Len(<<>>) |-> IF n = 0 THEN b ELSE Applied(f[n - 1], <<>>[n])]
           after == CHOOSE f : f = D(f)
           g == [n \in 0..0 |-> b]
<1>1. g = D(g)
  OBVIOUS
<1>2. after = D(after)
  <2> HIDE DEF D, g
  <2> QED BY <1>1
<1>3. after[0] = b
  <2> HIDE DEF after
  <2> QED BY <1>2
<1>4. ApplyAll(b, <<>>) = after[0]
  BY DEF ApplyAll
<1> QED BY <1>3, <1>4

LEMMA AppliesOne == \A b, s : ApplyAll(b, <<s>>) = Applied(b, s)
<1> SUFFICES ASSUME NEW b, NEW s PROVE ApplyAll(b, <<s>>) = Applied(b, s)
  OBVIOUS
<1> DEFINE D(f) == [n \in 0..Len(<<s>>) |-> IF n = 0 THEN b ELSE Applied(f[n - 1], <<s>>[n])]
           after == CHOOSE f : f = D(f)
           g == [n \in 0..1 |-> IF n = 0 THEN b ELSE Applied(b, s)]
<1>0. Len(<<s>>) = 1 /\ <<s>>[1] = s
  OBVIOUS
<1>1. g = D(g)
  <2>1. \A n \in 0..1 : n = 0 \/ (n = 1 /\ n - 1 = 0)
    OBVIOUS
  <2>2. \A n \in 0..1 : g[n] = IF n = 0 THEN b ELSE Applied(g[n - 1], <<s>>[n])
    BY <1>0, <2>1
  <2> QED BY <1>0, <2>2
<1>2. after = D(after)
  <2> HIDE DEF D, g
  <2> QED BY <1>1
<1>3. after[0] = b /\ after[1] = Applied(after[0], s)
  <2> HIDE DEF after
  <2> QED BY <1>0, <1>2
<1>4. ApplyAll(b, <<s>>) = after[1]
  BY <1>0 DEF ApplyAll
<1> QED BY <1>3, <1>4

LEMMA AppliesTwo == \A b, s, t : ApplyAll(b, <<s, t>>) = Applied(Applied(b, s), t)
<1> SUFFICES ASSUME NEW b, NEW s, NEW t
             PROVE  ApplyAll(b, <<s, t>>) = Applied(Applied(b, s), t)
  OBVIOUS
<1> DEFINE D(f) == [n \in 0..Len(<<s, t>>) |-> IF n = 0 THEN b ELSE Applied(f[n - 1], <<s, t>>[n])]
           after == CHOOSE f : f = D(f)
           g == [n \in 0..2 |-> IF n = 0 THEN b ELSE IF n = 1 THEN Applied(b, s)
                                ELSE Applied(Applied(b, s), t)]
<1>0. Len(<<s, t>>) = 2 /\ <<s, t>>[1] = s /\ <<s, t>>[2] = t
  OBVIOUS
<1>1. g = D(g)
  <2>1. \A n \in 0..2 : n = 0 \/ (n = 1 /\ n - 1 = 0) \/ (n = 2 /\ n - 1 = 1)
    OBVIOUS
  <2>2. \A n \in 0..2 : g[n] = IF n = 0 THEN b ELSE Applied(g[n - 1], <<s, t>>[n])
    BY <1>0, <2>1
  <2> QED BY <1>0, <2>2
<1>2. after = D(after)
  <2> HIDE DEF D, g
  <2> QED BY <1>1
<1>3. after[0] = b /\ after[1] = Applied(after[0], s) /\ after[2] = Applied(after[1], t)
  <2> HIDE DEF after
  <2> QED BY <1>0, <1>2
<1>4. ApplyAll(b, <<s, t>>) = after[2]
  BY <1>0 DEF ApplyAll
<1> QED BY <1>3, <1>4

LEMMA Stretch ==
  ASSUME NEW S, NEW list \in Seq(S), NEW a \in Nat, NEW n \in Nat, 1 <= a, a <= n, n <= Len(list)
  PROVE  Append(SubSeq(list, a, n - 1), list[n]) = SubSeq(list, a, n)
<1> DEFINE x == SubSeq(list, a, n - 1)
           y == SubSeq(list, a, n)
<1>0. Len(list) \in Nat
  OBVIOUS
<1>1. x \in Seq(S) /\ Len(x) = n - a /\ \A i \in 1..(n - a) : x[i] = list[a + i - 1]
  BY <1>0
<1>2. y \in Seq(S) /\ Len(y) = n - a + 1 /\ \A i \in 1..(n - a + 1) : y[i] = list[a + i - 1]
  BY <1>0
<1>3. list[n] \in S
  BY <1>0
<1> HIDE DEF x, y
<1>4. /\ Append(x, list[n]) \in Seq(S) /\ Len(Append(x, list[n])) = n - a + 1
      /\ \A i \in 1..(n - a) : Append(x, list[n])[i] = x[i]
      /\ Append(x, list[n])[n - a + 1] = list[n]
  BY <1>1, <1>3, Appended
<1>5. \A i \in 1..(n - a + 1) : Append(x, list[n])[i] = y[i]
  <2>1. \A i \in 1..(n - a + 1) : i \in 1..(n - a) \/ i = n - a + 1
    BY <1>0
  <2>2. y[n - a + 1] = list[n] /\ n - a + 1 \in 1..(n - a + 1)
    BY <1>0, <1>2
  <2> QED BY <1>1, <1>2, <1>4, <2>1, <2>2
<1>6. DOMAIN Append(x, list[n]) = 1..(n - a + 1) /\ DOMAIN y = 1..(n - a + 1)
  BY <1>2, <1>4, Lists
<1>7. Append(x, list[n]) = [i \in 1..(n - a + 1) |-> y[i]]
  BY <1>4, <1>5, <1>6
<1>8. y = [i \in 1..(n - a + 1) |-> y[i]]
  BY <1>2, <1>6
<1> QED BY <1>7, <1>8 DEF x, y

(* The positions from one to another choose the stretch between them. *)
LEMMA ChosenStretch ==
  ASSUME NEW S, NEW list \in Seq(S), NEW a \in Nat, NEW b \in Nat, 1 <= a, a <= b + 1, b <= Len(list),
         NEW positions, \A n \in 1..Len(list) : n \in positions <=> a <= n /\ n <= b
  PROVE  Chosen(list, positions) = SubSeq(list, a, b)
<1> DEFINE N == Len(list)
           upto(n) == IF n < a THEN a - 1 ELSE IF n > b THEN b ELSE n
           D(f) == [n \in 0..N |-> IF n = 0 THEN <<>>
                                   ELSE IF n \in positions THEN Append(f[n - 1], list[n]) ELSE f[n - 1]]
           up == CHOOSE f : f = D(f)
           g == [n \in 0..N |-> SubSeq(list, a, upto(n))]
<1>0. N \in Nat
  OBVIOUS
<1>1. ASSUME NEW n \in 0..N PROVE g[n] = D(g)[n]
  <2>1. CASE n = 0
    <3>1. upto(0) = a - 1
      BY <2>1
    <3>2. SubSeq(list, a, a - 1) = <<>>
      OBVIOUS
    <3> QED BY <2>1, <3>1, <3>2
  <2>2. CASE n # 0 /\ n \in positions
    <3>1. n - 1 \in 0..N /\ a <= n /\ n <= b /\ upto(n) = n /\ upto(n - 1) = n - 1
      BY <1>0, <2>2
    <3>2. D(g)[n] = Append(SubSeq(list, a, n - 1), list[n])
      BY <2>2, <3>1
    <3>3. Append(SubSeq(list, a, n - 1), list[n]) = SubSeq(list, a, n)
      BY <1>0, <3>1, Stretch
    <3> QED BY <3>1, <3>2, <3>3
  <2>3. CASE n # 0 /\ n \notin positions
    <3>1. n - 1 \in 0..N /\ upto(n) = upto(n - 1)
      BY <1>0, <2>3
    <3>2. D(g)[n] = g[n - 1]
      BY <2>3
    <3> QED BY <3>1, <3>2
  <2> QED BY <2>1, <2>2, <2>3
<1>2. up = D(up)
  <2>1. g = D(g)
    <3> HIDE DEF N, upto
    <3> QED BY <1>1
  <2> HIDE DEF D, g
  <2> QED BY <2>1
<1> DEFINE P == {n \in 0..N : up[n] = g[n]}
<1>3. \A n \in 0..N : n \in P
  <2> HIDE DEF up, N, upto, g
  <2>1. 0 \in P
    <3>1. 0 \in 0..N
      BY <1>0
    <3> QED BY <1>1, <1>2, <3>1
  <2>2. ASSUME NEW n \in 0..(N - 1), n \in P PROVE n + 1 \in P
    <3>1. n + 1 \in 0..N /\ n + 1 # 0 /\ n + 1 - 1 = n
      BY <1>0
    <3>2. up[n] = g[n]
      BY <2>2
    <3>3. up[n + 1] = D(g)[n + 1]
      <4>1. up[n + 1] = IF n + 1 \in positions THEN Append(up[n], list[n + 1]) ELSE up[n]
        <5>1. \A m \in 0..N : up[m] = IF m = 0 THEN <<>>
                                      ELSE IF m \in positions THEN Append(up[m - 1], list[m]) ELSE up[m - 1]
          BY <1>2
        <5> QED BY <3>1, <5>1
      <4>2. D(g)[n + 1] = IF n + 1 \in positions THEN Append(g[n], list[n + 1]) ELSE g[n]
        BY <3>1
      <4> QED BY <3>2, <4>1, <4>2
    <3> QED BY <1>1, <3>1, <3>3
  <2> HIDE DEF P
  <2> QED BY <1>0, <2>1, <2>2, Climb
<1>4. up[N] = SubSeq(list, a, b)
  <2>1. N \in 0..N /\ upto(N) = b
    BY <1>0
  <2>2. up[N] = g[N]
    BY <1>3, <2>1
  <2> HIDE DEF up, N, upto
  <2> QED BY <2>1, <2>2
<1>5. Chosen(list, positions) = up[N]
  BY DEF Chosen
<1> QED BY <1>4, <1>5

-----------------------------------------------------------------------------
(* What becomes of a turn the vendor names, and of the one turn a vendor that
   names none has open. *)
Turn(n, text) == [ref |-> n, handle |-> <<n, 0>>, text |-> text]

Named(b) == Good(b) /\ \A t \in ToSet(b.open) : t.handle = <<t.ref, 0>>

LEMMA NamedMeant ==
  ASSUME NEW b, Named(b), NEW n \in Int, n # 0, NEW at, NEW t \in TurnType, Meant(b, n, at, t)
  PROVE  t = Turn(n, t.text) /\ t.handle = <<n, 0>>
         /\ (t \in ToSet(b.open) \/ (t.text = <<>> /\ \A u \in ToSet(b.open) : u.ref # n))
  BY DEF Meant, Named, NewTurn, Handle, NoRef, Turn, TurnType

LEMMA NamedStarts ==
  ASSUME NEW b, Named(b), NEW n \in Int, n # 0, NEW at \in Int
  PROVE  LET c == Applied(b, Started(n, at))
         IN /\ Named(c) /\ Said(c) = Said(b) /\ c.closed = b.closed
            /\ (\E u \in ToSet(b.open) : u.ref = n) => ToSet(c.open) = ToSet(b.open)
            /\ (\A u \in ToSet(b.open) : u.ref # n) => ToSet(c.open) = ToSet(b.open) \cup {Turn(n, <<>>)}
<1> DEFINE c == Applied(b, Started(n, at))
<1>1. Good(b) /\ BookKept(b) /\ b \in BookType /\ Resolve(b, n) = n
  BY KeyType DEF Named, Good, BookKept
<1>2. /\ Good(c) /\ Said(c) = Said(b) /\ c.closed = b.closed
      /\ Opens(b, c, n, at)
  <2>1. /\ Good(c) /\ Said(c) = Said(b) /\ c.closed = b.closed
        /\ Opens(b, c, Resolve(b, n), at)
    BY <1>1, StartedKeeps
  <2> QED BY <1>1, <2>1
<1> HIDE DEF c
<1>3. PICK t \in ToSet(c.open) : Meant(b, n, at, t) /\ ToSet(c.open) = ToSet(b.open) \cup {t}
  BY <1>2 DEF Opens
<1>4. t \in TurnType
  <2>1. c \in BookType
    BY <1>2 DEF Good, BookKept
  <2> QED BY <2>1, RowsType
<1>5. t = Turn(n, t.text) /\ (t \in ToSet(b.open) \/ (t.text = <<>> /\ \A u \in ToSet(b.open) : u.ref # n))
  BY <1>3, <1>4, NamedMeant
<1>6. t.handle = <<t.ref, 0>> /\ t.ref = n
  BY <1>5 DEF Turn
<1>7. /\ Named(c)
      /\ (\E u \in ToSet(b.open) : u.ref = n) => ToSet(c.open) = ToSet(b.open)
      /\ (\A u \in ToSet(b.open) : u.ref # n) => ToSet(c.open) = ToSet(b.open) \cup {Turn(n, <<>>)}
  BY <1>2, <1>3, <1>5, <1>6 DEF Named
<1> QED BY <1>2, <1>7 DEF c

(* The turn n is about: one that is open, or one whose first words these are. *)
TurnOf(O, n, t) == t.ref = n /\ (t \in O \/ (t.text = <<>> /\ \A u \in O : u.ref # n))

GrowsOne(b, c, n, s) ==
  \E t \in TurnType :
    /\ TurnOf(ToSet(b.open), n, t)
    /\ ToSet(c.open) = Others(ToSet(b.open), n) \cup {Turn(n, Heard(s, t))}

SettlesOne(b, c, n, new, words) ==
  \E t \in TurnType :
    /\ TurnOf(ToSet(b.open), n, t)
    /\ Said(c) = IF TextLeft(new, t) = <<>> THEN Said(b)
                 ELSE Without(Said(b), <<n, 0>>) \cup {Telling(<<n, 0>>, TextLeft(new, t), words)}

LEMMA NamedGrows ==
  ASSUME NEW b, Named(b), NEW n \in Int, n # 0, n \notin b.closed,
         NEW s, s.sig = "partial", s.ref = n, s.text \in Text, s.append \in BOOLEAN, s.text # <<>>
  PROVE  LET c == Applied(b, s)
         IN /\ Named(c) /\ c.closed = b.closed
            /\ Said(c) = Without(Said(b), <<n, 0>>)
            /\ GrowsOne(b, c, n, s)
<1> DEFINE c == Applied(b, s)
<1>1. Good(b) /\ BookKept(b) /\ b \in BookType
  BY DEF Named, Good, BookKept
<1>2. Resolve(b, n) = n
  BY DEF Resolve, NoRef
<1> HIDE DEF c
<1>3. /\ Good(c) /\ c.closed = b.closed
      /\ Grows(b, c, n, s)
  <2>1. Good(c) /\ c.closed = b.closed /\ Grows(b, c, Resolve(b, s.ref), s)
    BY <1>1, GrownKeeps DEF c
  <2> QED BY <1>2, <2>1
<1>4. PICK t \in TurnType :
        /\ Meant(b, n, -1, t)
        /\ ToSet(c.open) = Others(ToSet(b.open), n) \cup {Saying(t, Heard(s, t))}
        /\ Said(c) = Without(Said(b), t.handle)
  BY <1>3 DEF Grows
<1>5. t = Turn(n, t.text) /\ t.handle = <<n, 0>>
      /\ (t \in ToSet(b.open) \/ (t.text = <<>> /\ \A u \in ToSet(b.open) : u.ref # n))
  BY <1>4, NamedMeant
<1>6. Saying(t, Heard(s, t)) = Turn(n, Heard(s, t)) /\ t.ref = n
  BY <1>5 DEF Saying, Turn
<1>7. Named(c)
  <2>1. \A u \in Others(ToSet(b.open), n) : u.handle = <<u.ref, 0>>
    BY DEF Named, Others
  <2>2. Turn(n, Heard(s, t)).handle = <<Turn(n, Heard(s, t)).ref, 0>>
    BY DEF Turn
  <2> QED BY <1>3, <1>4, <1>6, <2>1, <2>2 DEF Named
<1>8. /\ Said(c) = Without(Said(b), <<n, 0>>)
      /\ GrowsOne(b, c, n, s)
  BY <1>4, <1>5, <1>6 DEF GrowsOne, TurnOf
<1> QED BY <1>3, <1>7, <1>8 DEF c

LEMMA NamedSettles ==
  ASSUME NEW b, Named(b), NEW n \in Int, n # 0, NEW new \in Text, NEW words \in Words
  PROVE  LET c == Applied(b, Final(n, new, words))
         IN /\ Named(c) /\ c.closed = b.closed \cup {n} /\ ToSet(c.open) = Others(ToSet(b.open), n)
            /\ SettlesOne(b, c, n, new, words)
<1> DEFINE c == Applied(b, Final(n, new, words))
<1>1. Good(b) /\ BookKept(b) /\ b \in BookType /\ Resolve(b, n) = n
  BY KeyType DEF Named, Good, BookKept
<1>2. /\ Good(c) /\ c.closed = (IF n = 0 THEN b.closed ELSE b.closed \cup {n})
      /\ Settles(b, c, n, new, words)
  <2>1. /\ Good(c) /\ c.closed = (IF Resolve(b, n) = 0 THEN b.closed ELSE b.closed \cup {Resolve(b, n)})
        /\ Settles(b, c, Resolve(b, n), new, words)
    BY <1>1, ClosedKeeps
  <2> QED BY <1>1, <2>1
<1> HIDE DEF c
<1>3. PICK t \in TurnType :
        /\ Meant(b, n, -1, t)
        /\ ToSet(c.open) = Others(ToSet(b.open), n)
        /\ Said(c) = IF TextLeft(new, t) = <<>> THEN Said(b)
                     ELSE Without(Said(b), t.handle) \cup {Telling(t.handle, TextLeft(new, t), words)}
  BY <1>2 DEF Settles
<1>4. t = Turn(n, t.text) /\ t.handle = <<n, 0>>
      /\ (t \in ToSet(b.open) \/ (t.text = <<>> /\ \A u \in ToSet(b.open) : u.ref # n))
  BY <1>3, NamedMeant
<1>5. t.ref = n
  BY <1>4 DEF Turn
<1>6. Named(c)
  BY <1>2, <1>3 DEF Named, Others
<1>7. SettlesOne(b, c, n, new, words)
  BY <1>3, <1>4, <1>5 DEF SettlesOne, TurnOf
<1> QED BY <1>2, <1>3, <1>6, <1>7 DEF c

(* A vendor that revises its settled turns re-states their words, turn by turn:
   the first k are then told anew, and nothing else has changed. *)
RetoldUpTo(k, N, finals, words, before) ==
  {Telling(<<n, 0>>, finals[n], IF n <= k THEN words ELSE before) : n \in 1..N}

LEMMA RevisesOne ==
  ASSUME NEW b, Named(b), NEW N \in Nat, NEW finals, NEW words \in Words, NEW before,
         \A n \in 1..N : finals[n] \in Text \ {<<>>} /\ n \in b.closed,
         \A u \in ToSet(b.open) : u.ref \notin 1..N,
         NEW k \in 0..(N - 1), Said(b) = RetoldUpTo(k, N, finals, words, before)
  PROVE  LET c == Applied(b, Final(k + 1, finals[k + 1], words))
         IN /\ Named(c) /\ c.closed = b.closed /\ ToSet(c.open) = ToSet(b.open)
            /\ Said(c) = RetoldUpTo(k + 1, N, finals, words, before)
<1> DEFINE m == k + 1
           c == Applied(b, Final(m, finals[m], words))
<1>1. m \in Int /\ m # 0 /\ m \in 1..N /\ finals[m] \in Text /\ finals[m] # <<>>
  OBVIOUS
<1>2. /\ Named(c) /\ c.closed = b.closed \cup {m} /\ ToSet(c.open) = Others(ToSet(b.open), m)
      /\ SettlesOne(b, c, m, finals[m], words)
  <2> HIDE DEF m
  <2> QED BY <1>1, NamedSettles
<1> HIDE DEF c
<1>3. c.closed = b.closed /\ ToSet(c.open) = ToSet(b.open)
  <2>1. Others(ToSet(b.open), m) = ToSet(b.open)
    BY <1>1 DEF Others
  <2> QED BY <1>1, <1>2, <2>1
<1>4. Said(c) = Without(Said(b), <<m, 0>>) \cup {Telling(<<m, 0>>, finals[m], words)}
  BY <1>1, <1>2 DEF SettlesOne, TextLeft
<1>5. Said(c) = RetoldUpTo(m, N, finals, words, before)
  <2> DEFINE old(n) == Telling(<<n, 0>>, finals[n], IF n <= k THEN words ELSE before)
             new(n) == Telling(<<n, 0>>, finals[n], IF n <= m THEN words ELSE before)
  <2>1. Said(b) = {old(n) : n \in 1..N} /\ RetoldUpTo(m, N, finals, words, before) = {new(n) : n \in 1..N}
    BY DEF RetoldUpTo
  <2>2. \A n \in 1..N : n # m => old(n) = new(n)
    OBVIOUS
  <2>3. new(m) = Telling(<<m, 0>>, finals[m], words)
    OBVIOUS
  <2>4. \A n \in 1..N : old(n).handle = <<m, 0>> <=> n = m
    BY DEF Telling
  <2> HIDE DEF old, new, m
  <2>5. Without(Said(b), <<m, 0>>) = {old(n) : n \in 1..N \ {m}}
    BY <2>1, <2>4 DEF Without
  <2>6. {new(n) : n \in 1..N} = {old(n) : n \in 1..N \ {m}} \cup {new(m)}
    BY <1>1, <2>2
  <2> QED BY <1>4, <2>1, <2>3, <2>5, <2>6
<1> QED BY <1>2, <1>3, <1>5 DEF c

LEMMA Revises ==
  ASSUME NEW b, Named(b), NEW N \in Nat, NEW finals, NEW words \in Words, NEW before,
         \A n \in 1..N : finals[n] \in Text \ {<<>>} /\ n \in b.closed,
         \A u \in ToSet(b.open) : u.ref \notin 1..N,
         Said(b) = RetoldUpTo(0, N, finals, words, before)
  PROVE  LET c == ApplyAll(b, [n \in 1..N |-> Final(n, finals[n], words)])
         IN /\ Named(c) /\ c.closed = b.closed /\ ToSet(c.open) = ToSet(b.open)
            /\ Said(c) = RetoldUpTo(N, N, finals, words, before)
<1> DEFINE list == [n \in 1..N |-> Final(n, finals[n], words)]
           next(x, n) == Applied(x, Final(n, finals[n], words))
           S == {x \in BookType : Named(x)}
           step == [p \in S \X (1..N) |-> next(p[1], p[2])]
           D(f) == [n \in 0..Len(list) |-> IF n = 0 THEN b ELSE Applied(f[n - 1], list[n])]
           after == CHOOSE f : f = D(f)
           Kept(x, n) == /\ Named(x) /\ x.closed = b.closed /\ ToSet(x.open) = ToSet(b.open)
                         /\ Said(x) = RetoldUpTo(n, N, finals, words, before)
<1>0. Len(list) = N /\ \A n \in 1..N : list[n] = Final(n, finals[n], words)
  OBVIOUS
<1>1. \A x : Named(x) => x \in S
  BY DEF Named, Good, BookKept
<1>2. after = D(after)
  <2>1. ASSUME NEW x \in S, NEW n \in 1..N PROVE next(x, n) \in S
    <3>1. n \in Int /\ n # 0 /\ finals[n] \in Text /\ Named(x)
      OBVIOUS
    <3>2. Named(next(x, n))
      BY <3>1, NamedSettles
    <3> HIDE DEF next, S
    <3> QED BY <1>1, <3>2
  <2>2. step \in [S \X (1..N) -> S]
    <3> HIDE DEF next, S
    <3> QED BY <2>1
  <2>3. PICK f : Computes(f, S, b, N, step)
    <3>1. b \in S
      BY <1>1
    <3> HIDE DEF step, S
    <3> QED BY <2>2, <3>1, Recursion
  <2>4. f = D(f)
    <3>1. f \in [0..N -> S] /\ \A n \in 0..N : f[n] = IF n = 0 THEN b ELSE step[<<f[n - 1], n>>]
      BY <2>3 DEF Computes
    <3>2. \A n \in 0..N : n # 0 => n - 1 \in 0..N /\ n \in 1..N
      OBVIOUS
    <3>3. \A n \in 0..N : n # 0 => step[<<f[n - 1], n>>] = Applied(f[n - 1], list[n])
      <4> HIDE DEF list, S
      <4> QED BY <1>0, <3>1, <3>2
    <3> HIDE DEF step, list, S
    <3>4. f = [n \in 0..N |-> f[n]]
      BY <3>1
    <3>5. [n \in 0..N |-> f[n]] = [n \in 0..N |-> IF n = 0 THEN b ELSE Applied(f[n - 1], list[n])]
      BY <3>1, <3>3
    <3> QED BY <1>0, <3>4, <3>5
  <2> HIDE DEF D
  <2> QED BY <2>4
<1>3. \A n \in 0..N : after[n] = IF n = 0 THEN b ELSE next(after[n - 1], n)
  <2>1. \A n \in 0..N : after[n] = IF n = 0 THEN b ELSE Applied(after[n - 1], list[n])
    <3> HIDE DEF after, list
    <3> QED BY <1>0, <1>2
  <2>2. \A n \in 0..N : n # 0 => n \in 1..N
    OBVIOUS
  <2> HIDE DEF after, list
  <2> QED BY <1>0, <2>1, <2>2
<1> DEFINE P == {n \in 0..N : Kept(after[n], n)}
<1>4. 0 \in P
  <2> HIDE DEF after
  <2>1. after[0] = b /\ 0 \in 0..N
    BY <1>3
  <2> QED BY <2>1
<1>5. ASSUME NEW n \in 0..(N - 1), n \in P PROVE n + 1 \in P
  <2> HIDE DEF after
  <2>1. n + 1 \in 0..N /\ n + 1 # 0 /\ n + 1 - 1 = n
    OBVIOUS
  <2>2. after[n + 1] = next(after[n], n + 1)
    BY <1>3, <2>1
  <2>3. Kept(after[n], n)
    BY <1>5
  <2>4. Kept(next(after[n], n + 1), n + 1)
    <3> DEFINE x == after[n]
    <3>1. /\ Named(x) /\ x.closed = b.closed /\ ToSet(x.open) = ToSet(b.open)
          /\ Said(x) = RetoldUpTo(n, N, finals, words, before)
      BY <2>3
    <3> HIDE DEF x
    <3>2. /\ \A i \in 1..N : finals[i] \in Text \ {<<>>} /\ i \in x.closed
          /\ \A u \in ToSet(x.open) : u.ref \notin 1..N
      BY <3>1
    <3>3. Kept(next(x, n + 1), n + 1)
      BY <3>1, <3>2, RevisesOne
    <3> QED BY <3>3 DEF x
  <2> HIDE DEF Kept, next
  <2> QED BY <2>1, <2>2, <2>4
<1>6. N \in P
  <2> HIDE DEF P
  <2> QED BY <1>4, <1>5, Climb
<1>7. ApplyAll(b, list) = after[N]
  BY <1>0 DEF ApplyAll
<1>8. Kept(ApplyAll(b, list), N)
  <2> HIDE DEF Kept, after, list
  <2> QED BY <1>6, <1>7
<1> HIDE DEF after
<1> QED BY <1>8

(* A vendor that names no turns has one open, told from where it began; the
   first signal of a turn opens it, and the last of these signals tells it. *)
Lone(at, text) == [ref |-> 0, handle |-> <<0, at>>, text |-> text]

Showing(text) == Partial(0, text, FALSE)

LoneFor(b, at, signals, last) ==
  \/ ToSet(b.open) = {} /\ signals = <<Started(0, at), last>>
  \/ (\E old \in Text : ToSet(b.open) = {Lone(at, old)}) /\ signals = <<last>>

LEMMA LoneStarts ==
  ASSUME NEW b, Good(b), ToSet(b.open) = {}, NEW at \in Int
  PROVE  LET c == Applied(b, Started(0, at))
         IN Good(c) /\ Said(c) = Said(b) /\ ToSet(c.open) = {Lone(at, <<>>)}
<1> DEFINE c == Applied(b, Started(0, at))
<1>1. b \in BookType /\ 0 \in Int /\ Resolve(b, 0) = 0
  <2>1. b \in BookType /\ 0 \in Int
    BY DEF Good, BookKept
  <2> QED BY <2>1, KeyType
<1>2. Good(c) /\ Said(c) = Said(b) /\ Opens(b, c, 0, at)
  <2>1. Good(c) /\ Said(c) = Said(b) /\ Opens(b, c, Resolve(b, 0), at)
    BY <1>1, StartedKeeps
  <2> QED BY <1>1, <2>1
<1> HIDE DEF c
<1>3. PICK t \in ToSet(c.open) : Meant(b, 0, at, t) /\ ToSet(c.open) = ToSet(b.open) \cup {t}
  BY <1>2 DEF Opens
<1>4. t = Lone(at, <<>>)
  BY <1>3 DEF Meant, NewTurn, Handle, NoRef, Lone
<1> QED BY <1>2, <1>3, <1>4 DEF c

LEMMA LoneKey ==
  ASSUME NEW b, Good(b), NEW at \in Int, NEW old \in Text, ToSet(b.open) = {Lone(at, old)}
  PROVE  /\ b \in BookType /\ 0 \in Int /\ Resolve(b, 0) = 0 /\ Others(ToSet(b.open), 0) = {}
         /\ \A t : Meant(b, 0, -1, t) => t = Lone(at, old) /\ t.handle = <<0, at>>
<1>1. b \in BookType /\ 0 \in Int /\ \A t \in ToSet(b.open) : t.ref = 0
  BY DEF Good, BookKept, Lone
<1>2. Resolve(b, 0) = 0
  BY <1>1, KeyType
<1> QED BY <1>1, <1>2 DEF Meant, Lone, Others

LEMMA LoneGrows ==
  ASSUME NEW b, Good(b), NEW at \in Int, NEW old \in Text, ToSet(b.open) = {Lone(at, old)},
         NEW s, s.sig = "partial", s.ref = 0, ~s.append, s.append \in BOOLEAN,
         s.text \in Text, s.text # <<>>
  PROVE  LET c == Applied(b, s)
         IN /\ Good(c) /\ ToSet(c.open) = {Lone(at, s.text)}
            /\ Said(c) = Without(Said(b), <<0, at>>)
<1> DEFINE c == Applied(b, s)
<1>1. /\ b \in BookType /\ 0 \in Int /\ Resolve(b, 0) = 0 /\ Others(ToSet(b.open), 0) = {}
      /\ \A t : Meant(b, 0, -1, t) => t = Lone(at, old) /\ t.handle = <<0, at>>
  BY LoneKey
<1>2. Good(c) /\ Grows(b, c, 0, s)
  <2>1. Good(c) /\ (~(s.ref # 0 /\ s.ref \in b.closed) => Grows(b, c, Resolve(b, s.ref), s))
    BY <1>1, GrownKeeps
  <2> HIDE DEF c
  <2> QED BY <1>1, <2>1
<1> HIDE DEF c
<1>3. PICK t \in TurnType :
        /\ Meant(b, 0, -1, t)
        /\ ToSet(c.open) = Others(ToSet(b.open), 0) \cup {Saying(t, Heard(s, t))}
        /\ Said(c) = Without(Said(b), t.handle)
  BY <1>2 DEF Grows
<1>4. Saying(t, Heard(s, t)) = Lone(at, s.text) /\ t.handle = <<0, at>>
  BY <1>1, <1>3 DEF Saying, Heard, Lone
<1> QED BY <1>1, <1>2, <1>3, <1>4 DEF c

LEMMA LoneSettles ==
  ASSUME NEW b, Good(b), NEW at \in Int, NEW old \in Text, ToSet(b.open) = {Lone(at, old)},
         NEW new \in Text, new # <<>>, NEW words \in Words
  PROVE  LET c == Applied(b, Final(0, new, words))
         IN /\ Good(c) /\ ToSet(c.open) = {}
            /\ Said(c) = Without(Said(b), <<0, at>>) \cup {Telling(<<0, at>>, new, words)}
<1> DEFINE c == Applied(b, Final(0, new, words))
<1>1. /\ b \in BookType /\ 0 \in Int /\ Resolve(b, 0) = 0 /\ Others(ToSet(b.open), 0) = {}
      /\ \A t : Meant(b, 0, -1, t) => t = Lone(at, old) /\ t.handle = <<0, at>>
  BY LoneKey
<1>2. Good(c) /\ Settles(b, c, 0, new, words)
  <2>1. Good(c) /\ Settles(b, c, Resolve(b, 0), new, words)
    BY <1>1, ClosedKeeps
  <2> HIDE DEF c
  <2> QED BY <1>1, <2>1
<1> HIDE DEF c
<1>3. PICK t \in TurnType :
        /\ Meant(b, 0, -1, t)
        /\ ToSet(c.open) = Others(ToSet(b.open), 0)
        /\ Said(c) = IF TextLeft(new, t) = <<>> THEN Said(b)
                     ELSE Without(Said(b), t.handle) \cup {Telling(t.handle, TextLeft(new, t), words)}
  BY <1>2 DEF Settles
<1>4. TextLeft(new, t) = new /\ t.handle = <<0, at>>
  BY <1>1, <1>3 DEF TextLeft
<1> QED BY <1>1, <1>2, <1>3, <1>4 DEF c

(* What the signals of one message do, whether or not they open the turn. *)
LEMMA Pair ==
  ASSUME NEW x, NEW y
  PROVE  Append(<<x>>, y) = <<x, y>> /\ Append(<<>>, y) = <<y>>
<1> DEFINE S == {x, y}
<1>1. x \in S /\ y \in S
  OBVIOUS
<1> HIDE DEF S
<1>2. <<x>> \in Seq(S) /\ <<x, y>> \in Seq(S) /\ Len(<<x>>) = 1
  BY <1>1
<1>3. Append(<<x>>, y) \in Seq(S) /\ Len(Append(<<x>>, y)) = 2
      /\ Append(<<x>>, y)[1] = x /\ Append(<<x>>, y)[2] = y
  BY <1>1, <1>2
<1> DEFINE s == Append(<<x>>, y)
           t == <<x, y>>
<1>4. Len(t) = 2 /\ t[1] = x /\ t[2] = y
  OBVIOUS
<1>5. \A i \in 1..2 : s[i] = t[i]
  <2> HIDE DEF s, t
  <2>1. \A i \in 1..2 : i = 1 \/ i = 2
    OBVIOUS
  <2> QED BY <1>3, <1>4, <2>1 DEF s
<1>6. s = t
  <2>1. s \in Seq(S) /\ t \in Seq(S) /\ Len(s) = 2 /\ Len(t) = 2
    BY <1>2, <1>3, <1>4
  <2> HIDE DEF s, t
  <2> QED BY <1>5, <2>1
<1>7. Append(<<>>, y) = <<y>>
  OBVIOUS
<1> QED BY <1>6, <1>7

Ready(b, at, signals, last) ==
  \E c : /\ Good(c) /\ Said(c) = Said(b) /\ ApplyAll(b, signals) = Applied(c, last)
         /\ \E old \in Text : ToSet(c.open) = {Lone(at, old)}

LEMMA LoneReady ==
  ASSUME NEW b, Good(b), NEW at \in Int, NEW last, NEW signals, LoneFor(b, at, signals, last)
  PROVE  Ready(b, at, signals, last)
<1>1. CASE ToSet(b.open) = {} /\ signals = <<Started(0, at), last>>
  <2> DEFINE c == Applied(b, Started(0, at))
  <2>1. Good(c) /\ Said(c) = Said(b) /\ ToSet(c.open) = {Lone(at, <<>>)}
    BY <1>1, LoneStarts
  <2>2. ApplyAll(b, signals) = Applied(c, last)
    BY <1>1, AppliesTwo
  <2>3. <<>> \in Text
    BY DEF Text
  <2> HIDE DEF c
  <2> QED BY <2>1, <2>2, <2>3 DEF Ready
<1>2. CASE (\E old \in Text : ToSet(b.open) = {Lone(at, old)}) /\ signals = <<last>>
  BY <1>2, AppliesOne DEF Ready
<1> QED BY <1>1, <1>2 DEF LoneFor

Untold(b, at) == \A x \in Said(b) : x.handle # <<0, at>>

TellsLone(b, c, at, new) == Good(c) /\ Said(c) = Said(b) /\ ToSet(c.open) = {Lone(at, new)}

ClosesLone(b, c, at, new, words) ==
  Good(c) /\ Said(c) = Said(b) \cup {Telling(<<0, at>>, new, words)} /\ ToSet(c.open) = {}

LEMMA LoneTells ==
  ASSUME NEW b, Good(b), NEW at \in Int, NEW new \in Text, new # <<>>, NEW signals,
         Untold(b, at), LoneFor(b, at, signals, Showing(new))
  PROVE  TellsLone(b, ApplyAll(b, signals), at, new)
<1> DEFINE s == Showing(new)
<1>1. s.sig = "partial" /\ s.ref = 0 /\ ~s.append /\ s.append \in BOOLEAN /\ s.text = new
  BY DEF Showing, Partial
<1>0. LoneFor(b, at, signals, s)
  OBVIOUS
<1> HIDE DEF s
<1> Ready(b, at, signals, s)
  BY <1>0, LoneReady
<1>2. PICK c : /\ Good(c) /\ Said(c) = Said(b) /\ ApplyAll(b, signals) = Applied(c, s)
               /\ \E old \in Text : ToSet(c.open) = {Lone(at, old)}
  BY DEF Ready
<1>3. PICK old \in Text : ToSet(c.open) = {Lone(at, old)}
  BY <1>2
<1>4. LET d == Applied(c, s)
      IN Good(d) /\ ToSet(d.open) = {Lone(at, s.text)} /\ Said(d) = Without(Said(c), <<0, at>>)
  BY <1>1, <1>2, <1>3, LoneGrows
<1>5. Without(Said(b), <<0, at>>) = Said(b)
  BY DEF Without, Untold
<1> QED BY <1>1, <1>2, <1>4, <1>5 DEF TellsLone

LEMMA LoneCloses ==
  ASSUME NEW b, Good(b), NEW at \in Int, NEW new \in Text, new # <<>>, NEW words \in Words,
         NEW signals, Untold(b, at), LoneFor(b, at, signals, Final(0, new, words))
  PROVE  ClosesLone(b, ApplyAll(b, signals), at, new, words)
<1> DEFINE s == Final(0, new, words)
<1>0. LoneFor(b, at, signals, s)
  OBVIOUS
<1>1. PICK c : /\ Good(c) /\ Said(c) = Said(b) /\ ApplyAll(b, signals) = Applied(c, s)
               /\ \E old \in Text : ToSet(c.open) = {Lone(at, old)}
  <2> HIDE DEF s
  <2>1. Ready(b, at, signals, s)
    BY <1>0, LoneReady
  <2> QED BY <2>1 DEF Ready
<1>2. PICK old \in Text : ToSet(c.open) = {Lone(at, old)}
  BY <1>1
<1>3. LET d == Applied(c, s)
      IN /\ Good(d) /\ ToSet(d.open) = {}
         /\ Said(d) = Without(Said(c), <<0, at>>) \cup {Telling(<<0, at>>, new, words)}
  BY <1>1, <1>2, LoneSettles
<1>4. Without(Said(b), <<0, at>>) = Said(b)
  BY DEF Without, Untold
<1> HIDE DEF s
<1> QED BY <1>1, <1>3, <1>4 DEF ClosesLone

-----------------------------------------------------------------------------
(* A list of parts is joined one part after the other. *)
Joins(f, parts) ==
  /\ f \in [0..Len(parts) -> Seq(Int)] /\ f[0] = <<>>
  /\ \A i \in 1..Len(parts) : f[i] = f[i - 1] \o parts[i]

LEMMA Flattens ==
  ASSUME NEW parts \in Seq(Seq(Int))
  PROVE  \E f : Joins(f, parts) /\ FlattenSeq(parts) = f[Len(parts)]
<1> DEFINE N == Len(parts)
           base == << >>
           step == [p \in Seq(Int) \X (1..N) |-> p[1] \o parts[p[2]]]
           D(f) == [i \in 1..N |-> IF i = 1 THEN parts[i] ELSE f[i - 1] \o parts[i]]
           flatten == CHOOSE f : f = D(f)
<1>0. N \in Nat /\ base \in Seq(Int) /\ \A i \in 1..N : parts[i] \in Seq(Int)
  OBVIOUS
<1>1. PICK f : Computes(f, Seq(Int), base, N, step)
  <2>1. step \in [Seq(Int) \X (1..N) -> Seq(Int)]
    <3> HIDE DEF N
    <3>1. ASSUME NEW p \in Seq(Int) \X (1..N) PROVE p[1] \o parts[p[2]] \in Seq(Int)
      BY <1>0
    <3> QED BY <3>1
  <2> HIDE DEF N, base, step
  <2> QED BY <1>0, <2>1, Recursion
<1> HIDE DEF N, base
<1>2. f \in [0..N -> Seq(Int)] /\ f[0] = base
  <2>1. 0 \in 0..N
    BY <1>0
  <2> QED BY <1>1, <2>1 DEF Computes
<1>3. ASSUME NEW i \in 1..N PROVE f[i] = f[i - 1] \o parts[i]
  <2>1. i \in 0..N /\ i - 1 \in 0..N /\ i # 0
    BY <1>0
  <2>2. f[i] = step[<<f[i - 1], i>>] /\ f[i - 1] \in Seq(Int)
    BY <1>1, <1>2, <2>1 DEF Computes
  <2> QED BY <2>2
<1> HIDE DEF step
<1>4. Joins(f, parts)
  BY <1>2, <1>3 DEF Joins, N, base
<1>5. CASE N = 0
  <2>1. parts = <<>>
    BY <1>5 DEF N
  <2>2. FlattenSeq(parts) = parts
    BY <1>5 DEF FlattenSeq, N
  <2>3. f[N] = base
    BY <1>2, <1>5
  <2> QED BY <1>4, <2>1, <2>2, <2>3 DEF N, base
<1>6. CASE N # 0
  <2> DEFINE g == [i \in 1..N |-> f[i]]
  <2>1. g = D(g)
    <3>1. ASSUME NEW i \in 1..N PROVE g[i] = IF i = 1 THEN parts[i] ELSE g[i - 1] \o parts[i]
      <4>1. CASE i = 1
        <5>1. f[1] = base \o parts[1] /\ parts[1] \in Seq(Int)
          <6>1. 1 \in 1..N /\ 1 - 1 = 0
            BY <4>1
          <6>2. f[1] = f[1 - 1] \o parts[1]
            BY <1>3, <6>1
          <6> QED BY <1>0, <1>2, <6>1, <6>2
        <5>2. base \o parts[1] = parts[1]
          BY <5>1 DEF base
        <5> QED BY <4>1, <5>1, <5>2
      <4>2. CASE i # 1
        <5>1. i - 1 \in 1..N
          BY <1>0, <4>2
        <5> QED BY <1>3, <4>2, <5>1
      <4> QED BY <4>1, <4>2
    <3> QED BY <3>1
  <2>2. flatten = D(flatten)
    <3> HIDE DEF D, g
    <3> QED BY <2>1
  <2>3. \A i \in 1..N : flatten[i] = IF i = 1 THEN parts[i] ELSE flatten[i - 1] \o parts[i]
    <3> HIDE DEF flatten
    <3> QED BY <2>2
  <2>4. FlattenSeq(parts) = flatten[N]
    BY <1>6 DEF FlattenSeq, N
  <2> DEFINE P == {n \in 0..N : n # 0 => flatten[n] = f[n]}
  <2>5. 0 \in P
    BY <1>0
  <2>6. ASSUME NEW n \in 0..(N - 1), n \in P PROVE n + 1 \in P
    <3> HIDE DEF flatten, g
    <3> DEFINE k == n + 1
    <3>1. k \in 1..N /\ k \in 0..N /\ k - 1 = n /\ (n = 0 => k = 1) /\ (n # 0 => k # 1)
      BY <1>0
    <3> HIDE DEF k
    <3>2. f[k] = f[n] \o parts[k]
      <4>1. f[k] = f[k - 1] \o parts[k]
        BY <1>3, <3>1
      <4> QED BY <3>1, <4>1
    <3>3. CASE n = 0
      <4>1. flatten[k] = parts[k]
        BY <2>3, <3>1, <3>3
      <4>2. f[k] = base \o parts[k] /\ parts[k] \in Seq(Int)
        BY <1>0, <1>2, <3>1, <3>2, <3>3
      <4>3. base \o parts[k] = parts[k]
        BY <4>2 DEF base
      <4> QED BY <3>1, <4>1, <4>2, <4>3 DEF k
    <3>4. CASE n # 0
      <4>1. flatten[k] = flatten[k - 1] \o parts[k]
        BY <2>3, <3>1, <3>4
      <4>2. flatten[n] = f[n]
        BY <2>6, <3>4
      <4> QED BY <3>1, <3>2, <4>1, <4>2 DEF k
    <3> QED BY <3>3, <3>4
  <2>7. N \in P
    <3> HIDE DEF P
    <3>1. \A n \in 0..N : n \in P
      BY <1>0, <2>5, <2>6, Climb
    <3> QED BY <1>0, <3>1
  <2>8. FlattenSeq(parts) = f[N]
    <3> HIDE DEF flatten
    <3> QED BY <1>6, <2>4, <2>7
  <2> QED BY <1>4, <2>8 DEF N
<1> QED BY <1>5, <1>6

(* Of parts over some numbers the join is over them too. *)
LEMMA FlatOver ==
  ASSUME NEW S \in SUBSET Int, NEW parts \in Seq(Seq(S))
  PROVE  FlattenSeq(parts) \in Seq(S)
<1> DEFINE N == Len(parts)
<1>1. N \in Nat /\ parts \in Seq(Seq(Int)) /\ \A i \in 1..N : parts[i] \in Seq(S)
  <2>1. N \in Nat /\ \A i \in 1..N : parts[i] \in Seq(S)
    OBVIOUS
  <2>2. ASSUME NEW s \in Seq(S) PROVE s \in Seq(Int)
    <3>1. S \subseteq Int
      OBVIOUS
    <3> QED BY <3>1, SeqMonotonic
  <2> DEFINE A == Seq(S)
             B == Seq(Int)
  <2>3. parts \in Seq(A) /\ A \subseteq B
    BY <2>2
  <2> HIDE DEF A, B
  <2>4. parts \in Seq(B)
    BY <2>3, SeqMonotonic
  <2> QED BY <2>1, <2>4 DEF B
<1>2. PICK f : Joins(f, parts) /\ FlattenSeq(parts) = f[Len(parts)]
  BY <1>1, Flattens
<1>3. f[0] = <<>> /\ \A i \in 1..N : f[i] = f[i - 1] \o parts[i]
  BY <1>2 DEF Joins
<1> DEFINE P == {n \in 0..N : f[n] \in Seq(S)}
<1> HIDE DEF N
<1>4. 0 \in P
  <2> DEFINE none == << >>
  <2>1. none \in Seq(S) /\ f[0] = none /\ 0 \in 0..N
    BY <1>1, <1>3
  <2> HIDE DEF none
  <2> QED BY <2>1
<1>5. ASSUME NEW n \in 0..(N - 1), n \in P PROVE n + 1 \in P
  <2> DEFINE k == n + 1
  <2>1. k \in 1..N /\ k \in 0..N /\ k - 1 = n
    BY <1>1
  <2> HIDE DEF k
  <2>2. f[k] = f[n] \o parts[k] /\ f[n] \in Seq(S) /\ parts[k] \in Seq(S)
    BY <1>1, <1>3, <1>5, <2>1
  <2>3. f[k] \in Seq(S)
    BY <2>2
  <2> QED BY <2>1, <2>3 DEF k
<1>6. N \in P
  <2> HIDE DEF P
  <2>1. \A n \in 0..N : n \in P
    BY <1>1, <1>4, <1>5, Climb
  <2> QED BY <1>1, <2>1
<1> QED BY <1>2, <1>6 DEF N

(* A list is a list over whatever its elements are in. *)
LEMMA SeqOver ==
  ASSUME NEW B, NEW A, NEW s \in Seq(B), \A i \in 1..Len(s) : s[i] \in A
  PROVE  s \in Seq(A)
<1>1. Len(s) \in Nat /\ s \in [1..Len(s) -> B]
  OBVIOUS
<1>2. s = [i \in 1..Len(s) |-> s[i]]
  BY <1>1
<1>3. s \in [1..Len(s) -> A]
  BY <1>2
<1> QED BY <1>1, <1>3

LEMMA FlatNone ==
  ASSUME NEW parts \in Seq(Seq(Int)), \A i \in 1..Len(parts) : parts[i] = <<>>
  PROVE  FlattenSeq(parts) = <<>>
<1> DEFINE S == {}
<1>1. parts \in Seq(Seq(S))
  <2> DEFINE none == << >>
             A == Seq(S)
  <2>1. none \in A
    OBVIOUS
  <2>2. \A i \in 1..Len(parts) : parts[i] = none
    OBVIOUS
  <2> HIDE DEF A, none
  <2>3. \A i \in 1..Len(parts) : parts[i] \in A
    BY <2>1, <2>2
  <2>4. parts \in Seq(A)
    BY <2>3, SeqOver
  <2> QED BY <2>4 DEF A
<1>2. FlattenSeq(parts) \in Seq(S) /\ S \subseteq Int
  <2>1. S \in SUBSET Int
    OBVIOUS
  <2> HIDE DEF S
  <2> QED BY <1>1, <2>1, FlatOver
<1> QED BY <1>2

(* A part said after the others, where there was none, is at the end. *)
LEMMA FlatSays ==
  ASSUME NEW old \in Seq(Seq(Int)), NEW new \in Seq(Seq(Int)), NEW n \in 1..Len(old), NEW text \in Seq(Int),
         \A m \in n..Len(old) : old[m] = <<>>, Len(new) = Len(old), new[n] = text,
         \A m \in 1..Len(old) : m # n => new[m] = old[m]
  PROVE  FlattenSeq(new) = FlattenSeq(old) \o text
<1> DEFINE N == Len(old)
<1>1. N \in Nat /\ n \in 1..N /\ n \in Nat /\ Len(new) = N
  OBVIOUS
<1>2. PICK f : Joins(f, old) /\ FlattenSeq(old) = f[Len(old)]
  BY Flattens
<1>3. PICK g : Joins(g, new) /\ FlattenSeq(new) = g[Len(new)]
  BY Flattens
<1>4. f[0] = <<>> /\ (\A i \in 1..N : f[i] = f[i - 1] \o old[i]) /\ \A i \in 0..N : f[i] \in Seq(Int)
  BY <1>2 DEF Joins
<1>5. g[0] = <<>> /\ (\A i \in 1..N : g[i] = g[i - 1] \o new[i]) /\ \A i \in 0..N : g[i] \in Seq(Int)
  BY <1>1, <1>3 DEF Joins
<1>6. /\ \A m \in 1..N : m >= n => old[m] = <<>>
      /\ \A m \in 1..N : m # n => new[m] = old[m]
  OBVIOUS
<1>7. \A s \in Seq(Int) : s \o <<>> = s
  OBVIOUS
<1> DEFINE P == {i \in 0..N : IF i < n THEN g[i] = f[i] ELSE g[i] = f[i] \o text}
<1> HIDE DEF N
<1>8. 0 \in P
  <2>1. 0 < n /\ 0 \in 0..N /\ f[0] = g[0]
    BY <1>1, <1>4, <1>5
  <2> QED BY <2>1
<1>9. ASSUME NEW i \in 0..(N - 1), i \in P PROVE i + 1 \in P
  <2> DEFINE k == i + 1
  <2>1. k \in 1..N /\ k \in 0..N /\ k - 1 = i /\ i \in 0..N /\ i \in Nat
    BY <1>1
  <2>0. k = i + 1
    OBVIOUS
  <2> HIDE DEF k
  <2>2. f[k] = f[i] \o old[k] /\ g[k] = g[i] \o new[k] /\ f[i] \in Seq(Int) /\ g[i] \in Seq(Int)
    BY <1>4, <1>5, <2>1
  <2>3. CASE k < n
    <3>1. i < n /\ new[k] = old[k]
      BY <1>1, <1>6, <2>0, <2>1, <2>3
    <3>2. g[i] = f[i]
      BY <1>9, <3>1
    <3> QED BY <2>0, <2>1, <2>2, <2>3, <3>1, <3>2
  <2>4. CASE k = n
    <3>1. i < n /\ ~(k < n) /\ old[k] = <<>>
      BY <1>1, <1>6, <2>0, <2>1, <2>4
    <3>2. g[i] = f[i] /\ f[k] = f[i]
      BY <1>7, <1>9, <2>2, <3>1
    <3>3. g[k] = f[k] \o text
      BY <2>2, <2>4, <3>2
    <3> QED BY <2>0, <2>1, <3>1, <3>3
  <2>5. CASE k > n
    <3>1. ~(i < n) /\ ~(k < n) /\ old[k] = <<>> /\ new[k] = old[k]
      BY <1>1, <1>6, <2>0, <2>1, <2>5
    <3>2. g[i] = f[i] \o text
      BY <1>9, <3>1
    <3>3. f[k] = f[i] /\ g[k] = g[i]
      BY <1>7, <2>2, <3>1
    <3> QED BY <2>0, <2>1, <3>1, <3>2, <3>3
  <2> QED BY <1>1, <2>1, <2>3, <2>4, <2>5
<1>10. N \in P
  <2> HIDE DEF P
  <2>1. \A i \in 0..N : i \in P
    BY <1>1, <1>8, <1>9, Climb
  <2> QED BY <1>1, <2>1
<1>11. g[N] = f[N] \o text
  BY <1>1, <1>10
<1> QED BY <1>1, <1>2, <1>3, <1>11 DEF N

=============================================================================
