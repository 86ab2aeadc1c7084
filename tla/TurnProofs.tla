----------------------------- MODULE TurnProofs ------------------------------
(***************************************************************************)
(* Lemmas about the connectors.  Of the streaming ones, a section for each *)
(* vendor: BookProofs says what a signal does to the books; here an        *)
(* invariant ties a connector's state and the books to what its service is *)
(* in the middle of (OpenAIKnows, AssemblyAIKnows, GeminiKnows,            *)
(* DeepgramKnows, XaiKnows), holds at first and is kept by every step: for *)
(* any number of turns, segments, words and increments.  Then the calls of *)
(* one utterance, over HTTP (BatchKnows) and over a socket (CallKnows).    *)
(* SocketProofs draws the theorems from them.                              *)
(***************************************************************************)
EXTENDS ConnectorProps, TLAPS

BK == INSTANCE BookProofs

-----------------------------------------------------------------------------
(* The five connectors apply their signals to the same books, OpenAI's first. *)
LEMMA OpenAISignals ==
  /\ \A b, s : OA!Applied(b, s) = BK!Applied(b, s)
  /\ \A b : OA!SettledBook(b) = BK!SettledBook(b)
  /\ \A n, at : OA!Started(n, at) = BK!Started(n, at)
  /\ \A n, text, append : OA!Partial(n, text, append) = BK!Partial(n, text, append)
  /\ \A n, text, words : OA!Final(n, text, words) = BK!Final(n, text, words)
<1>1. ASSUME NEW b, NEW r, NEW at, NEW i, NEW s
      PROVE  /\ OA!Resolve(b, r) = BK!Resolve(b, r) /\ OA!PlaceOf(b, r) = BK!PlaceOf(b, r)
             /\ OA!Opened(b, r, at) = BK!Opened(b, r, at)
             /\ OA!GrownAt(b, i, s) = BK!GrownAt(b, i, s)
             /\ OA!Closed(b, s) = BK!Closed(b, s)
  <2>1. OA!Resolve(b, r) = BK!Resolve(b, r) /\ OA!PlaceOf(b, r) = BK!PlaceOf(b, r)
    BY DEF OA!Resolve, OA!NoRef, OA!PlaceOf, OA!OpenAt, BK!Resolve, BK!NoRef, BK!PlaceOf, BK!OpenAt
  <2>2. OA!Opened(b, r, at) = BK!Opened(b, r, at)
    BY DEF OA!Opened, OA!OpenAt, OA!Resolve, OA!Handle, OA!NoRef,
           BK!Opened, BK!OpenAt, BK!Resolve, BK!Handle, BK!NoRef
  <2>3. OA!GrownAt(b, i, s) = BK!GrownAt(b, i, s)
    BY DEF OA!GrownAt, OA!Emit, OA!Put, BK!GrownAt, BK!Emit, BK!Put
  <2>4. OA!Closed(b, s) = BK!Closed(b, s)
    BY DEF OA!Closed, OA!PlaceOf, OA!OpenAt, OA!Resolve, OA!Emit, OA!Put, OA!Handle,
           OA!NoRef, OA!RemoveAt, BK!Closed, BK!PlaceOf, BK!OpenAt, BK!Resolve, BK!Emit, BK!Put,
           BK!Handle, BK!NoRef, BK!RemoveAt
  <2> QED BY <2>1, <2>2, <2>3, <2>4
<1>2. ASSUME NEW b, NEW s PROVE OA!Applied(b, s) = BK!Applied(b, s)
  <2>1. OA!Grown(b, s) = BK!Grown(b, s)
    BY <1>1 DEF OA!Grown, BK!Grown, OA!NoRef, BK!NoRef
  <2> QED BY <1>1, <2>1 DEF OA!Applied, BK!Applied
<1>3. ASSUME NEW b PROVE OA!SettledBook(b) = BK!SettledBook(b)
  BY DEF OA!SettledBook, OA!Emit, OA!Put, BK!SettledBook, BK!Emit, BK!Put
<1>4. /\ \A n, at : OA!Started(n, at) = BK!Started(n, at)
      /\ \A n, text, append : OA!Partial(n, text, append) = BK!Partial(n, text, append)
      /\ \A n, text, words : OA!Final(n, text, words) = BK!Final(n, text, words)
  BY DEF OA!Started, OA!Partial, OA!Final, BK!Started, BK!Partial, BK!Final
<1> QED BY <1>2, <1>3, <1>4

-----------------------------------------------------------------------------
(* OpenAI names its items and tells each in its own order.  An item being
   heard has a turn with the words that came of it; one that is done is closed,
   and what is said is of items that are done. *)
Being(s, n) == s[n].phase \in {"speaking", "stopped"}

ItemTurn(s, n) == BK!Turn(n, OA!Deltas(n, s[n].deltas))

ItemTurns(s) == {ItemTurn(s, n) : n \in {m \in 1..MaxTurns : Being(s, m)}}

DoneItems(s) == {n \in 1..MaxTurns : s[n].phase = "done"}

OpenAIItems ==
  /\ svc \in [1..MaxTurns -> [phase : {"unheard", "speaking", "stopped", "done"}, deltas : Nat]]
  /\ \A n \in 1..MaxTurns : svc[n].phase = "unheard" => svc[n].deltas = 0

OpenAIBooks ==
  /\ BK!Named(book) /\ BK!Said(book) = said /\ BK!ToSet(book.open) = ItemTurns(svc)
  /\ \A x \in said : \E n \in DoneItems(svc) : x.handle = <<n, 0>>
  /\ book.closed = DoneItems(svc)

(* However a connection ended, its books are good and nothing is an interim. *)
AllSettled == \A r \in BK!ToSet(book.rows) : r.final

OpenAIKnows ==
  /\ OpenAIItems /\ BK!Good(book)
  /\ ended = "no" => OpenAIBooks
  /\ ended # "no" => AllSettled

LEMMA EmptyBooks ==
  /\ BK!Named(BK!EmptyBook) /\ BK!Said(BK!EmptyBook) = {} /\ BK!ToSet(BK!EmptyBook.open) = {}
  /\ BK!EmptyBook.closed = {}
<1> DEFINE b == BK!EmptyBook
<1>1. b.open = <<>> /\ b.closed = {} /\ b.rows = <<>> /\ b \in BK!BookType
  BY DEF BK!EmptyBook, BK!BookType
<1>2. BK!ToSet(<<>>) = {}
  BY DEF BK!ToSet
<1>3. BK!OneEach(<<>>)
  BY DEF BK!OneEach
<1> HIDE DEF b
<1> QED BY <1>1, <1>2, <1>3 DEF b, BK!Named, BK!Good, BK!BookKept, BK!OwedBy, BK!Said, BK!SaidOf

LEMMA Increments ==
  ASSUME NEW n \in Int, NEW k \in Nat
  PROVE  /\ OA!Deltas(n, k) \in BK!Text /\ (OA!Deltas(n, k) = <<>> <=> k = 0)
         /\ OA!Deltas(n, k) \o <<OA!Delta(n, k + 1)>> = OA!Deltas(n, k + 1)
<1>1. \A i \in Int : OA!Delta(n, i) \in Int
  BY DEF OA!Delta
<1>2. OA!Deltas(n, k) = [i \in 1..k |-> OA!Delta(n, i)] /\ OA!Deltas(n, k + 1) = [i \in 1..(k + 1) |-> OA!Delta(n, i)]
  BY DEF OA!Deltas
<1> DEFINE x == OA!Deltas(n, k)
           y == OA!Deltas(n, k + 1)
           d == OA!Delta(n, k + 1)
<1>3. x \in Seq(Int) /\ Len(x) = k /\ y \in Seq(Int) /\ Len(y) = k + 1 /\ d \in Int
  <2>1. \A i \in 1..(k + 1) : OA!Delta(n, i) \in Int
    BY <1>1
  <2> QED BY <1>2, <2>1
<1>4. x \o <<d>> = y
  <2>1. \A i \in 1..(k + 1) : i \in 1..k \/ i = k + 1
    OBVIOUS
  <2>2. \A i \in 1..(k + 1) : (x \o <<d>>)[i] = y[i]
    <3> HIDE DEF x, y, d
    <3>1. \A i \in 1..k : (x \o <<d>>)[i] = x[i]
      BY <1>3
    <3>2. (x \o <<d>>)[k + 1] = d
      BY <1>3
    <3>3. \A i \in 1..k : x[i] = y[i]
      BY <1>2 DEF x, y
    <3>4. y[k + 1] = d
      BY <1>2 DEF y, d
    <3> QED BY <2>1, <3>1, <3>2, <3>3, <3>4
  <2> HIDE DEF x, y, d
  <2>3. x \o <<d>> \in Seq(Int) /\ Len(x \o <<d>>) = k + 1
    BY <1>3
  <2> QED BY <1>3, <2>2, <2>3
<1> QED BY <1>3, <1>4 DEF BK!Text

LEMMA OpenAIStarts == ASSUME OpenAIKnows, OA!SpeechStarted PROVE OpenAIKnows'
<1>1. PICK n \in 1..MaxTurns :
        /\ svc[n].phase = "unheard" /\ svc' = [svc EXCEPT ![n].phase = "speaking"]
        /\ ended = "no" /\ book' = BK!Applied(book, BK!Started(n, n)) /\ UNCHANGED <<said, ended>>
  BY OpenAISignals DEF OA!SpeechStarted, OA!Items, OA!Moves, OA!Hears
<1>2. OpenAIItems /\ OpenAIBooks
  BY <1>1 DEF OpenAIKnows
<1>3. n \in Int /\ n # 0 /\ svc[n].deltas = 0
  BY <1>1, <1>2, HeardAssumption DEF OpenAIItems
<1>4. /\ OpenAIItems'
      /\ \A m \in 1..MaxTurns : Being(svc', m) <=> Being(svc, m) \/ m = n
      /\ \A m \in 1..MaxTurns : svc'[m].deltas = svc[m].deltas
      /\ DoneItems(svc') = DoneItems(svc)
  BY <1>1, <1>2 DEF OpenAIItems, Being, DoneItems
<1>5. \A m \in 1..MaxTurns : ItemTurn(svc', m) = ItemTurn(svc, m) /\ ItemTurn(svc, m).ref = m
  BY <1>4 DEF ItemTurn, BK!Turn
<1>6. ItemTurns(svc') = ItemTurns(svc) \cup {BK!Turn(n, <<>>)}
  <2>1. OA!Deltas(n, 0) = <<>>
    <3>1. 0 \in Nat
      OBVIOUS
    <3> QED BY <1>3, <3>1, Increments
  <2>2. ItemTurn(svc, n) = BK!Turn(n, <<>>)
    BY <1>3, <2>1 DEF ItemTurn
  <2>3. ItemTurns(svc') \subseteq ItemTurns(svc) \cup {ItemTurn(svc, n)}
    BY <1>4, <1>5 DEF ItemTurns
  <2>4. ASSUME NEW m \in 1..MaxTurns, Being(svc, m) \/ m = n PROVE ItemTurn(svc, m) \in ItemTurns(svc')
    <3>1. Being(svc', m) /\ ItemTurn(svc', m) = ItemTurn(svc, m)
      BY <1>4, <1>5, <2>4
    <3> QED BY <3>1 DEF ItemTurns
  <2>5. ItemTurns(svc) \subseteq ItemTurns(svc') /\ ItemTurn(svc, n) \in ItemTurns(svc')
    BY <1>1, <2>4 DEF ItemTurns
  <2> QED BY <2>2, <2>3, <2>5
<1>7. \A u \in BK!ToSet(book.open) : u.ref # n
  BY <1>1, <1>2, <1>5 DEF OpenAIBooks, ItemTurns, Being
<1>8. /\ BK!Named(book') /\ BK!Said(book') = BK!Said(book) /\ book'.closed = book.closed
      /\ BK!ToSet(book'.open) = BK!ToSet(book.open) \cup {BK!Turn(n, <<>>)}
  <2>1. BK!Named(book)
    BY <1>2 DEF OpenAIBooks
  <2> QED BY <1>1, <1>3, <1>7, <2>1, BK!NamedStarts
<1>9. OpenAIBooks'
  BY <1>1, <1>2, <1>4, <1>6, <1>8 DEF OpenAIBooks
<1> QED BY <1>1, <1>4, <1>8, <1>9 DEF OpenAIKnows, BK!Named

LEMMA OpenAIGrows == ASSUME OpenAIKnows, OA!Increment PROVE OpenAIKnows'
<1>1. PICK n \in 1..MaxTurns :
        /\ svc[n].phase # "unheard" /\ svc' = [svc EXCEPT ![n].deltas = @ + 1] /\ ended = "no"
        /\ book' = BK!Applied(book, BK!Partial(n, <<OA!Delta(n, svc[n].deltas + 1)>>, TRUE))
        /\ UNCHANGED <<said, ended>>
  BY OpenAISignals DEF OA!Increment, OA!Items, OA!Hears
<1>2. OpenAIItems /\ OpenAIBooks /\ BK!Named(book)
  BY <1>1 DEF OpenAIKnows, OpenAIBooks
<1> DEFINE d == svc[n].deltas
           s == BK!Partial(n, <<OA!Delta(n, d + 1)>>, TRUE)
<1>3. n \in Int /\ n # 0 /\ d \in Nat /\ OA!Delta(n, d + 1) \in Int
  BY <1>1, <1>2, HeardAssumption DEF OpenAIItems, OA!Delta
<1>4. /\ OpenAIItems'
      /\ \A m \in 1..MaxTurns : svc'[m].phase = svc[m].phase
      /\ \A m \in 1..MaxTurns : m # n => svc'[m].deltas = svc[m].deltas
      /\ svc'[n].deltas = d + 1
      /\ DoneItems(svc') = DoneItems(svc)
  BY <1>1, <1>2 DEF OpenAIItems, DoneItems
<1>5. /\ \A m \in 1..MaxTurns : Being(svc', m) <=> Being(svc, m)
      /\ \A m \in 1..MaxTurns : m # n => ItemTurn(svc', m) = ItemTurn(svc, m)
      /\ \A m \in 1..MaxTurns : ItemTurn(svc, m).ref = m
  BY <1>4 DEF ItemTurn, Being, BK!Turn
<1>6. /\ s.sig = "partial" /\ s.ref = n /\ s.text = <<OA!Delta(n, d + 1)>> /\ s.append = TRUE
      /\ s.text \in BK!Text /\ s.text # <<>>
  BY <1>3 DEF BK!Partial, BK!Text
<1>7. CASE svc[n].phase = "done"
  <2>1. n \in book.closed
    BY <1>2, <1>7 DEF OpenAIBooks, DoneItems
  <2>2. book' = book
    <3>1. BK!Good(book)
      BY DEF OpenAIKnows
    <3> HIDE DEF s
    <3> QED BY <1>1, <1>3, <1>6, <2>1, <3>1, BK!GrownKeeps DEF s
  <2>3. ItemTurns(svc') = ItemTurns(svc)
    <3>1. \A m \in 1..MaxTurns : Being(svc, m) => m # n
      BY <1>7 DEF Being
    <3> QED BY <1>5, <3>1 DEF ItemTurns
  <2>4. OpenAIBooks'
    BY <1>1, <1>2, <1>4, <2>2, <2>3 DEF OpenAIBooks
  <2> QED BY <1>1, <1>4, <2>2, <2>4 DEF OpenAIKnows
<1>8. CASE svc[n].phase # "done"
  <2>1. Being(svc, n) /\ n \notin book.closed
    BY <1>1, <1>2, <1>8 DEF Being, OpenAIItems, OpenAIBooks, DoneItems
  <2>2. ItemTurn(svc, n) \in BK!ToSet(book.open) /\ \A u \in BK!ToSet(book.open) : u.ref = n => u = ItemTurn(svc, n)
    BY <1>2, <1>5, <2>1 DEF OpenAIBooks, ItemTurns
  <2>3. /\ BK!Named(book') /\ book'.closed = book.closed
        /\ BK!Said(book') = BK!Without(BK!Said(book), <<n, 0>>)
        /\ BK!GrowsOne(book, book', n, s)
    <3>1. book' = BK!Applied(book, s)
      BY <1>1
    <3>2. s.append \in BOOLEAN
      BY <1>6
    <3> HIDE DEF s
    <3> QED BY <1>2, <1>3, <1>6, <2>1, <3>1, <3>2, BK!NamedGrows
  <2>4. BK!ToSet(book'.open) = BK!Others(BK!ToSet(book.open), n) \cup {BK!Turn(n, OA!Deltas(n, d + 1))}
    <3>1. ItemTurn(svc, n).ref = n /\ ItemTurn(svc, n).text = OA!Deltas(n, d)
      BY DEF ItemTurn, BK!Turn
    <3>2. BK!Heard(s, ItemTurn(svc, n)) = OA!Deltas(n, d + 1)
      <4>1. OA!Deltas(n, d) \o <<OA!Delta(n, d + 1)>> = OA!Deltas(n, d + 1)
        <5> HIDE DEF d
        <5> QED BY <1>3, Increments
      <4> HIDE DEF s
      <4> QED BY <1>6, <3>1, <4>1 DEF BK!Heard
    <3>3. PICK t \in BK!TurnType :
            /\ BK!TurnOf(BK!ToSet(book.open), n, t)
            /\ BK!ToSet(book'.open) = BK!Others(BK!ToSet(book.open), n) \cup {BK!Turn(n, BK!Heard(s, t))}
      BY <2>3 DEF BK!GrowsOne
    <3>4. t = ItemTurn(svc, n)
      BY <2>2, <3>1, <3>3 DEF BK!TurnOf
    <3> HIDE DEF s, d
    <3> QED BY <3>2, <3>3, <3>4
  <2>5. BK!Others(BK!ToSet(book.open), n) \cup {BK!Turn(n, OA!Deltas(n, d + 1))} = ItemTurns(svc')
    <3>1. ItemTurn(svc', n) = BK!Turn(n, OA!Deltas(n, d + 1))
      BY <1>4 DEF ItemTurn
    <3>2. BK!ToSet(book.open) = ItemTurns(svc)
      BY <1>2 DEF OpenAIBooks
    <3> QED BY <1>5, <2>1, <3>1, <3>2 DEF ItemTurns, BK!Others
  <2>6. BK!Said(book') = said
    <3>1. \A x \in said : x.handle # <<n, 0>>
      BY <1>2, <1>8 DEF OpenAIBooks, DoneItems
    <3> QED BY <1>2, <2>3, <3>1 DEF OpenAIBooks, BK!Without
  <2>7. OpenAIBooks'
    BY <1>1, <1>2, <1>4, <2>3, <2>4, <2>5, <2>6 DEF OpenAIBooks
  <2> QED BY <1>1, <1>4, <2>3, <2>7 DEF OpenAIKnows, BK!Named
<1> QED BY <1>7, <1>8

LEMMA OpenAIStops == ASSUME OpenAIKnows, OA!SpeechStopped PROVE OpenAIKnows'
<1>1. PICK n \in 1..MaxTurns :
        /\ svc[n].phase = "speaking" /\ svc' = [svc EXCEPT ![n].phase = "stopped"] /\ ended = "no"
        /\ book' = OA!Applied(book, OA!Ended(n)) /\ UNCHANGED <<said, ended>>
  BY DEF OA!SpeechStopped, OA!Items, OA!Moves, OA!Hears
<1>2. book' = book
  BY <1>1 DEF OA!Applied, OA!Ended
<1>3. OpenAIItems /\ OpenAIBooks
  BY <1>1 DEF OpenAIKnows
<1>4. /\ OpenAIItems' /\ DoneItems(svc') = DoneItems(svc)
      /\ \A m \in 1..MaxTurns : Being(svc', m) <=> Being(svc, m)
      /\ \A m \in 1..MaxTurns : svc'[m].deltas = svc[m].deltas
  BY <1>1, <1>3 DEF OpenAIItems, Being, DoneItems
<1>5. ItemTurns(svc') = ItemTurns(svc)
  BY <1>4 DEF ItemTurns, ItemTurn
<1>6. OpenAIBooks'
  BY <1>1, <1>2, <1>3, <1>4, <1>5 DEF OpenAIBooks
<1> QED BY <1>1, <1>2, <1>4, <1>6 DEF OpenAIKnows

LEMMA OpenAISettles ==
  ASSUME OpenAIKnows, NEW n \in 1..MaxTurns, OA!Moves(n, "stopped", "done"), NEW new \in BK!Text,
         said' = OA!Told(n, BK!TextLeft(new, ItemTurn(svc, n))), OA!Hears(OA!Final(n, new, <<>>))
  PROVE  OpenAIKnows'
<1>1. /\ svc[n].phase = "stopped" /\ svc' = [svc EXCEPT ![n].phase = "done"] /\ ended = "no"
      /\ book' = BK!Applied(book, BK!Final(n, new, <<>>)) /\ UNCHANGED ended
  BY OpenAISignals DEF OA!Moves, OA!Hears
<1>2. OpenAIItems /\ OpenAIBooks /\ BK!Named(book)
  BY <1>1 DEF OpenAIKnows, OpenAIBooks
<1>3. n \in Int /\ n # 0 /\ <<>> \in BK!Words
  BY HeardAssumption DEF BK!Words
<1>4. /\ OpenAIItems'
      /\ \A m \in 1..MaxTurns : Being(svc', m) <=> Being(svc, m) /\ m # n
      /\ \A m \in 1..MaxTurns : svc'[m].deltas = svc[m].deltas
      /\ DoneItems(svc') = DoneItems(svc) \cup {n} /\ n \notin DoneItems(svc) /\ Being(svc, n)
  BY <1>1, <1>2 DEF OpenAIItems, Being, DoneItems
<1>5. \A m \in 1..MaxTurns : ItemTurn(svc', m) = ItemTurn(svc, m) /\ ItemTurn(svc, m).ref = m
  BY <1>4 DEF ItemTurn, BK!Turn
<1>6. /\ BK!Named(book') /\ book'.closed = book.closed \cup {n}
      /\ BK!ToSet(book'.open) = BK!Others(BK!ToSet(book.open), n)
      /\ BK!SettlesOne(book, book', n, new, <<>>)
  BY <1>1, <1>2, <1>3, BK!NamedSettles
<1>7. BK!ToSet(book'.open) = ItemTurns(svc')
  <2>1. BK!ToSet(book.open) = ItemTurns(svc)
    BY <1>2 DEF OpenAIBooks
  <2> QED BY <1>4, <1>5, <1>6, <2>1 DEF ItemTurns, BK!Others
<1>8. PICK t \in BK!TurnType :
        /\ BK!TurnOf(BK!ToSet(book.open), n, t)
        /\ BK!Said(book') = IF BK!TextLeft(new, t) = <<>> THEN BK!Said(book)
                            ELSE BK!Without(BK!Said(book), <<n, 0>>)
                                   \cup {BK!Telling(<<n, 0>>, BK!TextLeft(new, t), <<>>)}
  BY <1>6 DEF BK!SettlesOne
<1>9. t = ItemTurn(svc, n)
  <2>1. BK!ToSet(book.open) = ItemTurns(svc)
    BY <1>2 DEF OpenAIBooks
  <2>2. ItemTurn(svc, n) \in ItemTurns(svc) /\ \A u \in ItemTurns(svc) : u.ref = n => u = ItemTurn(svc, n)
    BY <1>4, <1>5 DEF ItemTurns
  <2> QED BY <1>5, <1>8, <2>1, <2>2 DEF BK!TurnOf
<1>10. BK!Without(BK!Said(book), <<n, 0>>) = said
  <2>1. \A x \in said : x.handle # <<n, 0>>
    BY <1>2, <1>4 DEF OpenAIBooks
  <2> QED BY <1>2, <2>1 DEF OpenAIBooks, BK!Without
<1> DEFINE text == BK!TextLeft(new, t)
<1>11. /\ said' = IF text = <<>> THEN said ELSE said \cup {BK!Telling(<<n, 0>>, text, <<>>)}
       /\ \A x \in said' : x \in said \/ x.handle = <<n, 0>>
  <2>1. said' = OA!Told(n, text)
    BY <1>9
  <2>2. OA!Handle(n, 0) = <<n, 0>>
    BY <1>3 DEF OA!Handle, OA!NoRef
  <2> HIDE DEF text
  <2>3. said' = IF text = <<>> THEN said ELSE said \cup {BK!Telling(<<n, 0>>, text, <<>>)}
    BY <2>1, <2>2 DEF OA!Told, BK!Telling
  <2>4. BK!Telling(<<n, 0>>, text, <<>>).handle = <<n, 0>>
    BY DEF BK!Telling
  <2> QED BY <2>3, <2>4
<1>12. BK!Said(book') = said'
  <2>1. BK!Said(book) = said
    BY <1>2 DEF OpenAIBooks
  <2> HIDE DEF text
  <2> QED BY <1>8, <1>10, <1>11, <2>1 DEF text
<1>13. \A x \in said' : \E m \in DoneItems(svc') : x.handle = <<m, 0>>
  <2>1. \A x \in said : \E m \in DoneItems(svc) : x.handle = <<m, 0>>
    BY <1>2 DEF OpenAIBooks
  <2> QED BY <1>4, <1>11, <2>1
<1>14. OpenAIBooks'
  BY <1>2, <1>4, <1>6, <1>7, <1>12, <1>13 DEF OpenAIBooks
<1> QED BY <1>1, <1>4, <1>6, <1>14 DEF OpenAIKnows, BK!Named

LEMMA OpenAIKeepsStep == ASSUME OpenAIKnows, OA!Next PROVE OpenAIKnows'
<1>1. CASE OA!SpeechStarted
  BY <1>1, OpenAIStarts
<1>2. CASE OA!SpeechStopped
  BY <1>2, OpenAIStops
<1>3. CASE OA!Increment
  BY <1>3, OpenAIGrows
<1>4. CASE OA!Completed
  <2>1. PICK n \in 1..MaxTurns : OA!Moves(n, "stopped", "done") /\ said' = OA!Told(n, <<n>>)
                                 /\ OA!Hears(OA!Final(n, <<n>>, <<>>))
    BY <1>4 DEF OA!Completed, OA!Items
  <2>2. <<n>> \in BK!Text /\ <<n>> # <<>>
    BY HeardAssumption DEF BK!Text
  <2>3. BK!TextLeft(<<n>>, ItemTurn(svc, n)) = <<n>>
    BY <2>2 DEF BK!TextLeft
  <2> QED BY <2>1, <2>2, <2>3, OpenAISettles
<1>5. CASE OA!Failed
  <2>1. PICK n \in 1..MaxTurns :
          OA!Moves(n, "stopped", "done") /\ said' = OA!Told(n, OA!Deltas(n, svc[n].deltas))
          /\ OA!Hears(OA!Final(n, <<>>, <<>>))
    BY <1>5 DEF OA!Failed, OA!Items
  <2>2. <<>> \in BK!Text
    BY DEF BK!Text
  <2>3. BK!TextLeft(<<>>, ItemTurn(svc, n)) = OA!Deltas(n, svc[n].deltas)
    BY DEF BK!TextLeft, ItemTurn, BK!Turn
  <2> QED BY <2>1, <2>2, <2>3, OpenAISettles
<1>6. CASE OA!Hangup
  <2>1. ended' = "socket" /\ book' = BK!SettledBook(book) /\ UNCHANGED svc
    BY <1>6, OpenAISignals DEF OA!Hangup
  <2>2. BK!Good(book') /\ AllSettled'
    BY <2>1, BK!SettlesAll DEF OpenAIKnows, AllSettled
  <2> QED BY <2>1, <2>2 DEF OpenAIKnows, OpenAIItems
<1> QED BY <1>1, <1>2, <1>3, <1>4, <1>5, <1>6 DEF OA!Next

LEMMA OpenAIKnowsAtFirst == ASSUME OA!Init PROVE OpenAIKnows
<1>1. /\ svc = [n \in 1..MaxTurns |-> [phase |-> "unheard", deltas |-> 0]]
      /\ said = {} /\ book = BK!EmptyBook /\ ended = "no"
  BY DEF OA!Init, OA!Items, OA!EmptyBook, BK!EmptyBook
<1>2. OpenAIItems /\ ItemTurns(svc) = {} /\ DoneItems(svc) = {}
  BY <1>1 DEF OpenAIItems, ItemTurns, DoneItems, Being
<1> QED BY <1>1, <1>2, EmptyBooks DEF OpenAIKnows, OpenAIBooks, BK!Named

-----------------------------------------------------------------------------
(* AssemblyAI's connector applies its signals to the same books. *)
LEMMA AssemblyAISignals ==
  /\ \A b, s : AA!Applied(b, s) = BK!Applied(b, s)
  /\ \A b, list : AA!ApplyAll(b, list) = BK!ApplyAll(b, list)
  /\ \A list, positions : AA!Chosen(list, positions) = BK!Chosen(list, positions)
  /\ \A b : AA!SettledBook(b) = BK!SettledBook(b)
  /\ \A n, at : AA!Started(n, at) = BK!Started(n, at)
  /\ \A n, text, append : AA!Partial(n, text, append) = BK!Partial(n, text, append)
  /\ \A n, text, words : AA!Final(n, text, words) = BK!Final(n, text, words)
<1>1. ASSUME NEW b, NEW r, NEW at, NEW i, NEW s
      PROVE  /\ AA!Resolve(b, r) = BK!Resolve(b, r) /\ AA!PlaceOf(b, r) = BK!PlaceOf(b, r)
             /\ AA!Opened(b, r, at) = BK!Opened(b, r, at)
             /\ AA!GrownAt(b, i, s) = BK!GrownAt(b, i, s)
             /\ AA!Closed(b, s) = BK!Closed(b, s)
  <2>1. AA!Resolve(b, r) = BK!Resolve(b, r) /\ AA!PlaceOf(b, r) = BK!PlaceOf(b, r)
    BY DEF AA!Resolve, AA!NoRef, AA!PlaceOf, AA!OpenAt, BK!Resolve, BK!NoRef, BK!PlaceOf, BK!OpenAt
  <2>2. AA!Opened(b, r, at) = BK!Opened(b, r, at)
    BY DEF AA!Opened, AA!OpenAt, AA!Resolve, AA!Handle, AA!NoRef,
           BK!Opened, BK!OpenAt, BK!Resolve, BK!Handle, BK!NoRef
  <2>3. AA!GrownAt(b, i, s) = BK!GrownAt(b, i, s)
    BY DEF AA!GrownAt, AA!Emit, AA!Put, BK!GrownAt, BK!Emit, BK!Put
  <2>4. AA!Closed(b, s) = BK!Closed(b, s)
    BY DEF AA!Closed, AA!PlaceOf, AA!OpenAt, AA!Resolve, AA!Emit, AA!Put, AA!Handle,
           AA!NoRef, AA!RemoveAt, BK!Closed, BK!PlaceOf, BK!OpenAt, BK!Resolve, BK!Emit, BK!Put,
           BK!Handle, BK!NoRef, BK!RemoveAt
  <2> QED BY <2>1, <2>2, <2>3, <2>4
<1>2. ASSUME NEW b, NEW s PROVE AA!Applied(b, s) = BK!Applied(b, s)
  <2>1. AA!Grown(b, s) = BK!Grown(b, s)
    BY <1>1 DEF AA!Grown, BK!Grown, AA!NoRef, BK!NoRef
  <2> QED BY <1>1, <2>1 DEF AA!Applied, BK!Applied
<1>3. ASSUME NEW b PROVE AA!SettledBook(b) = BK!SettledBook(b)
  BY DEF AA!SettledBook, AA!Emit, AA!Put, BK!SettledBook, BK!Emit, BK!Put
<1>4. /\ \A n, at : AA!Started(n, at) = BK!Started(n, at)
      /\ \A n, text, append : AA!Partial(n, text, append) = BK!Partial(n, text, append)
      /\ \A n, text, words : AA!Final(n, text, words) = BK!Final(n, text, words)
  BY DEF AA!Started, AA!Partial, AA!Final, BK!Started, BK!Partial, BK!Final
<1>5. ASSUME NEW b, NEW list PROVE AA!ApplyAll(b, list) = BK!ApplyAll(b, list)
  BY <1>2 DEF AA!ApplyAll, BK!ApplyAll
<1>6. ASSUME NEW list, NEW positions
      PROVE  AA!Chosen(list, positions) = BK!Chosen(list, positions)
  BY DEF AA!Chosen, BK!Chosen
<1> QED BY <1>2, <1>3, <1>4, <1>5, <1>6


-----------------------------------------------------------------------------
(* AssemblyAI numbers its turns and tells them in order.  Those before the one
   it is hearing are settled, each under the text a revision would republish. *)
Retold(finals, last, label) ==
  {BK!Telling(<<n, 0>>, finals[n], <<label>>) : n \in 1..last}

AssemblyAITurns ==
  /\ svc \in [turn : 1..(MaxTurns + 1), heard : BOOLEAN, resent : BOOLEAN, cap : {"far", "due"},
              mic : {"on", "terminated"}, label : Int]
  /\ conn \in [turnOpen : BOOLEAN, finals : [1..MaxTurns -> BK!Text]]
  /\ svc.heard => svc.turn <= MaxTurns /\ svc.resent
  /\ ~svc.resent => svc.turn >= 2
  /\ \A n \in 1..MaxTurns : conn.finals[n] # <<>> <=> n < svc.turn

AssemblyAIBooks ==
  /\ BK!Named(book) /\ BK!Said(book) = said
  /\ said = Retold(conn.finals, svc.turn - 1, svc.label)
  /\ \A t \in BK!ToSet(book.open) : svc.heard /\ t = BK!Turn(svc.turn, <<-svc.turn>>)
  /\ book.closed = 1..(svc.turn - 1)

AssemblyAIKnows ==
  /\ BK!Good(book)
  /\ ended = "no" => AssemblyAITurns /\ AssemblyAIBooks
  /\ ended # "no" => AllSettled

LEMMA AssemblyAIGrows == ASSUME AssemblyAIKnows, AA!TurnGrows PROVE AssemblyAIKnows'
<1> DEFINE n == svc.turn
           a == BK!Started(n, n)
           s == BK!Partial(n, <<-n>>, FALSE)
           b == BK!Applied(book, a)
<1>1. /\ n <= MaxTurns /\ svc' = [svc EXCEPT !.heard = TRUE, !.resent = TRUE] /\ ended = "no"
      /\ conn' = [turnOpen |-> TRUE, finals |-> conn.finals]
      /\ book' = BK!ApplyAll(book, <<a, s>>) /\ UNCHANGED <<said, ended>>
  BY AssemblyAISignals DEF AA!TurnGrows, AA!HearsTurn, AA!TurnSignals, AA!Hears
<1>2. book' = BK!Applied(b, s)
  <2> HIDE DEF a, s
  <2> QED BY <1>1, BK!AppliesTwo
<1>3. AssemblyAITurns /\ AssemblyAIBooks /\ BK!Named(book)
  BY <1>1 DEF AssemblyAIKnows, AssemblyAIBooks
<1>4. n \in Int /\ n # 0 /\ n \notin book.closed /\ n \in 1..MaxTurns
  BY <1>1, <1>3, HeardAssumption DEF AssemblyAITurns, AssemblyAIBooks
<1>5. /\ AssemblyAITurns' /\ svc'.turn = n /\ svc'.label = svc.label /\ conn'.finals = conn.finals
      /\ svc'.heard
  BY <1>1, <1>3 DEF AssemblyAITurns
<1>6. /\ BK!Named(b) /\ BK!Said(b) = said /\ b.closed = book.closed
      /\ \A u \in BK!ToSet(b.open) : u.ref = n
  <2>1. /\ BK!Named(b) /\ BK!Said(b) = BK!Said(book) /\ b.closed = book.closed
        /\ (\E u \in BK!ToSet(book.open) : u.ref = n) => BK!ToSet(b.open) = BK!ToSet(book.open)
        /\ (\A u \in BK!ToSet(book.open) : u.ref # n)
             => BK!ToSet(b.open) = BK!ToSet(book.open) \cup {BK!Turn(n, <<>>)}
    <3> HIDE DEF n
    <3> QED BY <1>3, <1>4, BK!NamedStarts
  <2>2. \A u \in BK!ToSet(book.open) : u.ref = n
    BY <1>3 DEF AssemblyAIBooks, BK!Turn
  <2>3. BK!Turn(n, <<>>).ref = n
    BY DEF BK!Turn
  <2> HIDE DEF b, n
  <2> QED BY <1>3, <2>1, <2>2, <2>3 DEF AssemblyAIBooks
<1>7. /\ s.sig = "partial" /\ s.ref = n /\ s.text = <<-n>> /\ ~s.append /\ s.append \in BOOLEAN
      /\ s.text \in BK!Text /\ s.text # <<>>
  BY <1>4 DEF BK!Partial, BK!Text
<1>8. /\ BK!Named(book') /\ book'.closed = book.closed /\ BK!Said(book') = BK!Without(said, <<n, 0>>)
      /\ BK!GrowsOne(b, book', n, s)
  <2> HIDE DEF s, b, n
  <2> QED BY <1>2, <1>4, <1>6, <1>7, BK!NamedGrows
<1>9. \A t \in BK!ToSet(book'.open) : t = BK!Turn(n, <<-n>>)
  <2> HIDE DEF s, b, n
  <2>1. PICK t \in BK!TurnType :
          BK!ToSet(book'.open) = BK!Others(BK!ToSet(b.open), n) \cup {BK!Turn(n, BK!Heard(s, t))}
    BY <1>8 DEF BK!GrowsOne
  <2>2. BK!Others(BK!ToSet(b.open), n) = {} /\ BK!Heard(s, t) = <<-n>>
    BY <1>6, <1>7 DEF BK!Others, BK!Heard
  <2> QED BY <2>1, <2>2
<1>10. BK!Said(book') = said
  <2>1. \A x \in said : x.handle # <<n, 0>>
    BY <1>3, <1>4 DEF AssemblyAIBooks, AssemblyAITurns, Retold, BK!Telling
  <2> QED BY <1>8, <2>1 DEF BK!Without
<1>11. AssemblyAIBooks'
  BY <1>1, <1>3, <1>5, <1>8, <1>9, <1>10 DEF AssemblyAIBooks
<1> QED BY <1>1, <1>5, <1>8, <1>11 DEF AssemblyAIKnows, BK!Named

(* A final of turn n, the one being heard or one told again. *)
LEMMA AssemblyAITells ==
  ASSUME AssemblyAIKnows, NEW n \in 1..MaxTurns, NEW text \in BK!Text, text # <<>>,
         AA!HearsTurn(n, text, <<svc.label>>, TRUE), said' = AA!Told(n, text, <<svc.label>>),
         svc' = [svc EXCEPT !.turn = n + 1, !.heard = FALSE, !.resent = svc'.resent],
         svc'.resent \in BOOLEAN, n = svc.turn \/ (n = svc.turn - 1 /\ ~svc.heard)
  PROVE  AssemblyAIKnows'
<1> DEFINE words == <<svc.label>>
           s == BK!Final(n, text, words)
<1>1. /\ ended = "no" /\ conn' = [turnOpen |-> FALSE, finals |-> [conn.finals EXCEPT ![n] = text]]
      /\ book' = BK!ApplyAll(book, <<s>>) /\ UNCHANGED ended
  BY AssemblyAISignals DEF AA!HearsTurn, AA!TurnSignals, AA!Hears
<1>2. book' = BK!Applied(book, s)
  <2> HIDE DEF s
  <2> QED BY <1>1, BK!AppliesOne
<1>3. AssemblyAITurns /\ AssemblyAIBooks /\ BK!Named(book)
  BY <1>1 DEF AssemblyAIKnows, AssemblyAIBooks
<1>4. n \in Int /\ n # 0 /\ words \in BK!Words
  <2>1. svc.label \in Int
    BY <1>3 DEF AssemblyAITurns
  <2> QED BY <2>1, HeardAssumption DEF BK!Words
<1>5. /\ AssemblyAITurns' /\ svc'.turn = n + 1 /\ svc'.label = svc.label /\ ~svc'.heard
      /\ conn'.finals = [conn.finals EXCEPT ![n] = text] /\ n \in DOMAIN conn.finals
      /\ svc.turn \in Int
  <2>1. n + 1 \in 1..(MaxTurns + 1) /\ svc.turn \in Int
    BY <1>3, HeardAssumption DEF AssemblyAITurns
  <2>2. svc' \in [turn : 1..(MaxTurns + 1), heard : BOOLEAN, resent : BOOLEAN, cap : {"far", "due"},
                  mic : {"on", "terminated"}, label : Int]
    BY <1>3, <2>1 DEF AssemblyAITurns
  <2>3. svc'.turn = n + 1 /\ svc'.label = svc.label /\ ~svc'.heard
    BY <1>3 DEF AssemblyAITurns
  <2>4. /\ conn' \in [turnOpen : BOOLEAN, finals : [1..MaxTurns -> BK!Text]]
        /\ conn'.finals = [conn.finals EXCEPT ![n] = text] /\ n \in DOMAIN conn.finals
    BY <1>1, <1>3 DEF AssemblyAITurns
  <2>5. \A m \in 1..MaxTurns : conn'.finals[m] # <<>> <=> m < n + 1
    BY <1>3, <2>1, <2>4 DEF AssemblyAITurns
  <2> QED BY <2>1, <2>2, <2>3, <2>4, <2>5, HeardAssumption DEF AssemblyAITurns
<1>6. /\ BK!Named(book') /\ book'.closed = book.closed \cup {n}
      /\ BK!ToSet(book'.open) = BK!Others(BK!ToSet(book.open), n)
      /\ BK!SettlesOne(book, book', n, text, words)
  <2> HIDE DEF words
  <2> QED BY <1>2, <1>3, <1>4, BK!NamedSettles
<1>7. BK!Said(book') = BK!Without(said, <<n, 0>>) \cup {BK!Telling(<<n, 0>>, text, words)}
  <2>1. BK!Said(book) = said
    BY <1>3 DEF AssemblyAIBooks
  <2> QED BY <1>6, <2>1 DEF BK!SettlesOne, BK!TextLeft
<1>8. said' = BK!Without(said, <<n, 0>>) \cup {BK!Telling(<<n, 0>>, text, words)}
  BY <1>4 DEF AA!Told, AA!Handle, AA!NoRef, BK!Without, BK!Telling
<1>9. said' = Retold(conn'.finals, n, svc.label)
  <2> DEFINE old(m) == BK!Telling(<<m, 0>>, conn.finals[m], words)
             new(m) == BK!Telling(<<m, 0>>, conn'.finals[m], words)
             last == svc.turn - 1
  <2>1. said = {old(m) : m \in 1..last}
    BY <1>3 DEF AssemblyAIBooks, Retold
  <2>2. Retold(conn'.finals, n, svc.label) = {new(m) : m \in 1..n}
    BY DEF Retold
  <2>3. \A m \in 1..n : m # n => old(m) = new(m)
    BY <1>5
  <2>4. new(n) = BK!Telling(<<n, 0>>, text, words)
    BY <1>5
  <2>5. \A m : old(m).handle = <<n, 0>> <=> m = n
    BY DEF BK!Telling
  <2>6. (1..last) \ {n} = (1..n) \ {n}
    BY <1>4, <1>5
  <2> HIDE DEF old, new, words, last
  <2>7. BK!Without(said, <<n, 0>>) = {old(m) : m \in (1..n) \ {n}}
    BY <2>1, <2>5, <2>6 DEF BK!Without
  <2>8. {new(m) : m \in 1..n} = {old(m) : m \in (1..n) \ {n}} \cup {new(n)}
    BY <1>4, <2>3
  <2> QED BY <1>8, <2>2, <2>4, <2>7, <2>8
<1>10. BK!ToSet(book'.open) = {}
  <2>1. \A u \in BK!ToSet(book.open) : u.ref = n
    BY <1>3 DEF AssemblyAIBooks, BK!Turn
  <2> QED BY <1>6, <2>1 DEF BK!Others
<1>11. book'.closed = 1..n
  BY <1>3, <1>4, <1>5, <1>6 DEF AssemblyAIBooks
<1>12. AssemblyAIBooks'
  <2>1. svc'.turn - 1 = n
    BY <1>4, <1>5
  <2> QED BY <1>5, <1>6, <1>7, <1>8, <1>9, <1>10, <1>11, <2>1 DEF AssemblyAIBooks
<1> QED BY <1>1, <1>5, <1>6, <1>12 DEF AssemblyAIKnows, BK!Named

LEMMA AssemblyAIRevises == ASSUME AssemblyAIKnows, AA!SpeakerRevision PROVE AssemblyAIKnows'
<1> DEFINE N == svc.turn - 1
           last == IF svc.heard THEN svc.turn ELSE svc.turn - 1
           orders == [n \in 1..last |-> n]
           told == [n \in 1..N |-> BK!Final(n, conn.finals[n], <<1>>)]
<1>1. /\ svc.label = 0 /\ svc' = [svc EXCEPT !.label = 1, !.resent = TRUE]
      /\ said' = {[t EXCEPT !.words = <<1>>] : t \in said} /\ ended = "no"
      /\ conn' = conn /\ book' = BK!ApplyAll(book, AA!Revised(conn, orders, <<1>>)) /\ UNCHANGED ended
  BY AssemblyAISignals DEF AA!SpeakerRevision, AA!Hears
<1>2. AssemblyAITurns /\ AssemblyAIBooks /\ BK!Named(book)
  BY <1>1 DEF AssemblyAIKnows, AssemblyAIBooks
<1>3. /\ N \in Nat /\ N <= MaxTurns /\ last \in Nat /\ (last = N \/ last = N + 1) /\ last <= MaxTurns
      /\ svc.turn \in Nat
  BY <1>2, HeardAssumption DEF AssemblyAITurns
<1>4. AssemblyAITurns' /\ svc'.turn = svc.turn /\ svc'.label = 1 /\ svc'.heard = svc.heard
  <2>1. /\ svc' \in [turn : 1..(MaxTurns + 1), heard : BOOLEAN, resent : BOOLEAN, cap : {"far", "due"},
                     mic : {"on", "terminated"}, label : Int]
        /\ svc'.turn = svc.turn /\ svc'.label = 1 /\ svc'.heard = svc.heard /\ svc'.resent
    <3>1. 1 \in Int /\ TRUE \in BOOLEAN
      OBVIOUS
    <3> QED BY <1>1, <1>2, <3>1 DEF AssemblyAITurns
  <2>2. conn' = conn
    BY <1>1
  <2> QED BY <1>2, <2>1, <2>2 DEF AssemblyAITurns
<1>5. AA!Revised(conn, orders, <<1>>) = told
  <2> DEFINE positions == {i \in DOMAIN orders : conn.finals[orders[i]] # <<>>}
             known == BK!Chosen(orders, positions)
  <2>1. orders \in Seq(Nat) /\ Len(orders) = last /\ \A n \in 1..last : orders[n] = n
    BY <1>3
  <2>2. \A n \in 1..last : n \in positions <=> 1 <= n /\ n <= N
    <3>1. \A n \in 1..last : n \in 1..MaxTurns /\ (conn.finals[n] # <<>> <=> n < svc.turn)
      <4>1. \A n \in 1..last : n \in 1..MaxTurns
        <5> HIDE DEF last
        <5> QED BY <1>3, HeardAssumption
      <4>2. \A n \in 1..MaxTurns : conn.finals[n] # <<>> <=> n < svc.turn
        BY <1>2 DEF AssemblyAITurns
      <4> HIDE DEF last
      <4> QED BY <4>1, <4>2
    <3>2. DOMAIN orders = 1..last
      OBVIOUS
    <3> HIDE DEF orders, last
    <3> QED BY <1>3, <2>1, <3>1, <3>2
  <2>3. known = SubSeq(orders, 1, N)
    <3>1. 1 \in Nat /\ 1 <= 1 /\ 1 <= N + 1 /\ N <= Len(orders)
      BY <1>3, <2>1
    <3> HIDE DEF N, orders, positions, last
    <3> QED BY <1>3, <2>1, <2>2, <3>1, BK!ChosenStretch
  <2>4. SubSeq(orders, 1, N) = [n \in 1..N |-> n]
    <3> HIDE DEF orders, N, last
    <3> QED BY <1>3, <2>1
  <2>5. AA!Revised(conn, orders, <<1>>) = [i \in DOMAIN known |-> BK!Final(known[i], conn.finals[known[i]], <<1>>)]
    BY AssemblyAISignals DEF AA!Revised
  <2> HIDE DEF known, N, orders
  <2>6. DOMAIN known = 1..N /\ \A i \in 1..N : known[i] = i
    BY <1>3, <2>3, <2>4
  <2> QED BY <2>5, <2>6
<1>6. said = BK!RetoldUpTo(0, N, conn.finals, <<1>>, <<0>>)
  <2> DEFINE old(n) == BK!Telling(<<n, 0>>, conn.finals[n], <<0>>)
             new(n) == BK!Telling(<<n, 0>>, conn.finals[n], IF n <= 0 THEN <<1>> ELSE <<0>>)
  <2>1. said = {old(n) : n \in 1..N} /\ BK!RetoldUpTo(0, N, conn.finals, <<1>>, <<0>>) = {new(n) : n \in 1..N}
    BY <1>1, <1>2 DEF AssemblyAIBooks, Retold, BK!RetoldUpTo
  <2>2. \A n \in 1..N : old(n) = new(n)
    OBVIOUS
  <2> HIDE DEF old, new, N
  <2> QED BY <2>1, <2>2
<1>7. said' = BK!RetoldUpTo(N, N, conn.finals, <<1>>, <<0>>)
  <2> DEFINE old(n) == BK!Telling(<<n, 0>>, conn.finals[n], <<0>>)
             new(n) == BK!Telling(<<n, 0>>, conn.finals[n], <<1>>)
             again(t) == [t EXCEPT !.words = <<1>>]
  <2>1. \A n \in 1..N : again(old(n)) = new(n)
    BY DEF BK!Telling
  <2>2. said = {old(n) : n \in 1..N}
    BY <1>1, <1>2 DEF AssemblyAIBooks, Retold
  <2>3. BK!RetoldUpTo(N, N, conn.finals, <<1>>, <<0>>) = {new(n) : n \in 1..N}
    BY <1>3 DEF BK!RetoldUpTo
  <2>4. said' = {again(t) : t \in said}
    BY <1>1
  <2> HIDE DEF N, old, new, again
  <2>5. {again(t) : t \in said} = {new(n) : n \in 1..N}
    BY <2>1, <2>2
  <2> QED BY <2>3, <2>4, <2>5
<1>8. /\ BK!Named(book') /\ book'.closed = book.closed /\ BK!ToSet(book'.open) = BK!ToSet(book.open)
      /\ BK!Said(book') = said'
  <2>1. \A n \in 1..N : conn.finals[n] \in BK!Text \ {<<>>} /\ n \in book.closed
    <3>1. \A n \in 1..N : n \in 1..MaxTurns /\ n < svc.turn
      BY <1>3, HeardAssumption
    <3> HIDE DEF N
    <3>2. \A n \in 1..N : conn.finals[n] \in BK!Text /\ conn.finals[n] # <<>>
      BY <1>2, <3>1 DEF AssemblyAITurns
    <3>3. book.closed = 1..N
      BY <1>2 DEF AssemblyAIBooks, N
    <3> QED BY <3>2, <3>3
  <2>2. \A u \in BK!ToSet(book.open) : u.ref \notin 1..N
    <3>1. \A u \in BK!ToSet(book.open) : u.ref = svc.turn
      BY <1>2 DEF AssemblyAIBooks, BK!Turn
    <3> QED BY <1>3, <3>1
  <2>3. <<1>> \in BK!Words /\ BK!Said(book) = said
    BY <1>2 DEF BK!Words, AssemblyAIBooks
  <2> DEFINE finals == conn.finals
  <2>4. LET c == BK!ApplyAll(book, [n \in 1..N |-> BK!Final(n, finals[n], <<1>>)])
        IN /\ BK!Named(c) /\ c.closed = book.closed /\ BK!ToSet(c.open) = BK!ToSet(book.open)
           /\ BK!Said(c) = BK!RetoldUpTo(N, N, finals, <<1>>, <<0>>)
    <3>1. /\ \A n \in 1..N : finals[n] \in BK!Text \ {<<>>} /\ n \in book.closed
          /\ BK!Said(book) = BK!RetoldUpTo(0, N, finals, <<1>>, <<0>>)
      BY <1>6, <2>1, <2>3
    <3> HIDE DEF N, finals
    <3> QED BY <1>2, <1>3, <2>2, <2>3, <3>1, BK!Revises
  <2> QED BY <1>1, <1>5, <1>7, <2>4
<1>9. said' = Retold(conn'.finals, svc'.turn - 1, svc'.label)
  <2>1. BK!RetoldUpTo(N, N, conn.finals, <<1>>, <<0>>) = {BK!Telling(<<n, 0>>, conn.finals[n], <<1>>) : n \in 1..N}
    BY <1>3 DEF BK!RetoldUpTo
  <2> QED BY <1>1, <1>4, <1>7, <2>1 DEF Retold
<1>10. AssemblyAIBooks'
  BY <1>2, <1>4, <1>8, <1>9 DEF AssemblyAIBooks
<1> QED BY <1>1, <1>4, <1>8, <1>10 DEF AssemblyAIKnows, BK!Named

LEMMA AssemblyAIKeepsStep == ASSUME AssemblyAIKnows, AA!Next PROVE AssemblyAIKnows'
<1>1. CASE AA!SpeechStarted
  <2>1. /\ svc.turn <= MaxTurns /\ svc' = [svc EXCEPT !.heard = TRUE, !.resent = TRUE]
        /\ conn' = [conn EXCEPT !.turnOpen = TRUE] /\ ended = "no" /\ ~svc.heard
        /\ book' = BK!Applied(book, AA!Alive) /\ UNCHANGED <<said, ended>>
    BY <1>1, AssemblyAISignals, BK!AppliesOne DEF AA!SpeechStarted, AA!Hears
  <2>2. book' = book
    BY <2>1 DEF BK!Applied, AA!Alive
  <2>3. AssemblyAITurns /\ AssemblyAIBooks
    BY <2>1 DEF AssemblyAIKnows
  <2>4. /\ AssemblyAITurns' /\ svc'.turn = svc.turn /\ svc'.label = svc.label
        /\ conn'.finals = conn.finals
    BY <2>1, <2>3 DEF AssemblyAITurns
  <2>5. AssemblyAIBooks'
    BY <2>1, <2>2, <2>3, <2>4 DEF AssemblyAIBooks
  <2> QED BY <2>1, <2>2, <2>4, <2>5 DEF AssemblyAIKnows
<1>2. CASE AA!TurnGrows
  BY <1>2, AssemblyAIGrows
<1>3. CASE AA!TurnEnds
  <2> DEFINE n == svc.turn
  <2>1. /\ svc.heard /\ svc' = [svc EXCEPT !.turn = n + 1, !.heard = FALSE, !.resent = FALSE]
        /\ AA!HearsTurn(n, <<n>>, <<svc.label>>, TRUE) /\ said' = AA!Told(n, <<n>>, <<svc.label>>)
    BY <1>3 DEF AA!TurnEnds
  <2>2. AssemblyAITurns
    BY <2>1 DEF AssemblyAIKnows, AA!HearsTurn, AA!Hears
  <2>3. n \in 1..MaxTurns /\ <<n>> \in BK!Text /\ <<n>> # <<>>
    BY <2>1, <2>2, HeardAssumption DEF AssemblyAITurns, BK!Text
  <2>4. svc'.resent = FALSE /\ svc' = [svc EXCEPT !.turn = n + 1, !.heard = FALSE, !.resent = svc'.resent]
    BY <2>1, <2>2 DEF AssemblyAITurns
  <2>5. svc'.resent \in BOOLEAN
    BY <2>4
  <2>6. n = svc.turn \/ (n = svc.turn - 1 /\ ~svc.heard)
    OBVIOUS
  <2> HIDE DEF n
  <2> QED BY <2>1, <2>3, <2>4, <2>5, <2>6, AssemblyAITells
<1>4. CASE AA!TurnFormatted
  <2> DEFINE n == svc.turn - 1
             text == <<n, 0>>
  <2>1. /\ ~svc.resent /\ svc' = [svc EXCEPT !.resent = TRUE]
        /\ AA!HearsTurn(n, text, <<svc.label>>, TRUE) /\ said' = AA!Told(n, text, <<svc.label>>)
    BY <1>4 DEF AA!TurnFormatted
  <2>2. AssemblyAITurns
    BY <2>1 DEF AssemblyAIKnows, AA!HearsTurn, AA!Hears
  <2>3. n \in 1..MaxTurns /\ text \in BK!Text /\ text # <<>> /\ n + 1 = svc.turn /\ ~svc.heard
    BY <2>1, <2>2, HeardAssumption DEF AssemblyAITurns, BK!Text
  <2>4. svc'.resent = TRUE /\ svc' = [svc EXCEPT !.turn = n + 1, !.heard = FALSE, !.resent = svc'.resent]
    BY <2>1, <2>2, <2>3 DEF AssemblyAITurns
  <2>5. svc'.resent \in BOOLEAN
    BY <2>4
  <2>6. n = svc.turn \/ (n = svc.turn - 1 /\ ~svc.heard)
    BY <2>3
  <2> HIDE DEF n, text
  <2> QED BY <2>1, <2>3, <2>4, <2>5, <2>6, AssemblyAITells
<1>5. CASE AA!Terminates \/ AA!CapNears
  <2>1. /\ svc' = [svc EXCEPT !.mic = "terminated"] \/ svc' = [svc EXCEPT !.cap = "due"]
        /\ UNCHANGED <<conn, said, book, ended>>
    BY <1>5 DEF AA!Terminates, AA!CapNears
  <2>2. ASSUME ended = "no" PROVE AssemblyAITurns' /\ AssemblyAIBooks'
    <3>1. AssemblyAITurns /\ AssemblyAIBooks
      BY <2>2 DEF AssemblyAIKnows
    <3>2. /\ AssemblyAITurns' /\ svc'.turn = svc.turn /\ svc'.label = svc.label /\ svc'.heard = svc.heard
      BY <2>1, <3>1 DEF AssemblyAITurns
    <3> QED BY <2>1, <3>1, <3>2 DEF AssemblyAIBooks
  <2> QED BY <2>1, <2>2 DEF AssemblyAIKnows, AllSettled
<1>6. CASE AA!SpeakerRevision
  BY <1>6, AssemblyAIRevises
<1>7. CASE AA!Stops \/ AA!Leaves \/ AA!ServerCuts
  <2>1. ended' # "no" /\ book' = BK!SettledBook(book)
    BY <1>7, AssemblyAISignals DEF AA!Stops, AA!Leaves, AA!ServerCuts
  <2> QED BY <2>1, BK!SettlesAll DEF AssemblyAIKnows, AllSettled
<1> QED BY <1>1, <1>2, <1>3, <1>4, <1>5, <1>6, <1>7 DEF AA!Next

LEMMA AssemblyAIKnowsAtFirst == ASSUME AA!Init PROVE AssemblyAIKnows
<1>1. /\ conn = [turnOpen |-> FALSE, finals |-> [n \in 1..MaxTurns |-> <<>>]]
      /\ svc = [turn |-> 1, heard |-> FALSE, resent |-> TRUE, cap |-> "far", mic |-> "on", label |-> 0]
      /\ said = {} /\ book = BK!EmptyBook /\ ended = "no"
  BY DEF AA!Init, AA!NoFinals, AA!EmptyBook, BK!EmptyBook
<1>2. AssemblyAITurns
  BY <1>1, HeardAssumption DEF AssemblyAITurns, BK!Text
<1>3. Retold(conn.finals, svc.turn - 1, svc.label) = {} /\ 1..(svc.turn - 1) = {}
  BY <1>1 DEF Retold
<1> QED BY <1>1, <1>2, <1>3, EmptyBooks DEF AssemblyAIKnows, AssemblyAIBooks, BK!Named

-----------------------------------------------------------------------------
(* Gemini's connector applies its signals to the same books. *)
LEMMA GeminiSignals ==
  /\ \A b, s : GL!Applied(b, s) = BK!Applied(b, s)
  /\ \A b, list : GL!ApplyAll(b, list) = BK!ApplyAll(b, list)
  /\ \A b : GL!SettledBook(b) = BK!SettledBook(b)
  /\ \A n, at : GL!Started(n, at) = BK!Started(n, at)
  /\ \A n, text, append : GL!Partial(n, text, append) = BK!Partial(n, text, append)
  /\ \A n, text, words : GL!Final(n, text, words) = BK!Final(n, text, words)
<1>1. ASSUME NEW b, NEW r, NEW at, NEW i, NEW s
      PROVE  /\ GL!Resolve(b, r) = BK!Resolve(b, r) /\ GL!PlaceOf(b, r) = BK!PlaceOf(b, r)
             /\ GL!Opened(b, r, at) = BK!Opened(b, r, at)
             /\ GL!GrownAt(b, i, s) = BK!GrownAt(b, i, s)
             /\ GL!Closed(b, s) = BK!Closed(b, s)
  <2>1. GL!Resolve(b, r) = BK!Resolve(b, r) /\ GL!PlaceOf(b, r) = BK!PlaceOf(b, r)
    BY DEF GL!Resolve, GL!NoRef, GL!PlaceOf, GL!OpenAt, BK!Resolve, BK!NoRef, BK!PlaceOf, BK!OpenAt
  <2>2. GL!Opened(b, r, at) = BK!Opened(b, r, at)
    BY DEF GL!Opened, GL!OpenAt, GL!Resolve, GL!Handle, GL!NoRef,
           BK!Opened, BK!OpenAt, BK!Resolve, BK!Handle, BK!NoRef
  <2>3. GL!GrownAt(b, i, s) = BK!GrownAt(b, i, s)
    BY DEF GL!GrownAt, GL!Emit, GL!Put, BK!GrownAt, BK!Emit, BK!Put
  <2>4. GL!Closed(b, s) = BK!Closed(b, s)
    BY DEF GL!Closed, GL!PlaceOf, GL!OpenAt, GL!Resolve, GL!Emit, GL!Put, GL!Handle,
           GL!NoRef, GL!RemoveAt, BK!Closed, BK!PlaceOf, BK!OpenAt, BK!Resolve, BK!Emit, BK!Put,
           BK!Handle, BK!NoRef, BK!RemoveAt
  <2> QED BY <2>1, <2>2, <2>3, <2>4
<1>2. ASSUME NEW b, NEW s PROVE GL!Applied(b, s) = BK!Applied(b, s)
  <2>1. GL!Grown(b, s) = BK!Grown(b, s)
    BY <1>1 DEF GL!Grown, BK!Grown, GL!NoRef, BK!NoRef
  <2> QED BY <1>1, <2>1 DEF GL!Applied, BK!Applied
<1>3. ASSUME NEW b PROVE GL!SettledBook(b) = BK!SettledBook(b)
  BY DEF GL!SettledBook, GL!Emit, GL!Put, BK!SettledBook, BK!Emit, BK!Put
<1>4. /\ \A n, at : GL!Started(n, at) = BK!Started(n, at)
      /\ \A n, text, append : GL!Partial(n, text, append) = BK!Partial(n, text, append)
      /\ \A n, text, words : GL!Final(n, text, words) = BK!Final(n, text, words)
  BY DEF GL!Started, GL!Partial, GL!Final, BK!Started, BK!Partial, BK!Final
<1>5. ASSUME NEW b, NEW list PROVE GL!ApplyAll(b, list) = BK!ApplyAll(b, list)
  BY <1>2 DEF GL!ApplyAll, BK!ApplyAll
<1> QED BY <1>2, <1>3, <1>4, <1>5


-----------------------------------------------------------------------------
(* Gemini names no turns, and its reader counts them: it is in the service's own
   turn, owes it a text exactly while one is begun and not settled, and knows
   when the settled text is only the last interim. *)
Begun(s) == s.shown /\ ~s.final /\ ~s.done

GeminiTurns(c, s) ==
  /\ c \in [interim : BK!Text, owes : BOOLEAN, turn : Nat \ {0}, over : BOOLEAN,
            provisional : BOOLEAN, goAway : BOOLEAN]
  /\ s \in [turn : Nat \ {0}, shown : BOOLEAN, final : BOOLEAN, done : BOOLEAN]
  /\ c.turn = s.turn /\ (c.over <=> s.done) /\ (c.owes <=> Begun(s))
  /\ c.provisional <=> s.done /\ ~s.final
  /\ c.owes => c.interim = <<-s.turn>>

GeminiBooks(b, told, s) ==
  /\ BK!Named(b) /\ BK!Said(b) = told
  /\ BK!ToSet(b.open) = IF Begun(s) THEN {BK!Turn(s.turn, <<-s.turn>>)} ELSE {}
  /\ b.closed = 1..(IF s.final \/ s.done THEN s.turn ELSE s.turn - 1)
  /\ \A x \in told : \E n \in b.closed : x.handle = <<n, 0>>

GeminiKnows ==
  /\ BK!Good(book)
  /\ ended = "no" => GeminiTurns(conn, svc) /\ GeminiBooks(book, said, svc)
  /\ ended # "no" => AllSettled

(* What is applied is read to its end, and the reader may leave after it. *)
LEMMA GeminiHears ==
  ASSUME NEW t, GL!Hears(t), GeminiTurns(t.conn, svc'), NEW b, b = BK!ApplyAll(book, t.signals),
         GeminiBooks(b, said', svc')
  PROVE  GeminiKnows'
<1>1. BK!Good(b)
  BY DEF GeminiBooks, BK!Named
<1>2. /\ ended = "no" /\ conn' = t.conn
      /\ \/ ended' = "left" /\ book' = BK!SettledBook(b)
         \/ book' = b /\ ended' = ended
  BY GeminiSignals DEF GL!Hears
<1>3. CASE ended' = "left" /\ book' = BK!SettledBook(b)
  BY <1>1, <1>3, BK!SettlesAll DEF GeminiKnows, AllSettled
<1>4. CASE book' = b /\ ended' = ended
  BY <1>1, <1>2, <1>4 DEF GeminiKnows
<1> QED BY <1>2, <1>3, <1>4

LEMMA GeminiShows == ASSUME GeminiKnows, GL!Interim PROVE GeminiKnows'
<1> DEFINE s == IF svc.done THEN GL!ComingTurn ELSE svc
           n == s.turn
           t == GL!Revise(conn, <<-n>>)
           g == BK!Partial(n, <<-n>>, FALSE)
           b == BK!Applied(book, g)
<1>1. ~s.final /\ svc' = [s EXCEPT !.shown = TRUE] /\ GL!Hears(t) /\ said' = said /\ ended = "no"
  BY DEF GL!Interim, GL!Hears
<1>2. GeminiTurns(conn, svc) /\ GeminiBooks(book, said, svc) /\ BK!Named(book)
  BY <1>1 DEF GeminiKnows, GeminiBooks
<1>3. /\ s \in [turn : Nat \ {0}, shown : BOOLEAN, final : BOOLEAN, done : BOOLEAN]
      /\ n \in Nat \ {0} /\ n \in Int /\ n # 0 /\ ~s.done /\ n = (IF svc.done THEN svc.turn + 1 ELSE svc.turn)
      /\ ~svc.done => ~svc.final
      /\ book.closed = 1..(n - 1)
  BY <1>1, <1>2 DEF GeminiTurns, GeminiBooks, GL!ComingTurn
<1>4. svc' \in [turn : Nat \ {0}, shown : BOOLEAN, final : BOOLEAN, done : BOOLEAN]
      /\ svc'.turn = n /\ svc'.shown /\ ~svc'.final /\ ~svc'.done /\ Begun(svc')
  <2> HIDE DEF s
  <2> QED BY <1>1, <1>3 DEF Begun
<1>5. /\ t.signals = <<BK!Partial(t.conn.turn, <<-n>>, FALSE)>> /\ t.conn.turn = n
      /\ GeminiTurns(t.conn, svc')
  <2> DEFINE c == IF conn.over THEN GL!NextTurn(conn) ELSE conn
  <2>1. t.conn = [c EXCEPT !.interim = <<-n>>, !.owes = TRUE] /\ t.signals = <<BK!Partial(c.turn, <<-n>>, FALSE)>>
    BY GeminiSignals DEF GL!Revise
  <2>2. /\ c \in [interim : BK!Text, owes : BOOLEAN, turn : Nat \ {0}, over : BOOLEAN,
                  provisional : BOOLEAN, goAway : BOOLEAN]
        /\ c.turn = n /\ ~c.over /\ ~c.provisional
    <3> HIDE DEF s
    <3> QED BY <1>2, <1>3 DEF GeminiTurns, GL!NextTurn
  <2>3. <<-n>> \in BK!Text /\ TRUE \in BOOLEAN
    BY <1>3 DEF BK!Text
  <2> HIDE DEF c, t, n, s
  <2> QED BY <1>4, <2>1, <2>2, <2>3 DEF GeminiTurns
<1>6. BK!ApplyAll(book, t.signals) = b
  <2>1. t.signals = <<g>>
    BY <1>5
  <2> HIDE DEF t, g
  <2> QED BY <2>1, BK!AppliesOne
<1>7. /\ g.sig = "partial" /\ g.ref = n /\ g.text = <<-n>> /\ ~g.append /\ g.append \in BOOLEAN
      /\ g.text \in BK!Text /\ g.text # <<>>
  <2> HIDE DEF n
  <2> QED BY <1>3 DEF BK!Partial, BK!Text
<1>8. n \notin book.closed
  <2> HIDE DEF n
  <2> QED BY <1>3
<1>9. /\ BK!Named(b) /\ b.closed = book.closed /\ BK!Said(b) = BK!Without(BK!Said(book), <<n, 0>>)
      /\ BK!GrowsOne(book, b, n, g)
  <2> HIDE DEF g, n
  <2> QED BY <1>2, <1>3, <1>7, <1>8, BK!NamedGrows
<1>10. BK!ToSet(b.open) = {BK!Turn(n, <<-n>>)}
  <2> HIDE DEF g, b, s
  <2>1. PICK u \in BK!TurnType :
          BK!ToSet(b.open) = BK!Others(BK!ToSet(book.open), n) \cup {BK!Turn(n, BK!Heard(g, u))}
    BY <1>9 DEF BK!GrowsOne
  <2>2. BK!Others(BK!ToSet(book.open), n) = {}
    BY <1>2, <1>3 DEF GeminiBooks, Begun, BK!Others, BK!Turn
  <2>3. BK!Heard(g, u) = <<-n>>
    BY <1>7 DEF BK!Heard
  <2> QED BY <2>1, <2>2, <2>3
<1>11. BK!Said(b) = said
  <2> HIDE DEF n, b
  <2>1. \A x \in said : x.handle # <<n, 0>>
    BY <1>2, <1>8 DEF GeminiBooks
  <2> QED BY <1>2, <1>9, <2>1 DEF GeminiBooks, BK!Without
<1>12. GeminiBooks(b, said', svc')
  <2> HIDE DEF n, b
  <2> QED BY <1>1, <1>2, <1>3, <1>4, <1>9, <1>10, <1>11 DEF GeminiBooks
<1> HIDE DEF t, b
<1> QED BY <1>1, <1>5, <1>6, <1>12, GeminiHears

(* A final of the turn told now: what was owed is told, and no more is open. *)
LEMMA GeminiSettles ==
  ASSUME GeminiBooks(book, said, svc), NEW n \in Nat \ {0}, NEW text \in BK!Text, text # <<>>,
         \A u \in BK!ToSet(book.open) : u.ref = n,
         book.closed \cup {n} = 1..n, ~Begun(svc'), svc'.turn = n, svc'.final \/ svc'.done,
         NEW b, b = BK!Applied(book, BK!Final(n, text, <<>>)), said' = GL!Told(n, text)
  PROVE  GeminiBooks(b, said', svc')
<1>1. n \in Int /\ n # 0 /\ <<>> \in BK!Words /\ BK!Named(book)
  BY DEF BK!Words, GeminiBooks
<1>2. /\ BK!Named(b) /\ b.closed = book.closed \cup {n}
      /\ BK!ToSet(b.open) = BK!Others(BK!ToSet(book.open), n)
      /\ BK!SettlesOne(book, b, n, text, <<>>)
  BY <1>1, BK!NamedSettles
<1>3. BK!ToSet(b.open) = {}
  BY <1>2 DEF BK!Others
<1>4. said' = BK!Without(said, <<n, 0>>) \cup {BK!Telling(<<n, 0>>, text, <<>>)}
  BY <1>1 DEF GL!Told, GL!Handle, GL!NoRef, BK!Without, BK!Telling
<1>5. BK!Said(b) = said'
  <2>1. BK!Said(book) = said
    BY DEF GeminiBooks
  <2> QED BY <1>2, <1>4, <2>1 DEF BK!SettlesOne, BK!TextLeft
<1>6. \A x \in said' : \E m \in b.closed : x.handle = <<m, 0>>
  <2>1. \A x \in said : \E m \in book.closed : x.handle = <<m, 0>>
    BY DEF GeminiBooks
  <2>2. BK!Telling(<<n, 0>>, text, <<>>).handle = <<n, 0>>
    BY DEF BK!Telling
  <2> QED BY <1>2, <1>4, <2>1, <2>2 DEF BK!Without
<1> QED BY <1>2, <1>3, <1>5, <1>6 DEF GeminiBooks

LEMMA GeminiFinalizes == ASSUME GeminiKnows, GL!Finalizes PROVE GeminiKnows'
<1> DEFINE s == IF svc.done /\ svc.final THEN GL!ComingTurn ELSE svc
           n == s.turn
           t == GL!Settle(conn, <<n>>)
           g == BK!Final(n, <<n>>, <<>>)
           b == BK!Applied(book, g)
<1>1. ~s.final /\ svc' = [s EXCEPT !.final = TRUE] /\ GL!Hears(t) /\ said' = GL!Told(n, <<n>>) /\ ended = "no"
  BY DEF GL!Finalizes, GL!Hears
<1>2. GeminiTurns(conn, svc) /\ GeminiBooks(book, said, svc)
  BY <1>1 DEF GeminiKnows
<1>3. /\ s \in [turn : Nat \ {0}, shown : BOOLEAN, final : BOOLEAN, done : BOOLEAN]
      /\ n \in Nat \ {0}
      /\ n = (IF svc.done /\ svc.final THEN svc.turn + 1 ELSE svc.turn)
      /\ (s.done <=> svc.done /\ ~svc.final)
  BY <1>1, <1>2 DEF GeminiTurns, GL!ComingTurn
<1>4. svc' \in [turn : Nat \ {0}, shown : BOOLEAN, final : BOOLEAN, done : BOOLEAN]
      /\ svc'.turn = n /\ svc'.final /\ (svc'.done <=> s.done) /\ ~Begun(svc')
  <2> HIDE DEF s
  <2> QED BY <1>1, <1>3 DEF Begun
<1>5. t.signals = <<g>> /\ GeminiTurns(t.conn, svc')
  <2> DEFINE c == IF conn.over /\ ~conn.provisional THEN GL!NextTurn(conn) ELSE conn
  <2>1. /\ t.conn = [c EXCEPT !.interim = <<>>, !.owes = FALSE, !.provisional = FALSE]
        /\ t.signals = <<BK!Final(c.turn, <<n>>, <<>>)>>
    BY GeminiSignals DEF GL!Settle
  <2>2. /\ c \in [interim : BK!Text, owes : BOOLEAN, turn : Nat \ {0}, over : BOOLEAN,
                  provisional : BOOLEAN, goAway : BOOLEAN]
        /\ c.turn = n /\ (c.over <=> s.done)
    <3> HIDE DEF s
    <3> QED BY <1>1, <1>2, <1>3 DEF GeminiTurns, GL!NextTurn
  <2>3. <<>> \in BK!Text /\ FALSE \in BOOLEAN
    BY DEF BK!Text
  <2>4. t.signals = <<g>>
    BY <2>1, <2>2
  <2> HIDE DEF c, t, n, s, g
  <2> QED BY <1>4, <2>1, <2>2, <2>3, <2>4 DEF GeminiTurns
<1>6. BK!ApplyAll(book, t.signals) = b
  <2> HIDE DEF t, g
  <2> QED BY <1>5, BK!AppliesOne
<1>7. (\A u \in BK!ToSet(book.open) : u.ref = n) /\ book.closed \cup {n} = 1..n
  <2> HIDE DEF n, s
  <2>1. ASSUME NEW u \in BK!ToSet(book.open) PROVE u.ref = n
    BY <1>2, <1>3 DEF GeminiBooks, Begun, BK!Turn
  <2>2. book.closed = 1..n \/ book.closed = 1..(n - 1)
    BY <1>2, <1>3 DEF GeminiBooks, GeminiTurns
  <2> QED BY <1>3, <2>1, <2>2
<1>8. <<n>> \in BK!Text /\ <<n>> # <<>>
  <2> HIDE DEF n
  <2> QED BY <1>3 DEF BK!Text
<1>9. GeminiBooks(b, said', svc')
  <2> DEFINE text == <<n>>
  <2>1. b = BK!Applied(book, BK!Final(n, text, <<>>)) /\ said' = GL!Told(n, text) /\ text \in BK!Text /\ text # <<>>
    BY <1>1, <1>8
  <2> HIDE DEF n, s, b, g, text
  <2> QED BY <1>2, <1>3, <1>4, <1>7, <2>1, GeminiSettles
<1> HIDE DEF t, b
<1> QED BY <1>1, <1>5, <1>6, <1>9, GeminiHears

LEMMA GeminiCompletes == ASSUME GeminiKnows, GL!Completes PROVE GeminiKnows'
<1> DEFINE n == svc.turn
           t == GL!CloseTurn(conn)
           text == <<-n>>
<1>1. /\ svc.shown \/ svc.final
      /\ ~svc.done /\ svc' = [svc EXCEPT !.done = TRUE] /\ GL!Hears(t) /\ ended = "no"
      /\ said' = IF svc.final THEN said ELSE GL!Told(n, text)
  BY DEF GL!Completes, GL!Hears
<1>2. GeminiTurns(conn, svc) /\ GeminiBooks(book, said, svc)
  BY <1>1 DEF GeminiKnows
<1>3. n \in Nat \ {0} /\ text \in BK!Text /\ text # <<>> /\ <<>> \in BK!Text
  BY <1>2 DEF GeminiTurns, BK!Text
<1>4. svc' \in [turn : Nat \ {0}, shown : BOOLEAN, final : BOOLEAN, done : BOOLEAN]
      /\ svc'.turn = n /\ (svc'.final <=> svc.final) /\ svc'.done /\ ~Begun(svc')
  <2>1. TRUE \in BOOLEAN
    OBVIOUS
  <2> QED BY <1>1, <1>2, <2>1 DEF Begun, GeminiTurns
<1>5. CASE svc.final
  <2>1. ~conn.owes
    BY <1>2, <1>5 DEF GeminiTurns, Begun
  <2>2. /\ t.conn = [conn EXCEPT !.interim = <<>>, !.owes = FALSE, !.over = TRUE, !.provisional = FALSE \/ @]
        /\ t.signals = <<GL!Alive>>
    BY <2>1 DEF GL!CloseTurn
  <2>3. GeminiTurns(t.conn, svc')
    <3>1. /\ t.conn \in [interim : BK!Text, owes : BOOLEAN, turn : Nat \ {0}, over : BOOLEAN,
                         provisional : BOOLEAN, goAway : BOOLEAN]
          /\ t.conn.turn = n /\ t.conn.over /\ ~t.conn.provisional /\ ~t.conn.owes
      <4>1. conn.provisional = FALSE
        BY <1>1, <1>2 DEF GeminiTurns
      <4>2. TRUE \in BOOLEAN /\ FALSE \in BOOLEAN
        OBVIOUS
      <4> HIDE DEF t
      <4> QED BY <1>2, <1>3, <2>2, <4>1, <4>2 DEF GeminiTurns
    <3> HIDE DEF t, n
    <3> QED BY <1>4, <1>5, <3>1 DEF GeminiTurns
  <2>4. BK!ApplyAll(book, t.signals) = book
    <3>1. BK!Applied(book, GL!Alive) = book
      BY DEF BK!Applied, GL!Alive
    <3> HIDE DEF t
    <3> QED BY <2>2, <3>1, BK!AppliesOne
  <2>5. GeminiBooks(book, said', svc')
    BY <1>1, <1>2, <1>4, <1>5 DEF GeminiBooks, Begun
  <2> HIDE DEF t
  <2> QED BY <1>1, <2>3, <2>4, <2>5, GeminiHears
<1>6. CASE ~svc.final
  <2> DEFINE b == BK!Applied(book, BK!Final(n, text, <<>>))
  <2>1. conn.owes /\ conn.interim = text /\ conn.turn = n /\ Begun(svc)
    BY <1>1, <1>2, <1>6 DEF GeminiTurns, Begun
  <2>2. /\ t.conn = [conn EXCEPT !.interim = <<>>, !.owes = FALSE, !.over = TRUE, !.provisional = TRUE \/ @]
        /\ t.signals = <<BK!Final(n, text, <<>>)>>
    BY <1>3, <2>1, GeminiSignals DEF GL!CloseTurn
  <2>3. GeminiTurns(t.conn, svc')
    <3>1. /\ t.conn \in [interim : BK!Text, owes : BOOLEAN, turn : Nat \ {0}, over : BOOLEAN,
                         provisional : BOOLEAN, goAway : BOOLEAN]
          /\ t.conn.turn = n /\ t.conn.over /\ t.conn.provisional /\ ~t.conn.owes
      <4>1. TRUE \in BOOLEAN /\ FALSE \in BOOLEAN
        OBVIOUS
      <4> HIDE DEF t
      <4> QED BY <1>2, <1>3, <2>2, <4>1 DEF GeminiTurns
    <3> HIDE DEF t, n
    <3> QED BY <1>4, <1>6, <3>1 DEF GeminiTurns
  <2>4. BK!ApplyAll(book, t.signals) = b
    <3> HIDE DEF t, text, n
    <3> QED BY <2>2, BK!AppliesOne
  <2>5. (\A u \in BK!ToSet(book.open) : u.ref = n) /\ book.closed \cup {n} = 1..n
    <3>1. \A u \in BK!ToSet(book.open) : u.ref = n
      BY <1>2 DEF GeminiBooks, BK!Turn
    <3>2. book.closed = 1..(n - 1)
      BY <1>1, <1>2, <1>6 DEF GeminiBooks
    <3> HIDE DEF n
    <3> QED BY <1>3, <3>1, <3>2
  <2>6. GeminiBooks(b, said', svc')
    <3> HIDE DEF n, text, t
    <3> QED BY <1>1, <1>2, <1>3, <1>4, <1>6, <2>5, GeminiSettles
  <2> HIDE DEF t, b
  <2> QED BY <1>1, <2>3, <2>4, <2>6, GeminiHears
<1> QED BY <1>5, <1>6

LEMMA GeminiKeepsStep == ASSUME GeminiKnows, GL!Next PROVE GeminiKnows'
<1>1. CASE GL!Interim
  BY <1>1, GeminiShows
<1>2. CASE GL!Finalizes
  BY <1>2, GeminiFinalizes
<1>3. CASE GL!Completes
  BY <1>3, GeminiCompletes
<1>4. CASE GL!GoesAway
  <2> DEFINE t == [conn |-> [conn EXCEPT !.goAway = TRUE], signals |-> <<GL!Alive>>]
  <2>1. GL!Hears(t) /\ UNCHANGED <<svc, said>> /\ ended = "no"
    BY <1>4 DEF GL!GoesAway, GL!Hears
  <2>2. GeminiTurns(conn, svc) /\ GeminiBooks(book, said, svc)
    BY <2>1 DEF GeminiKnows
  <2>3. t.conn = [conn EXCEPT !.goAway = TRUE] /\ t.signals = <<GL!Alive>>
    OBVIOUS
  <2> HIDE DEF t
  <2>4. GeminiTurns(t.conn, svc') /\ GeminiBooks(book, said', svc')
    BY <2>1, <2>2, <2>3 DEF GeminiTurns
  <2>5. BK!ApplyAll(book, t.signals) = book
    <3>1. BK!Applied(book, GL!Alive) = book
      BY DEF BK!Applied, GL!Alive
    <3> QED BY <2>3, <3>1, BK!AppliesOne
  <2> QED BY <2>1, <2>4, <2>5, GeminiHears
<1>5. CASE GL!Deadline \/ GL!Hangup
  <2>1. ended' # "no" /\ book' = BK!SettledBook(book)
    BY <1>5, GeminiSignals DEF GL!Deadline, GL!Hangup
  <2> QED BY <2>1, BK!SettlesAll DEF GeminiKnows, AllSettled
<1> QED BY <1>1, <1>2, <1>3, <1>4, <1>5 DEF GL!Next

LEMMA GeminiKnowsAtFirst == ASSUME GL!Init PROVE GeminiKnows
<1>1. /\ conn = [interim |-> <<>>, owes |-> FALSE, turn |-> 1, over |-> FALSE,
                 provisional |-> FALSE, goAway |-> FALSE]
      /\ svc = [turn |-> 1, shown |-> FALSE, final |-> FALSE, done |-> FALSE]
      /\ said = {} /\ book = BK!EmptyBook /\ ended = "no"
  BY DEF GL!Init, GL!EmptyBook, BK!EmptyBook
<1>2. GeminiTurns(conn, svc)
  BY <1>1 DEF GeminiTurns, Begun, BK!Text
<1>3. ~Begun(svc) /\ 1..(IF svc.final \/ svc.done THEN svc.turn ELSE svc.turn - 1) = {}
  BY <1>1 DEF Begun
<1> QED BY <1>1, <1>2, <1>3, EmptyBooks DEF GeminiKnows, GeminiBooks, BK!Named

-----------------------------------------------------------------------------
(* Deepgram's connector applies its signals to the same books. *)
LEMMA DeepgramSignals ==
  /\ \A b, s : DG!Applied(b, s) = BK!Applied(b, s)
  /\ \A b, list : DG!ApplyAll(b, list) = BK!ApplyAll(b, list)
  /\ \A b : DG!SettledBook(b) = BK!SettledBook(b)
  /\ \A n, at : DG!Started(n, at) = BK!Started(n, at)
  /\ \A n, text, append : DG!Partial(n, text, append) = BK!Partial(n, text, append)
  /\ \A n, text, words : DG!Final(n, text, words) = BK!Final(n, text, words)
<1>1. ASSUME NEW b, NEW r, NEW at, NEW i, NEW s
      PROVE  /\ DG!Resolve(b, r) = BK!Resolve(b, r) /\ DG!PlaceOf(b, r) = BK!PlaceOf(b, r)
             /\ DG!Opened(b, r, at) = BK!Opened(b, r, at)
             /\ DG!GrownAt(b, i, s) = BK!GrownAt(b, i, s)
             /\ DG!Closed(b, s) = BK!Closed(b, s)
  <2>1. DG!Resolve(b, r) = BK!Resolve(b, r) /\ DG!PlaceOf(b, r) = BK!PlaceOf(b, r)
    BY DEF DG!Resolve, DG!NoRef, DG!PlaceOf, DG!OpenAt, BK!Resolve, BK!NoRef, BK!PlaceOf, BK!OpenAt
  <2>2. DG!Opened(b, r, at) = BK!Opened(b, r, at)
    BY DEF DG!Opened, DG!OpenAt, DG!Resolve, DG!Handle, DG!NoRef,
           BK!Opened, BK!OpenAt, BK!Resolve, BK!Handle, BK!NoRef
  <2>3. DG!GrownAt(b, i, s) = BK!GrownAt(b, i, s)
    BY DEF DG!GrownAt, DG!Emit, DG!Put, BK!GrownAt, BK!Emit, BK!Put
  <2>4. DG!Closed(b, s) = BK!Closed(b, s)
    BY DEF DG!Closed, DG!PlaceOf, DG!OpenAt, DG!Resolve, DG!Emit, DG!Put, DG!Handle,
           DG!NoRef, DG!RemoveAt, BK!Closed, BK!PlaceOf, BK!OpenAt, BK!Resolve, BK!Emit, BK!Put,
           BK!Handle, BK!NoRef, BK!RemoveAt
  <2> QED BY <2>1, <2>2, <2>3, <2>4
<1>2. ASSUME NEW b, NEW s PROVE DG!Applied(b, s) = BK!Applied(b, s)
  <2>1. DG!Grown(b, s) = BK!Grown(b, s)
    BY <1>1 DEF DG!Grown, BK!Grown, DG!NoRef, BK!NoRef
  <2> QED BY <1>1, <2>1 DEF DG!Applied, BK!Applied
<1>3. ASSUME NEW b PROVE DG!SettledBook(b) = BK!SettledBook(b)
  BY DEF DG!SettledBook, DG!Emit, DG!Put, BK!SettledBook, BK!Emit, BK!Put
<1>4. /\ \A n, at : DG!Started(n, at) = BK!Started(n, at)
      /\ \A n, text, append : DG!Partial(n, text, append) = BK!Partial(n, text, append)
      /\ \A n, text, words : DG!Final(n, text, words) = BK!Final(n, text, words)
  BY DEF DG!Started, DG!Partial, DG!Final, BK!Started, BK!Partial, BK!Final
<1>5. ASSUME NEW b, NEW list PROVE DG!ApplyAll(b, list) = BK!ApplyAll(b, list)
  BY <1>2 DEF DG!ApplyAll, BK!ApplyAll
<1> QED BY <1>2, <1>3, <1>4, <1>5


-----------------------------------------------------------------------------
(* Deepgram tells one turn in segments.  The connector holds of it what the
   service has settled and shown; each turn told began after those before it. *)
Spoken(s) == s.turn \o s.hang

DeepgramTurn(c, s) ==
  /\ c \in [open : BOOLEAN, start : Nat, parts : BK!Text, interim : BK!Text]
  /\ s \in [seg : Nat \ {0}, turn : BK!Text, from : Nat, hang : BK!Text, lastEnd : Nat]
  /\ (c.open <=> s.from # 0) /\ c.start = s.from /\ c.parts = s.turn /\ c.interim = s.hang
  /\ s.from = 0 <=> Spoken(s) = <<>>
  /\ s.from <= s.seg /\ (s.from = s.seg => s.hang = <<-s.seg>>)
  /\ s.lastEnd <= s.seg /\ (s.from # 0 => s.lastEnd <= s.from)

DeepgramBooks(b, told, s) ==
  /\ BK!Good(b) /\ BK!Said(b) = told
  /\ BK!ToSet(b.open) = IF s.from = 0 THEN {} ELSE {BK!Lone(s.from, Spoken(s))}
  /\ \A x \in told : \E f \in Nat : x.handle = <<0, f>> /\ f < s.seg /\ (s.from # 0 => f < s.from)

DeepgramKnows ==
  /\ BK!Good(book)
  /\ ended = "no" => DeepgramTurn(conn, svc) /\ DeepgramBooks(book, said, svc)
  /\ ended # "no" => AllSettled

LEMMA DeepgramHears ==
  ASSUME NEW t, DG!Hears(t), DeepgramTurn(t.conn, svc'),
         NEW b, b = BK!ApplyAll(book, t.signals), DeepgramBooks(b, said', svc')
  PROVE  DeepgramKnows'
<1>1. ended' = "no" /\ conn' = t.conn /\ book' = b
  BY DeepgramSignals DEF DG!Hears
<1> QED BY <1>1 DEF DeepgramKnows, DeepgramBooks

(* What a message with text, and one that ends a turn, mean to the connector. *)
NowFrom == IF svc.from = 0 THEN svc.seg ELSE svc.from

ShowsTurn(t, parts, interim) ==
  /\ t.conn = [open |-> TRUE, start |-> NowFrom, parts |-> parts, interim |-> interim]
  /\ BK!LoneFor(book, NowFrom, t.signals, BK!Showing(parts \o interim))

ClosesTurn(t, parts, interim) ==
  /\ t.conn = DG!NoTurn
  /\ BK!LoneFor(book, NowFrom, t.signals, BK!Final(0, parts \o interim, parts))

LEMMA DeepgramTexts ==
  ASSUME DeepgramTurn(conn, svc), DeepgramBooks(book, said, svc),
         NEW m, m.text \in BK!Text, m.text # <<>>, m.final \in BOOLEAN, m.last \in BOOLEAN, m.start = svc.seg,
         NEW parts, parts = IF m.final THEN svc.turn \o m.text ELSE svc.turn,
         NEW interim, interim = IF m.final THEN <<>> ELSE m.text
  PROVE  /\ ~m.last => ShowsTurn(DG!Results(conn, m), parts, interim)
         /\ m.last => ClosesTurn(DG!Results(conn, m), parts, interim)
<1> DEFINE t == DG!Results(conn, m)
           opens == m.text # <<>> /\ ~conn.open
           o == IF opens THEN [conn EXCEPT !.open = TRUE, !.start = m.start] ELSE conn
           h == IF m.final
                THEN [o EXCEPT !.parts = @ \o m.text, !.interim = IF m.text # <<>> THEN <<>> ELSE @]
                ELSE [o EXCEPT !.interim = IF m.text # <<>> THEN m.text ELSE @]
           start == IF opens THEN <<DG!Started(DG!NoRef, m.start)>> ELSE <<>>
           partial == DG!Partial(DG!NoRef, DG!TurnText(h), FALSE)
           final == DG!Final(DG!NoRef, DG!TurnText(h), h.parts)
           c == [open |-> TRUE, start |-> NowFrom, parts |-> parts, interim |-> interim]
<1>1. conn \in [open : BOOLEAN, start : Nat, parts : BK!Text, interim : BK!Text]
      /\ (conn.open <=> svc.from # 0) /\ conn.start = svc.from /\ conn.parts = svc.turn
  BY DEF DeepgramTurn
<1>2. t = IF ~h.open THEN [conn |-> h, signals |-> start]
          ELSE IF m.last THEN [conn |-> DG!NoTurn, signals |-> Append(start, final)]
          ELSE [conn |-> h, signals |-> IF m.text # <<>> THEN Append(start, partial) ELSE start]
  BY DEF DG!Results
<1>3. h = c
  <2>1. o = [open |-> TRUE, start |-> NowFrom, parts |-> svc.turn, interim |-> conn.interim]
    BY <1>1 DEF NowFrom
  <2> HIDE DEF o
  <2>2. /\ m.final => h = [open |-> TRUE, start |-> NowFrom, parts |-> svc.turn \o m.text, interim |-> <<>>]
        /\ ~m.final => h = [open |-> TRUE, start |-> NowFrom, parts |-> svc.turn, interim |-> m.text]
    BY <2>1
  <2> QED BY <2>2
<1>4. h.open /\ h.parts = parts /\ DG!TurnText(h) = parts \o interim
  BY <1>3 DEF DG!TurnText
<1>5. partial = BK!Showing(parts \o interim) /\ final = BK!Final(0, parts \o interim, parts)
  BY <1>4, DeepgramSignals DEF BK!Showing, DG!NoRef
<1>6. \A last : BK!LoneFor(book, NowFrom, Append(start, last), last)
  <2>1. CASE ~conn.open
    <3>1. svc.from = 0 /\ BK!ToSet(book.open) = {} /\ NowFrom = svc.seg
      BY <1>1, <2>1 DEF DeepgramBooks, NowFrom
    <3>2. start = <<BK!Started(0, svc.seg)>>
      BY <2>1, DeepgramSignals DEF DG!NoRef
    <3> HIDE DEF start
    <3> SUFFICES ASSUME NEW last PROVE BK!LoneFor(book, NowFrom, Append(start, last), last)
      OBVIOUS
    <3>3. Append(start, last) = <<BK!Started(0, svc.seg), last>>
      BY <3>2, BK!Pair
    <3> QED BY <3>1, <3>3 DEF BK!LoneFor
  <2>2. CASE conn.open
    <3>1. svc.from # 0 /\ BK!ToSet(book.open) = {BK!Lone(svc.from, Spoken(svc))} /\ NowFrom = svc.from
          /\ Spoken(svc) \in BK!Text
      BY <1>1, <2>2 DEF DeepgramBooks, NowFrom, DeepgramTurn, Spoken, BK!Text
    <3>2. start = <<>> /\ \A last : Append(<<>>, last) = <<last>>
      BY <2>2
    <3>3. \E old \in BK!Text : BK!ToSet(book.open) = {BK!Lone(NowFrom, old)}
      BY <3>1
    <3> HIDE DEF start
    <3> SUFFICES ASSUME NEW last PROVE BK!LoneFor(book, NowFrom, Append(start, last), last)
      OBVIOUS
    <3>4. Append(start, last) = <<last>>
      BY <3>2
    <3> QED BY <3>3, <3>4 DEF BK!LoneFor
  <2> QED BY <2>1, <2>2
<1> HIDE DEF t, h, start, partial, final, c
<1>7. /\ ~m.last => t.conn = h /\ t.signals = Append(start, partial)
      /\ m.last => t.conn = DG!NoTurn /\ t.signals = Append(start, final)
  BY <1>2, <1>4
<1>8. BK!LoneFor(book, NowFrom, Append(start, partial), partial)
      /\ BK!LoneFor(book, NowFrom, Append(start, final), final)
  BY <1>6
<1>9. ~m.last => ShowsTurn(t, parts, interim)
  BY <1>3, <1>5, <1>7, <1>8 DEF c, ShowsTurn
<1>10. m.last => ClosesTurn(t, parts, interim)
  BY <1>5, <1>7, <1>8 DEF ClosesTurn
<1> QED BY <1>9, <1>10 DEF t

LEMMA DeepgramShows == ASSUME DeepgramKnows, DG!Interim PROVE DeepgramKnows'
<1> DEFINE text == <<-svc.seg>>
           m == [text |-> text, start |-> svc.seg, final |-> FALSE, last |-> FALSE]
           t == DG!Results(conn, m)
           b == BK!ApplyAll(book, t.signals)
           new == svc.turn \o text
<1>1. /\ svc' = [svc EXCEPT !.hang = text, !.from = NowFrom] /\ DG!Hears(t) /\ said' = said /\ ended = "no"
  BY DEF DG!Interim, DG!Hears, DG!From, NowFrom
<1>2. DeepgramTurn(conn, svc) /\ DeepgramBooks(book, said, svc)
  BY <1>1 DEF DeepgramKnows
<1>3. /\ NowFrom \in Nat \ {0} /\ NowFrom \in Int /\ NowFrom <= svc.seg /\ text \in BK!Text /\ text # <<>>
      /\ svc.turn \in BK!Text /\ svc.hang \in BK!Text /\ svc.seg \in Nat \ {0} /\ svc.from \in Nat
      /\ (svc.from # 0 => NowFrom = svc.from) /\ (svc.from = 0 => NowFrom = svc.seg)
      /\ new \in BK!Text /\ new # <<>>
  BY <1>2 DEF DeepgramTurn, NowFrom, BK!Text
<1>4. /\ t.conn = [open |-> TRUE, start |-> NowFrom, parts |-> svc.turn, interim |-> text]
      /\ BK!LoneFor(book, NowFrom, t.signals, BK!Showing(new))
  <2>1. m.text = text /\ ~m.final /\ ~m.last /\ m.final \in BOOLEAN /\ m.last \in BOOLEAN /\ m.start = svc.seg
    OBVIOUS
  <2> HIDE DEF m, text
  <2>2. /\ svc.turn = IF m.final THEN svc.turn \o m.text ELSE svc.turn
        /\ text = IF m.final THEN <<>> ELSE m.text
    BY <2>1
  <2>3. ShowsTurn(t, svc.turn, text)
    BY <1>2, <1>3, <2>1, <2>2, DeepgramTexts
  <2> QED BY <2>3 DEF ShowsTurn
<1>5. /\ svc' \in [seg : Nat \ {0}, turn : BK!Text, from : Nat, hang : BK!Text, lastEnd : Nat]
      /\ svc'.seg = svc.seg /\ svc'.turn = svc.turn /\ svc'.from = NowFrom /\ svc'.hang = text
      /\ svc'.lastEnd = svc.lastEnd /\ Spoken(svc') = new
  BY <1>1, <1>2, <1>3 DEF DeepgramTurn, Spoken
<1>6. DeepgramTurn(t.conn, svc')
  <2>1. /\ svc.lastEnd <= svc.seg /\ svc.lastEnd <= NowFrom
        /\ t.conn \in [open : BOOLEAN, start : Nat, parts : BK!Text, interim : BK!Text]
    <3>1. TRUE \in BOOLEAN
      OBVIOUS
    <3> HIDE DEF t
    <3> QED BY <1>2, <1>3, <1>4, <3>1 DEF DeepgramTurn
  <2> HIDE DEF t, new
  <2> QED BY <1>3, <1>4, <1>5, <2>1 DEF DeepgramTurn
<1>7. BK!Good(b) /\ BK!Said(b) = said /\ BK!ToSet(b.open) = {BK!Lone(NowFrom, new)}
  <2>1. BK!Good(book) /\ BK!Said(book) = said
    BY <1>2 DEF DeepgramBooks
  <2>2. BK!Untold(book, NowFrom)
    BY <1>2, <1>3 DEF DeepgramBooks, BK!Untold
  <2> HIDE DEF t, new
  <2>3. BK!TellsLone(book, b, NowFrom, new)
    BY <1>3, <1>4, <2>1, <2>2, BK!LoneTells
  <2> HIDE DEF b
  <2> QED BY <2>1, <2>3 DEF BK!TellsLone
<1>8. \A x \in said : \E f \in Nat : x.handle = <<0, f>> /\ f < svc'.seg /\ (svc'.from # 0 => f < svc'.from)
  BY <1>2, <1>3, <1>5 DEF DeepgramBooks
<1>9. DeepgramBooks(b, said', svc')
  <2> HIDE DEF b
  <2> QED BY <1>1, <1>3, <1>5, <1>7, <1>8 DEF DeepgramBooks
<1> HIDE DEF t, b
<1> QED BY <1>1, <1>6, <1>9, DeepgramHears DEF b

(* A turn ends with what is settled of it and the last it showed. *)
LEMMA DeepgramCloses ==
  ASSUME DeepgramKnows, DeepgramTurn(conn, svc), DeepgramBooks(book, said, svc),
         NEW t, DG!Hears(t), t.conn = DG!NoTurn,
         NEW at \in Nat, at = svc.from \/ (svc.from = 0 /\ at = svc.seg), at # 0,
         NEW parts \in BK!Text, NEW interim \in BK!Text, parts \o interim # <<>>,
         BK!LoneFor(book, at, t.signals, BK!Final(0, parts \o interim, parts)),
         said' = DG!Told(parts, interim, at),
         NEW n \in Nat \ {0}, svc' = [seg |-> n, turn |-> <<>>, from |-> 0, hang |-> <<>>, lastEnd |-> n],
         n >= svc.seg, at < n
  PROVE  DeepgramKnows'
<1> DEFINE new == parts \o interim
           b == BK!ApplyAll(book, t.signals)
<1>1. at \in Int /\ new \in BK!Text /\ parts \in BK!Words
  BY DEF BK!Text, BK!Words
<1>2. BK!Good(book) /\ BK!Said(book) = said /\ BK!Untold(book, at)
  <2>1. BK!Good(book) /\ BK!Said(book) = said
    BY DEF DeepgramBooks
  <2>2. \A x \in said : x.handle # <<0, at>>
    BY DEF DeepgramBooks, DeepgramTurn
  <2> QED BY <2>1, <2>2 DEF BK!Untold
<1>3. BK!ClosesLone(book, b, at, new, parts)
  <2> HIDE DEF new
  <2> QED BY <1>1, <1>2, BK!LoneCloses DEF new
<1>4. said' = said \cup {BK!Telling(<<0, at>>, new, parts)}
  BY DEF DG!Told, DG!Handle, DG!NoRef, BK!Telling
<1>5. /\ svc' \in [seg : Nat \ {0}, turn : BK!Text, from : Nat, hang : BK!Text, lastEnd : Nat]
      /\ svc'.seg = n /\ svc'.turn = <<>> /\ svc'.from = 0 /\ svc'.hang = <<>> /\ svc'.lastEnd = n
      /\ Spoken(svc') = <<>>
  BY DEF BK!Text, Spoken
<1>6. DeepgramTurn(t.conn, svc')
  <2>1. /\ t.conn \in [open : BOOLEAN, start : Nat, parts : BK!Text, interim : BK!Text]
        /\ ~t.conn.open /\ t.conn.start = 0 /\ t.conn.parts = <<>> /\ t.conn.interim = <<>>
    BY DEF DG!NoTurn, BK!Text
  <2> QED BY <1>5, <2>1 DEF DeepgramTurn
<1>7. \A x \in said' : \E f \in Nat : x.handle = <<0, f>> /\ f < n
  <2>1. \A x \in said : \E f \in Nat : x.handle = <<0, f>> /\ f < n
    BY DEF DeepgramBooks, DeepgramTurn
  <2>2. BK!Telling(<<0, at>>, new, parts).handle = <<0, at>>
    BY DEF BK!Telling
  <2> HIDE DEF new
  <2> QED BY <1>4, <2>1, <2>2
<1>8. DeepgramBooks(b, said', svc')
  <2> HIDE DEF b, new
  <2> QED BY <1>2, <1>3, <1>4, <1>5, <1>7 DEF DeepgramBooks, BK!ClosesLone
<1> HIDE DEF b
<1> QED BY <1>6, <1>8, DeepgramHears DEF b

LEMMA DeepgramGap == ASSUME DeepgramKnows, DG!GapEnds PROVE DeepgramKnows'
<1> DEFINE n == IF svc.hang = <<-svc.seg>> THEN svc.seg + 1 ELSE svc.seg
           t == DG!UtteranceEnd(conn, n)
<1>1. /\ Spoken(svc) # <<>> /\ svc' = [DG!NoSpeech EXCEPT !.seg = n, !.lastEnd = n]
      /\ DG!Hears(t) /\ said' = DG!Told(svc.turn, svc.hang, svc.from) /\ ended = "no"
  BY DEF DG!GapEnds, DG!Hears, Spoken
<1>2. DeepgramTurn(conn, svc) /\ DeepgramBooks(book, said, svc)
  BY <1>1 DEF DeepgramKnows
<1>3. /\ svc.from \in Nat /\ svc.from # 0 /\ svc.from < n /\ n \in Nat \ {0} /\ n >= svc.seg
      /\ svc.turn \in BK!Text /\ svc.hang \in BK!Text /\ svc.turn \o svc.hang # <<>>
  BY <1>1, <1>2 DEF DeepgramTurn, Spoken
<1>4. /\ t.conn = DG!NoTurn
      /\ t.signals = <<BK!Final(0, svc.turn \o svc.hang, svc.turn)>>
  <2> HIDE DEF n
  <2> QED BY <1>2, <1>3, DeepgramSignals DEF DeepgramTurn, DG!UtteranceEnd, DG!TurnText, DG!NoRef
<1>5. BK!LoneFor(book, svc.from, t.signals, BK!Final(0, svc.turn \o svc.hang, svc.turn))
  <2>1. \E old \in BK!Text : BK!ToSet(book.open) = {BK!Lone(svc.from, old)}
    <3>1. Spoken(svc) \in BK!Text
      BY <1>3 DEF Spoken, BK!Text
    <3>2. BK!ToSet(book.open) = {BK!Lone(svc.from, Spoken(svc))}
      BY <1>2, <1>3 DEF DeepgramBooks
    <3> QED BY <3>1, <3>2
  <2> HIDE DEF t
  <2> QED BY <1>4, <2>1 DEF BK!LoneFor
<1>6. svc' = [seg |-> n, turn |-> <<>>, from |-> 0, hang |-> <<>>, lastEnd |-> n]
  BY <1>1 DEF DG!NoSpeech
<1> HIDE DEF n, t
<1> DEFINE at == svc.from
           parts == svc.turn
           interim == svc.hang
<1>7. /\ at \in Nat /\ at # 0 /\ at < n /\ parts \in BK!Text /\ interim \in BK!Text /\ parts \o interim # <<>>
      /\ at = svc.from /\ said' = DG!Told(parts, interim, at)
      /\ BK!LoneFor(book, at, t.signals, BK!Final(0, parts \o interim, parts))
  BY <1>1, <1>3, <1>5
<1> HIDE DEF at, parts, interim
<1> QED BY <1>1, <1>2, <1>3, <1>4, <1>6, <1>7, DeepgramCloses

(* A settled segment without text changes nothing unless it ends the turn. *)
LEMMA DeepgramSilence ==
  ASSUME DeepgramKnows, NEW last \in BOOLEAN, DG!Locks(<<>>, last) PROVE DeepgramKnows'
<1> DEFINE m == [text |-> <<>>, start |-> svc.seg, final |-> TRUE, last |-> last]
           t == DG!Results(conn, m)
           turn == svc.turn \o <<>>
           n == svc.seg + 1
<1>1. /\ svc' = [seg |-> n, turn |-> IF last THEN <<>> ELSE turn,
                 from |-> IF last THEN 0 ELSE svc.from, hang |-> IF last THEN <<>> ELSE svc.hang,
                 lastEnd |-> IF last /\ turn \o svc.hang # <<>> THEN n ELSE svc.lastEnd]
      /\ said' = (IF last THEN DG!Told(turn, svc.hang, svc.from) ELSE said)
      /\ DG!Hears(t) /\ ended = "no"
  BY DEF DG!Locks, DG!Hears
<1>2. DeepgramTurn(conn, svc) /\ DeepgramBooks(book, said, svc)
  BY <1>1 DEF DeepgramKnows
<1>3. /\ turn = svc.turn /\ svc.turn \in BK!Text /\ svc.hang \in BK!Text /\ svc.seg \in Nat \ {0}
      /\ n \in Nat \ {0} /\ svc.from \in Nat /\ svc.from < n /\ svc.lastEnd \in Nat /\ svc.lastEnd < n
      /\ conn \in [open : BOOLEAN, start : Nat, parts : BK!Text, interim : BK!Text]
      /\ (conn.open <=> svc.from # 0) /\ conn.parts = svc.turn /\ conn.interim = svc.hang
      /\ conn.parts \o <<>> = conn.parts /\ conn.start = svc.from
      /\ (svc.from = 0 <=> svc.turn \o svc.hang = <<>>)
  BY <1>2 DEF DeepgramTurn, BK!Text, Spoken
<1>4. t = IF ~conn.open THEN [conn |-> conn, signals |-> <<>>]
          ELSE IF last
          THEN [conn |-> DG!NoTurn,
                signals |-> <<BK!Final(0, svc.turn \o svc.hang, svc.turn)>>]
          ELSE [conn |-> conn, signals |-> <<>>]
  <2> DEFINE o == IF m.text # <<>> /\ ~conn.open THEN [conn EXCEPT !.open = TRUE, !.start = m.start] ELSE conn
             h == IF m.final
                  THEN [o EXCEPT !.parts = @ \o m.text, !.interim = IF m.text # <<>> THEN <<>> ELSE @]
                  ELSE [o EXCEPT !.interim = IF m.text # <<>> THEN m.text ELSE @]
             start == IF m.text # <<>> /\ ~conn.open THEN <<DG!Started(DG!NoRef, m.start)>> ELSE <<>>
             final == DG!Final(DG!NoRef, DG!TurnText(h), h.parts)
             partial == DG!Partial(DG!NoRef, DG!TurnText(h), FALSE)
  <2>1. t = IF ~h.open THEN [conn |-> h, signals |-> start]
            ELSE IF m.last THEN [conn |-> DG!NoTurn, signals |-> Append(start, final)]
            ELSE [conn |-> h, signals |-> IF m.text # <<>> THEN Append(start, partial) ELSE start]
    BY DEF DG!Results
  <2>2. o = conn /\ start = <<>> /\ m.text = <<>> /\ m.final /\ (m.last <=> last)
    OBVIOUS
  <2>3. h = conn
    <3>1. h = [o EXCEPT !.parts = @ \o <<>>, !.interim = @]
      OBVIOUS
    <3> HIDE DEF h, o
    <3> QED BY <1>3, <2>2, <3>1
  <2>4. final = BK!Final(0, svc.turn \o svc.hang, svc.turn)
    BY <1>3, <2>3, DeepgramSignals DEF DG!TurnText, DG!NoRef
  <2>5. Append(<<>>, final) = <<final>>
    BY BK!Pair
  <2> HIDE DEF t, h, o, start, final, partial, m
  <2> QED BY <2>1, <2>2, <2>3, <2>4, <2>5
<1>5. CASE ~(last /\ svc.from # 0)
  <2>1. t.conn = conn /\ t.signals = <<>>
    BY <1>3, <1>4, <1>5
  <2>2. /\ svc' \in [seg : Nat \ {0}, turn : BK!Text, from : Nat, hang : BK!Text, lastEnd : Nat]
        /\ svc'.seg = n /\ svc'.turn = svc.turn /\ svc'.from = svc.from /\ svc'.hang = svc.hang
        /\ svc'.lastEnd = svc.lastEnd /\ Spoken(svc') = Spoken(svc) /\ said' = said
    <3>1. CASE ~last
      <4> HIDE DEF turn, n
      <4> QED BY <1>1, <1>3, <3>1 DEF Spoken
    <3>2. CASE last
      <4>1. svc.from = 0 /\ svc.turn \o svc.hang = <<>>
        BY <1>3, <1>5, <3>2
      <4>2. svc.turn = <<>> /\ svc.hang = <<>>
        <5>1. svc.hang = <<>>
          BY <1>3, <4>1, BK!Longer DEF BK!Text
        <5>2. svc.turn \o <<>> = svc.turn
          BY <1>3
        <5> QED BY <4>1, <5>1, <5>2
      <4>3. said' = said
        BY <1>1, <1>3, <3>2, <4>1 DEF DG!Told
      <4> HIDE DEF turn, n
      <4> QED BY <1>1, <1>3, <3>2, <4>1, <4>2, <4>3 DEF Spoken
    <3> QED BY <3>1, <3>2
  <2>3. DeepgramTurn(t.conn, svc')
    <3>1. svc.from <= n /\ svc.from # n /\ svc.lastEnd <= n
      BY <1>3
    <3> HIDE DEF t, n
    <3> QED BY <1>2, <2>1, <2>2, <3>1 DEF DeepgramTurn
  <2>4. BK!ApplyAll(book, t.signals) = book
    BY <2>1, BK!AppliesNone
  <2>5. DeepgramBooks(book, said', svc')
    BY <1>2, <1>3, <2>2 DEF DeepgramBooks
  <2> HIDE DEF t
  <2> QED BY <1>1, <2>3, <2>4, <2>5, DeepgramHears
<1>6. CASE last /\ svc.from # 0
  <2> HIDE DEF t
  <2>1. t.conn = DG!NoTurn /\ t.signals = <<BK!Final(0, svc.turn \o svc.hang, svc.turn)>>
    BY <1>3, <1>4, <1>6
  <2>2. BK!LoneFor(book, svc.from, t.signals, BK!Final(0, svc.turn \o svc.hang, svc.turn))
    <3>1. \E old \in BK!Text : BK!ToSet(book.open) = {BK!Lone(svc.from, old)}
      <4>1. Spoken(svc) \in BK!Text
        BY <1>3 DEF Spoken, BK!Text
      <4>2. BK!ToSet(book.open) = {BK!Lone(svc.from, Spoken(svc))}
        BY <1>2, <1>6 DEF DeepgramBooks
      <4> QED BY <4>1, <4>2
    <3> QED BY <2>1, <3>1 DEF BK!LoneFor
  <2>3. /\ svc' = [seg |-> n, turn |-> <<>>, from |-> 0, hang |-> <<>>, lastEnd |-> n]
        /\ said' = DG!Told(svc.turn, svc.hang, svc.from)
    BY <1>1, <1>3, <1>6
  <2> DEFINE at == svc.from
             parts == svc.turn
             interim == svc.hang
  <2>4. /\ at \in Nat /\ at # 0 /\ at < n /\ parts \in BK!Text /\ interim \in BK!Text /\ parts \o interim # <<>>
        /\ at = svc.from /\ said' = DG!Told(parts, interim, at) /\ n >= svc.seg
        /\ BK!LoneFor(book, at, t.signals, BK!Final(0, parts \o interim, parts))
    BY <1>3, <1>6, <2>2, <2>3
  <2> HIDE DEF at, parts, interim, n
  <2> QED BY <1>1, <1>2, <1>3, <2>1, <2>3, <2>4, DeepgramCloses
<1> QED BY <1>5, <1>6

(* A settled segment with text is the turn's next, and perhaps its last. *)
LEMMA DeepgramSettles ==
  ASSUME DeepgramKnows, NEW last \in BOOLEAN, DG!Locks(<<svc.seg>>, last) PROVE DeepgramKnows'
<1> DEFINE text == <<svc.seg>>
           m == [text |-> text, start |-> svc.seg, final |-> TRUE, last |-> last]
           t == DG!Results(conn, m)
           turn == svc.turn \o text
           n == svc.seg + 1
           b == BK!ApplyAll(book, t.signals)
<1>1. /\ svc' = [seg |-> n, turn |-> IF last THEN <<>> ELSE turn,
                 from |-> IF last THEN 0 ELSE NowFrom, hang |-> IF last THEN <<>> ELSE <<>>,
                 lastEnd |-> IF last /\ turn \o <<>> # <<>> THEN n ELSE svc.lastEnd]
      /\ said' = (IF last THEN DG!Told(turn, <<>>, NowFrom) ELSE said)
      /\ DG!Hears(t) /\ ended = "no"
  <2>1. text # <<>>
    OBVIOUS
  <2> QED BY <2>1 DEF DG!Locks, DG!Hears, DG!From, NowFrom
<1>2. DeepgramTurn(conn, svc) /\ DeepgramBooks(book, said, svc)
  BY <1>1 DEF DeepgramKnows
<1>3. /\ svc.turn \in BK!Text /\ svc.seg \in Nat \ {0} /\ text \in BK!Text /\ text # <<>>
      /\ n \in Nat \ {0} /\ NowFrom \in Nat \ {0} /\ NowFrom \in Int /\ NowFrom <= svc.seg /\ NowFrom < n
      /\ svc.lastEnd \in Nat /\ svc.lastEnd < n /\ svc.lastEnd <= NowFrom
      /\ (svc.from # 0 => NowFrom = svc.from) /\ (svc.from = 0 => NowFrom = svc.seg)
  BY <1>2 DEF DeepgramTurn, BK!Text, NowFrom
<1>4. turn \in BK!Text /\ turn # <<>> /\ turn \o <<>> = turn /\ <<>> \in BK!Text
  <2>1. turn # <<>>
    BY <1>3, BK!Longer DEF BK!Text
  <2>2. turn \in Seq(Int)
    BY <1>3 DEF BK!Text
  <2> HIDE DEF turn
  <2> QED BY <2>1, <2>2 DEF BK!Text
<1>5. /\ ~last => ShowsTurn(t, turn, <<>>)
      /\ last => ClosesTurn(t, turn, <<>>)
  <2>1. /\ m.text = text /\ m.final /\ (m.last <=> last) /\ m.final \in BOOLEAN /\ m.last \in BOOLEAN
        /\ m.start = svc.seg
    OBVIOUS
  <2> HIDE DEF m, text
  <2>2. /\ turn = IF m.final THEN svc.turn \o m.text ELSE svc.turn
        /\ <<>> = IF m.final THEN <<>> ELSE m.text
    BY <2>1
  <2> DEFINE none == <<>>
  <2>3. none = IF m.final THEN <<>> ELSE m.text
    BY <2>2
  <2> HIDE DEF none, turn
  <2>4. (~m.last => ShowsTurn(t, turn, none)) /\ (m.last => ClosesTurn(t, turn, none))
    BY <1>2, <1>3, <2>1, <2>2, <2>3, DeepgramTexts
  <2> QED BY <2>1, <2>4 DEF none
<1>6. CASE ~last
  <2>1. /\ t.conn = [open |-> TRUE, start |-> NowFrom, parts |-> turn, interim |-> <<>>]
        /\ BK!LoneFor(book, NowFrom, t.signals, BK!Showing(turn))
    BY <1>4, <1>5, <1>6 DEF ShowsTurn
  <2>2. /\ svc' \in [seg : Nat \ {0}, turn : BK!Text, from : Nat, hang : BK!Text, lastEnd : Nat]
        /\ svc'.seg = n /\ svc'.turn = turn /\ svc'.from = NowFrom /\ svc'.hang = <<>>
        /\ svc'.lastEnd = svc.lastEnd /\ Spoken(svc') = turn /\ said' = said
    <3> HIDE DEF turn, n
    <3> QED BY <1>1, <1>3, <1>4, <1>6 DEF Spoken
  <2>3. DeepgramTurn(t.conn, svc')
    <3>1. t.conn \in [open : BOOLEAN, start : Nat, parts : BK!Text, interim : BK!Text] /\ t.conn.open
          /\ t.conn.start = NowFrom /\ t.conn.parts = turn /\ t.conn.interim = <<>>
      <4>1. TRUE \in BOOLEAN
        OBVIOUS
      <4> HIDE DEF t, turn
      <4> QED BY <1>3, <1>4, <2>1, <4>1
    <3>2. NowFrom <= n /\ NowFrom # n /\ svc.lastEnd <= n /\ NowFrom # 0
      BY <1>3
    <3> HIDE DEF t, n, turn
    <3> QED BY <1>3, <1>4, <2>2, <3>1, <3>2 DEF DeepgramTurn
  <2>4. BK!TellsLone(book, b, NowFrom, turn)
    <3>1. BK!Good(book) /\ BK!Untold(book, NowFrom)
      BY <1>2, <1>3 DEF DeepgramBooks, BK!Untold
    <3> HIDE DEF t, turn
    <3> QED BY <1>3, <1>4, <2>1, <3>1, BK!LoneTells
  <2>5. \A x \in said : \E f \in Nat : x.handle = <<0, f>> /\ f < n /\ f < NowFrom
    BY <1>2, <1>3 DEF DeepgramBooks
  <2>6. DeepgramBooks(b, said', svc')
    <3> HIDE DEF b, turn, n
    <3> QED BY <1>2, <1>3, <2>2, <2>4, <2>5 DEF DeepgramBooks, BK!TellsLone
  <2> HIDE DEF t, b
  <2> QED BY <1>1, <2>3, <2>6, DeepgramHears DEF b
<1>7. CASE last
  <2> DEFINE at == NowFrom
             interim == <<>>
             parts == turn
  <2>1. /\ t.conn = DG!NoTurn
        /\ BK!LoneFor(book, at, t.signals, BK!Final(0, parts \o interim, parts))
    BY <1>5, <1>7 DEF ClosesTurn
  <2>2. /\ svc' = [seg |-> n, turn |-> <<>>, from |-> 0, hang |-> <<>>, lastEnd |-> n]
        /\ said' = DG!Told(parts, interim, at)
    <3> HIDE DEF turn, n
    <3> QED BY <1>1, <1>4, <1>7
  <2>3. /\ at \in Nat /\ at # 0 /\ at < n /\ parts \in BK!Text /\ interim \in BK!Text /\ parts \o interim # <<>>
        /\ (at = svc.from \/ (svc.from = 0 /\ at = svc.seg)) /\ n >= svc.seg
    <3> HIDE DEF turn
    <3> QED BY <1>3, <1>4
  <2> HIDE DEF at, parts, interim, n, t
  <2> QED BY <1>1, <1>2, <1>3, <2>1, <2>2, <2>3, DeepgramCloses
<1> QED BY <1>6, <1>7

LEMMA DeepgramKeepsStep == ASSUME DeepgramKnows, DG!Next PROVE DeepgramKnows'
<1>1. CASE DG!Interim
  BY <1>1, DeepgramShows
<1>2. CASE DG!Segment
  <2>1. PICK text \in {<<>>, <<svc.seg>>}, last \in BOOLEAN : DG!Locks(text, last)
    BY <1>2 DEF DG!Segment
  <2> QED BY <2>1, DeepgramSilence, DeepgramSettles
<1>3. CASE DG!GapEnds
  BY <1>3, DeepgramGap
<1>4. CASE DG!LateEnd
  <2>1. PICK end \in {-1, svc.lastEnd} : DG!Hears(DG!UtteranceEnd(conn, end)) /\ UNCHANGED <<svc, said>>
    BY <1>4 DEF DG!LateEnd
  <2>2. DeepgramTurn(conn, svc) /\ DeepgramBooks(book, said, svc)
    BY <2>1 DEF DeepgramKnows, DG!Hears
  <2> DEFINE t == DG!UtteranceEnd(conn, end)
  <2>3. t = [conn |-> conn, signals |-> <<>>]
    <3>1. ~conn.open \/ end <= conn.start
      BY <2>2 DEF DeepgramTurn
    <3> QED BY <3>1 DEF DG!UtteranceEnd
  <2> HIDE DEF t
  <2>4. t.conn = conn /\ t.signals = <<>> /\ svc' = svc /\ said' = said
    BY <2>1, <2>3
  <2>5. BK!ApplyAll(book, t.signals) = book
    BY <2>4, BK!AppliesNone
  <2>6. DeepgramTurn(t.conn, svc') /\ DeepgramBooks(book, said', svc')
    BY <2>2, <2>4
  <2> QED BY <2>1, <2>5, <2>6, DeepgramHears DEF t
<1>5. CASE DG!Hangup
  <2>1. ended' # "no" /\ book' = BK!SettledBook(book)
    BY <1>5, DeepgramSignals DEF DG!Hangup
  <2> QED BY <2>1, BK!SettlesAll DEF DeepgramKnows, AllSettled
<1> QED BY <1>1, <1>2, <1>3, <1>4, <1>5 DEF DG!Next

LEMMA DeepgramKnowsAtFirst == ASSUME DG!Init PROVE DeepgramKnows
<1>1. /\ conn = [open |-> FALSE, start |-> 0, parts |-> <<>>, interim |-> <<>>]
      /\ svc = [seg |-> 1, turn |-> <<>>, from |-> 0, hang |-> <<>>, lastEnd |-> 0]
      /\ said = {} /\ book = BK!EmptyBook /\ ended = "no"
  BY DEF DG!Init, DG!EmptyBook, BK!EmptyBook, DG!NoTurn, DG!NoSpeech
<1>2. DeepgramTurn(conn, svc)
  BY <1>1 DEF DeepgramTurn, Spoken, BK!Text
<1> QED BY <1>1, <1>2, EmptyBooks DEF DeepgramKnows, DeepgramBooks, BK!Named

-----------------------------------------------------------------------------
(* xAI's connector applies its signals to the same books. *)
LEMMA XaiSignals ==
  /\ \A b, s : XA!Applied(b, s) = BK!Applied(b, s)
  /\ \A b, list : XA!ApplyAll(b, list) = BK!ApplyAll(b, list)
  /\ \A list, positions : XA!Chosen(list, positions) = BK!Chosen(list, positions)
  /\ \A b : XA!SettledBook(b) = BK!SettledBook(b)
  /\ \A n, at : XA!Started(n, at) = BK!Started(n, at)
  /\ \A n, text, append : XA!Partial(n, text, append) = BK!Partial(n, text, append)
  /\ \A n, text, words : XA!Final(n, text, words) = BK!Final(n, text, words)
<1>1. ASSUME NEW b, NEW r, NEW at, NEW i, NEW s
      PROVE  /\ XA!Resolve(b, r) = BK!Resolve(b, r) /\ XA!PlaceOf(b, r) = BK!PlaceOf(b, r)
             /\ XA!Opened(b, r, at) = BK!Opened(b, r, at)
             /\ XA!GrownAt(b, i, s) = BK!GrownAt(b, i, s)
             /\ XA!Closed(b, s) = BK!Closed(b, s)
  <2>1. XA!Resolve(b, r) = BK!Resolve(b, r) /\ XA!PlaceOf(b, r) = BK!PlaceOf(b, r)
    BY DEF XA!Resolve, XA!NoRef, XA!PlaceOf, XA!OpenAt, BK!Resolve, BK!NoRef, BK!PlaceOf, BK!OpenAt
  <2>2. XA!Opened(b, r, at) = BK!Opened(b, r, at)
    BY DEF XA!Opened, XA!OpenAt, XA!Resolve, XA!Handle, XA!NoRef,
           BK!Opened, BK!OpenAt, BK!Resolve, BK!Handle, BK!NoRef
  <2>3. XA!GrownAt(b, i, s) = BK!GrownAt(b, i, s)
    BY DEF XA!GrownAt, XA!Emit, XA!Put, BK!GrownAt, BK!Emit, BK!Put
  <2>4. XA!Closed(b, s) = BK!Closed(b, s)
    BY DEF XA!Closed, XA!PlaceOf, XA!OpenAt, XA!Resolve, XA!Emit, XA!Put, XA!Handle,
           XA!NoRef, XA!RemoveAt, BK!Closed, BK!PlaceOf, BK!OpenAt, BK!Resolve, BK!Emit, BK!Put,
           BK!Handle, BK!NoRef, BK!RemoveAt
  <2> QED BY <2>1, <2>2, <2>3, <2>4
<1>2. ASSUME NEW b, NEW s PROVE XA!Applied(b, s) = BK!Applied(b, s)
  <2>1. XA!Grown(b, s) = BK!Grown(b, s)
    BY <1>1 DEF XA!Grown, BK!Grown, XA!NoRef, BK!NoRef
  <2> QED BY <1>1, <2>1 DEF XA!Applied, BK!Applied
<1>3. ASSUME NEW b PROVE XA!SettledBook(b) = BK!SettledBook(b)
  BY DEF XA!SettledBook, XA!Emit, XA!Put, BK!SettledBook, BK!Emit, BK!Put
<1>4. /\ \A n, at : XA!Started(n, at) = BK!Started(n, at)
      /\ \A n, text, append : XA!Partial(n, text, append) = BK!Partial(n, text, append)
      /\ \A n, text, words : XA!Final(n, text, words) = BK!Final(n, text, words)
  BY DEF XA!Started, XA!Partial, XA!Final, BK!Started, BK!Partial, BK!Final
<1>5. ASSUME NEW b, NEW list PROVE XA!ApplyAll(b, list) = BK!ApplyAll(b, list)
  BY <1>2 DEF XA!ApplyAll, BK!ApplyAll
<1>6. ASSUME NEW list, NEW positions
      PROVE  XA!Chosen(list, positions) = BK!Chosen(list, positions)
  BY DEF XA!Chosen, BK!Chosen
<1> QED BY <1>2, <1>3, <1>4, <1>5, <1>6


-----------------------------------------------------------------------------
(* xAI's text is cumulative: what of it the connector has told ends where the
   turn being heard begins, whichever way the service reads its own documents. *)
WordType == [word : Int, end : Int]

LEMMA TextsOf ==
  ASSUME NEW words \in Seq(WordType)
  PROVE  /\ XA!Texts(words) \in Seq(Int) /\ Len(XA!Texts(words)) = Len(words)
         /\ \A i \in 1..Len(words) : XA!Texts(words)[i] = words[i].word
<1>1. \A i \in DOMAIN words : words[i].word \in Int
  <2>1. \A i \in DOMAIN words : words[i] \in WordType
    OBVIOUS
  <2> QED BY <2>1 DEF WordType
<1>2. DOMAIN words = 1..Len(words) /\ Len(words) \in Nat
  OBVIOUS
<1> DEFINE f == [i \in 1..Len(words) |-> words[i].word]
<1>3. f \in Seq(Int) /\ Len(f) = Len(words)
  BY <1>1, <1>2
<1>4. XA!Texts(words) = f
  BY <1>2 DEF XA!Texts
<1> QED BY <1>3, <1>4

LEMMA TextsOfPart ==
  ASSUME NEW words \in Seq(WordType), NEW a \in Nat, NEW b \in Nat, 1 <= a, a <= b + 1, b <= Len(words)
  PROVE  /\ SubSeq(words, a, b) \in Seq(WordType) /\ Len(SubSeq(words, a, b)) = b - a + 1
         /\ \A i \in 1..(b - a + 1) : SubSeq(words, a, b)[i] = words[a + i - 1]
         /\ XA!Texts(SubSeq(words, a, b)) = SubSeq(XA!Texts(words), a, b)
<1> DEFINE part == SubSeq(words, a, b)
           l == XA!Texts(part)
           t == XA!Texts(words)
           r == SubSeq(t, a, b)
<1>0. Len(words) \in Nat
  OBVIOUS
<1>1. /\ part \in Seq(WordType) /\ Len(part) = b - a + 1
      /\ \A i \in 1..(b - a + 1) : part[i] = words[a + i - 1]
  BY <1>0
<1>2. t \in Seq(Int) /\ Len(t) = Len(words) /\ \A i \in 1..Len(words) : t[i] = words[i].word
  BY TextsOf
<1>3. r \in Seq(Int) /\ Len(r) = b - a + 1 /\ \A i \in 1..(b - a + 1) : r[i] = t[a + i - 1]
  <2> HIDE DEF t
  <2> QED BY <1>0, <1>2
<1>4. l \in Seq(Int) /\ Len(l) = b - a + 1 /\ \A i \in 1..(b - a + 1) : l[i] = part[i].word
  <2> HIDE DEF part
  <2> QED BY <1>1, TextsOf
<1>5. \A i \in 1..(b - a + 1) : l[i] = r[i]
  <2>1. \A i \in 1..(b - a + 1) : a + i - 1 \in 1..Len(words)
    BY <1>0
  <2> HIDE DEF part, l, t, r
  <2> QED BY <1>1, <1>2, <1>3, <1>4, <2>1
<1>6. l = r
  <2> HIDE DEF part, l, t, r
  <2> QED BY <1>3, <1>4, <1>5
<1> QED BY <1>1, <1>6

LEMMA SinceTells ==
  ASSUME NEW settled \in Seq(Int), NEW text \in Seq(Int), text # <<>>
  PROVE  XA!Since(settled, text) \in Seq(Int) /\ XA!Since(settled, text) # <<>>
<1> DEFINE k == Len(settled)
           r == SubSeq(text, k + 1, Len(text))
<1>1. k \in Nat /\ Len(text) \in Nat
  OBVIOUS
<1>2. ASSUME k < Len(text) PROVE r \in Seq(Int) /\ r # <<>>
  <2>1. r \in Seq(Int) /\ Len(r) = Len(text) - k
    <3> HIDE DEF k
    <3> QED BY <1>1, <1>2
  <2> HIDE DEF r, k
  <2> QED BY <1>1, <1>2, <2>1
<1> QED BY <1>1, <1>2 DEF XA!Since

XaiTurn(c, s) ==
  /\ s \in [whole : BOOLEAN, words : Seq(WordType), from : Nat \ {0}, opened : Nat, last : BK!Text]
  /\ c \in [text : BK!Text, until : Nat, open : BOOLEAN]
  /\ \A i \in 1..Len(s.words) : s.words[i].end = i
  /\ s.from <= Len(s.words) + 1
  /\ s.opened = 0 <=> s.from = Len(s.words) + 1
  /\ s.opened \in {0, 2 * s.from, 2 * s.from + 1}
  /\ (c.open <=> s.opened # 0) /\ c.until = s.from - 1
  /\ c.text = IF s.whole THEN SubSeq(XA!Texts(s.words), 1, s.from - 1) ELSE s.last

XaiBooks(b, told, s) ==
  /\ BK!Good(b) /\ BK!Said(b) = told
  /\ s.opened = 0 => BK!ToSet(b.open) = {}
  /\ s.opened # 0 => \E text \in BK!Text : BK!ToSet(b.open) = {BK!Lone(s.opened, text)}
  /\ \A x \in told : \E f \in Nat : x.handle = <<0, f>> /\ f < 2 * s.from

XaiKnows ==
  /\ BK!Good(book)
  /\ ended = "no" => XaiTurn(conn, svc) /\ XaiBooks(book, said, svc)
  /\ ended # "no" => AllSettled

LEMMA XaiHears ==
  ASSUME NEW t, XA!Hears(t), XaiTurn(t.conn, svc'),
         NEW b, b = BK!ApplyAll(book, t.signals), XaiBooks(b, said', svc')
  PROVE  XaiKnows'
<1>1. ended' = "no" /\ conn' = t.conn /\ book' = b
  BY XaiSignals DEF XA!Hears
<1> QED BY <1>1 DEF XaiKnows, XaiBooks

(* What the service has of the turn it hears, in a message. *)
LEMMA XaiMessage ==
  ASSUME NEW words \in Seq(WordType), svc.from \in Nat \ {0}, svc.from <= Len(words), NEW start, NEW last
  PROVE  LET m == XA!Message(words, start, last)
         IN /\ m.words \in Seq(WordType) /\ m.words # <<>> /\ m.start = start /\ m.last = last
            /\ svc.whole => m.words = words
            /\ ~svc.whole => m.words = SubSeq(words, svc.from, Len(words))
<1> DEFINE part == SubSeq(words, svc.from, Len(words))
<1>1. Len(words) \in Nat /\ words # <<>>
  OBVIOUS
<1>2. part \in Seq(WordType) /\ Len(part) = Len(words) - svc.from + 1
  BY <1>1
<1>3. part # <<>>
  <2> HIDE DEF part
  <2> QED BY <1>1, <1>2
<1> QED BY <1>1, <1>2, <1>3 DEF XA!Message

(* What is settled is stripped from a text over the whole stream. *)
LEMMA SinceSettled ==
  ASSUME NEW text \in Seq(Int), NEW k \in Nat, k < Len(text)
  PROVE  XA!Since(SubSeq(text, 1, k), text) = SubSeq(text, k + 1, Len(text))
<1> DEFINE s == SubSeq(text, 1, k)
<1>1. Len(text) \in Nat
  OBVIOUS
<1>2. s \in Seq(Int) /\ Len(s) = k /\ \A i \in 1..k : s[i] = text[i]
  BY <1>1
<1>3. CASE k = 0
  <2>1. s = <<>>
    <3> HIDE DEF s
    <3> QED BY <1>2, <1>3
  <2>2. SubSeq(text, 1, Len(text)) = text
    OBVIOUS
  <2> HIDE DEF s
  <2> QED BY <1>3, <2>1, <2>2 DEF XA!Since, s
<1>4. CASE k # 0
  <2>1. SubSeq(s, 1, k) = s
    <3> HIDE DEF s
    <3> QED BY <1>2
  <2> DEFINE rest == SubSeq(text, k + 1, Len(text))
  <2>2. XA!Since(s, text) = rest
    <3>1. s # <<>> /\ Len(s) = k /\ ~(Len(text) <= Len(s))
      <4> HIDE DEF s
      <4> QED BY <1>1, <1>2, <1>4
    <3>2. XA!IsPrefix(s, text)
      <4>1. SubSeq(text, 1, k) = s
        OBVIOUS
      <4> HIDE DEF s
      <4> QED BY <1>1, <1>2, <2>1, <4>1 DEF XA!IsPrefix
    <3> HIDE DEF s
    <3> QED BY <3>1, <3>2 DEF XA!Since
  <2> QED BY <2>2
<1> QED BY <1>3, <1>4

LEMMA XaiGrows == ASSUME XaiKnows, XA!Grows PROVE XaiKnows'
<1>1. PICK word \in XA!Vocabulary, shift \in {0, 1} :
        LET words == Append(svc.words, [word |-> word, end |-> Len(svc.words) + 1])
            start == 2 * svc.from + shift
        IN /\ svc' = [svc EXCEPT !.words = words, !.opened = IF @ = 0 THEN start ELSE @]
           /\ XA!Hears(XA!PartialSignals(conn, XA!Message(words, start, FALSE))) /\ said' = said
  BY DEF XA!Grows
<1> DEFINE new == [word |-> word, end |-> Len(svc.words) + 1]
           words == Append(svc.words, new)
           start == 2 * svc.from + shift
           at == IF svc.opened = 0 THEN start ELSE svc.opened
           m == XA!Message(words, start, FALSE)
           t == XA!PartialSignals(conn, m)
           text == XA!Since(conn.text, XA!Texts(m.words))
           b == BK!ApplyAll(book, t.signals)
<1>2. svc' = [svc EXCEPT !.words = words, !.opened = at] /\ XA!Hears(t) /\ said' = said /\ ended = "no"
  BY <1>1 DEF XA!Hears
<1>3. XaiTurn(conn, svc) /\ XaiBooks(book, said, svc)
  BY <1>2 DEF XaiKnows
<1>4. /\ svc.words \in Seq(WordType) /\ Len(svc.words) \in Nat /\ svc.from \in Nat \ {0}
      /\ svc.from <= Len(svc.words) + 1 /\ svc.opened \in Nat
      /\ start \in {2 * svc.from, 2 * svc.from + 1} /\ at \in {2 * svc.from, 2 * svc.from + 1}
      /\ at \in Nat /\ at \in Int /\ at # 0 /\ conn.text \in Seq(Int)
  BY <1>3 DEF XaiTurn, BK!Text
<1>5. /\ words \in Seq(WordType) /\ Len(words) = Len(svc.words) + 1
      /\ \A i \in 1..Len(svc.words) : words[i] = svc.words[i]
      /\ \A i \in 1..Len(words) : words[i].end = i
  <2>1. new \in WordType /\ new.end = Len(svc.words) + 1
    BY <1>4 DEF WordType, XA!Vocabulary
  <2> HIDE DEF new
  <2>2. /\ words \in Seq(WordType) /\ Len(words) = Len(svc.words) + 1
        /\ \A i \in 1..Len(svc.words) : words[i] = svc.words[i]
        /\ words[Len(svc.words) + 1] = new
    BY <1>4, <2>1, BK!Appended
  <2> HIDE DEF words
  <2>3. \A i \in 1..(Len(svc.words) + 1) : i \in 1..Len(svc.words) \/ i = Len(svc.words) + 1
    BY <1>4
  <2>4. \A i \in 1..Len(svc.words) : svc.words[i].end = i
    BY <1>3 DEF XaiTurn
  <2> QED BY <2>1, <2>2, <2>3, <2>4
<1>6. m.words \in Seq(WordType) /\ m.words # <<>> /\ m.start = start /\ ~m.last
  <2>1. svc.from <= Len(words)
    BY <1>4, <1>5
  <2> DEFINE last == FALSE
  <2>2. m = XA!Message(words, start, last) /\ ~last
    OBVIOUS
  <2> HIDE DEF words, m, start, last
  <2> QED BY <1>4, <1>5, <2>1, <2>2, XaiMessage
<1>7. text \in Seq(Int) /\ text # <<>> /\ text \in BK!Text
  <2> DEFINE x == XA!Texts(m.words)
  <2>1. x \in Seq(Int) /\ x # <<>>
    <3> HIDE DEF m
    <3> QED BY <1>6, TextsOf
  <2> DEFINE y == XA!Since(conn.text, x)
  <2>2. y \in Seq(Int) /\ y # <<>>
    <3> HIDE DEF x
    <3> QED BY <1>4, <2>1, SinceTells
  <2>3. text = y
    OBVIOUS
  <2> HIDE DEF x, y, text
  <2> QED BY <2>2, <2>3 DEF BK!Text
<1>8. /\ t.conn = [conn EXCEPT !.open = TRUE]
      /\ BK!LoneFor(book, at, t.signals, BK!Showing(text))
  <2> DEFINE partial == XA!Partial(XA!NoRef, text, FALSE)
             opening == XA!OpenTurn(conn, m.start)
  <2>1. t.conn = [conn EXCEPT !.open = TRUE] /\ t.signals = Append(opening, partial)
    <3> HIDE DEF m, partial, opening
    <3> QED BY <1>6, <1>7 DEF XA!PartialSignals, partial, opening
  <2>2. partial = BK!Showing(text)
    BY XaiSignals DEF BK!Showing, XA!NoRef
  <2>3. CASE svc.opened = 0
    <3>1. ~conn.open /\ BK!ToSet(book.open) = {} /\ at = start
      BY <1>3, <2>3 DEF XaiTurn, XaiBooks
    <3>2. opening = <<BK!Started(0, at)>>
      <4> HIDE DEF m, at
      <4> QED BY <1>6, <3>1, XaiSignals DEF XA!OpenTurn, XA!NoRef
    <3> HIDE DEF opening, partial, t, at, text
    <3>3. t.signals = <<BK!Started(0, at), partial>>
      BY <2>1, <3>2, BK!Pair
    <3> QED BY <2>1, <2>2, <3>1, <3>3 DEF BK!LoneFor
  <2>4. CASE svc.opened # 0
    <3>1. conn.open /\ at = svc.opened /\ \E old \in BK!Text : BK!ToSet(book.open) = {BK!Lone(at, old)}
      BY <1>3, <2>4 DEF XaiTurn, XaiBooks
    <3>2. opening = <<>>
      BY <3>1 DEF XA!OpenTurn
    <3> HIDE DEF opening, partial, t, at, text
    <3>3. t.signals = <<partial>>
      BY <2>1, <3>2, BK!Pair
    <3> QED BY <2>1, <2>2, <3>1, <3>3 DEF BK!LoneFor
  <2> QED BY <2>3, <2>4
<1>9. /\ svc' \in [whole : BOOLEAN, words : Seq(WordType), from : Nat \ {0}, opened : Nat, last : BK!Text]
      /\ svc'.words = words /\ svc'.opened = at /\ svc'.from = svc.from /\ (svc'.whole <=> svc.whole)
      /\ svc'.last = svc.last
  <2> HIDE DEF words, at
  <2> QED BY <1>2, <1>3, <1>4, <1>5 DEF XaiTurn
<1>10. conn.text = IF svc.whole THEN SubSeq(XA!Texts(words), 1, svc.from - 1) ELSE svc.last
  <2> DEFINE k == svc.from - 1
             x == XA!Texts(svc.words)
             y == XA!Texts(words)
  <2>1. conn.text = IF svc.whole THEN SubSeq(x, 1, k) ELSE svc.last
    BY <1>3 DEF XaiTurn
  <2>2. x \in Seq(Int) /\ Len(x) = Len(svc.words) /\ y \in Seq(Int) /\ Len(y) = Len(words)
        /\ \A i \in 1..Len(svc.words) : x[i] = y[i]
    <3> HIDE DEF words
    <3>1. /\ x \in Seq(Int) /\ Len(x) = Len(svc.words) /\ \A i \in 1..Len(svc.words) : x[i] = svc.words[i].word
          /\ y \in Seq(Int) /\ Len(y) = Len(words) /\ \A i \in 1..Len(words) : y[i] = words[i].word
      BY <1>4, <1>5, TextsOf
    <3>2. \A i \in 1..Len(svc.words) : i \in 1..Len(words)
      BY <1>4, <1>5
    <3> HIDE DEF x, y
    <3> QED BY <1>5, <3>1, <3>2
  <2>3. k \in Nat /\ k <= Len(svc.words)
    BY <1>4
  <2>4. SubSeq(x, 1, k) = SubSeq(y, 1, k)
    <3> HIDE DEF words, x, y, k
    <3>1. /\ SubSeq(x, 1, k) \in Seq(Int) /\ Len(SubSeq(x, 1, k)) = k
          /\ SubSeq(y, 1, k) \in Seq(Int) /\ Len(SubSeq(y, 1, k)) = k
          /\ \A i \in 1..k : SubSeq(x, 1, k)[i] = x[i] /\ SubSeq(y, 1, k)[i] = y[i] /\ x[i] = y[i]
      <4>1. k <= Len(x) /\ k <= Len(y) /\ Len(x) \in Nat /\ Len(y) \in Nat
        BY <1>4, <1>5, <2>2, <2>3
      <4>2. SubSeq(x, 1, k) \in Seq(Int) /\ Len(SubSeq(x, 1, k)) = k /\ \A i \in 1..k : SubSeq(x, 1, k)[i] = x[i]
        BY <4>1, <2>2, <2>3
      <4>3. SubSeq(y, 1, k) \in Seq(Int) /\ Len(SubSeq(y, 1, k)) = k /\ \A i \in 1..k : SubSeq(y, 1, k)[i] = y[i]
        BY <4>1, <2>2, <2>3
      <4>4. \A i \in 1..k : x[i] = y[i]
        <5>1. \A i \in 1..k : i \in 1..Len(svc.words)
          BY <1>4, <2>3
        <5> QED BY <5>1, <2>2
      <4> QED BY <4>2, <4>3, <4>4
    <3> DEFINE u == SubSeq(x, 1, k)
               v == SubSeq(y, 1, k)
    <3>2. u \in Seq(Int) /\ v \in Seq(Int) /\ Len(u) = Len(v) /\ \A i \in 1..Len(u) : u[i] = v[i]
      BY <3>1
    <3> HIDE DEF u, v
    <3>3. u = v
      BY <3>2
    <3> QED BY <3>3 DEF u, v
  <2> QED BY <2>1, <2>4
<1>11. XaiTurn(t.conn, svc')
  <2>1. /\ t.conn \in [text : BK!Text, until : Nat, open : BOOLEAN]
        /\ t.conn.open /\ t.conn.until = svc.from - 1 /\ t.conn.text = conn.text
    <3>1. TRUE \in BOOLEAN
      OBVIOUS
    <3> HIDE DEF t
    <3> QED BY <1>3, <1>8, <3>1 DEF XaiTurn
  <2>2. svc.from <= Len(words) + 1 /\ svc.from # Len(words) + 1
    <3> HIDE DEF words
    <3> QED BY <1>4, <1>5
  <2> HIDE DEF t, words, at
  <2> QED BY <1>4, <1>5, <1>9, <1>10, <2>1, <2>2 DEF XaiTurn
<1>12. BK!TellsLone(book, b, at, text)
  <2>1. BK!Good(book) /\ BK!Untold(book, at)
    <3>1. \A x \in said : x.handle # <<0, at>>
      BY <1>3, <1>4 DEF XaiBooks
    <3> QED BY <1>3, <3>1 DEF XaiBooks, BK!Untold
  <2> HIDE DEF t, at, text
  <2> QED BY <1>4, <1>7, <1>8, <2>1, BK!LoneTells
<1>13. XaiBooks(b, said', svc')
  <2> HIDE DEF b, at, text, words
  <2> QED BY <1>2, <1>3, <1>4, <1>7, <1>9, <1>12 DEF XaiBooks, BK!TellsLone
<1> HIDE DEF t, b
<1> QED BY <1>2, <1>11, <1>13, XaiHears DEF b

(* What a closing document settles: the turn's own text and words, whichever
   way the service counts them. *)
LEMMA XaiTells ==
  ASSUME XaiTurn(conn, svc), XA!Turn # <<>>, NEW words, words = svc.words,
         svc.whole \/ ~XA!IsStrictPrefix(svc.last, XA!Texts(XA!Turn)) \/ svc.last = <<>>,
         NEW got, svc.whole => got = words,
         ~svc.whole => got = SubSeq(words, svc.from, Len(words))
  PROVE  /\ svc.from <= Len(words) /\ XA!Turn \in Seq(WordType)
         /\ XA!Texts(XA!Turn) \in Seq(Int) /\ XA!Texts(XA!Turn) # <<>>
         /\ XA!TurnWords(conn, got) = XA!Turn
         /\ XA!Since(conn.text, XA!Texts(got)) = XA!Texts(XA!Turn)
         /\ XA!Turn[Len(XA!Turn)].end = Len(words)
         /\ XA!Texts(got) \in Seq(Int)
         /\ XA!Texts(got) = IF svc.whole THEN SubSeq(XA!Texts(words), 1, Len(words)) ELSE XA!Texts(XA!Turn)
<1> DEFINE turn == XA!Turn
           from == svc.from
           l == Len(words)
           x == XA!Texts(words)
           y == XA!Texts(turn)
<1>1. /\ words \in Seq(WordType) /\ l \in Nat /\ from \in Nat \ {0} /\ from <= l + 1 /\ conn.until = from - 1
      /\ \A i \in 1..l : words[i].end = i
      /\ conn.text = IF svc.whole THEN SubSeq(x, 1, from - 1) ELSE svc.last
      /\ svc.last \in Seq(Int)
  BY DEF XaiTurn, BK!Text
<1>2. turn = SubSeq(words, from, l)
  BY DEF XA!Turn
<1>3. /\ turn \in Seq(WordType) /\ Len(turn) = l - from + 1
      /\ \A i \in 1..(l - from + 1) : turn[i] = words[from + i - 1]
      /\ y = SubSeq(x, from, l)
  <2> DEFINE p == SubSeq(words, from, l)
  <2>1. /\ p \in Seq(WordType) /\ Len(p) = l - from + 1
        /\ \A i \in 1..(l - from + 1) : p[i] = words[from + i - 1]
        /\ XA!Texts(p) = SubSeq(XA!Texts(words), from, l)
    <3>1. from \in Nat /\ l \in Nat /\ 1 <= from /\ from <= l + 1 /\ l <= Len(words) /\ words \in Seq(WordType)
      BY <1>1
    <3> HIDE DEF from, l
    <3> QED BY <3>1, TextsOfPart
  <2>2. turn = p
    BY <1>2
  <2> HIDE DEF turn, p
  <2> QED BY <2>1, <2>2
<1>4. turn # <<>>
  OBVIOUS
<1>5. from <= l
  <2> HIDE DEF turn, from, l, x, y
  <2> QED BY <1>1, <1>3, <1>4
<1>6. /\ x \in Seq(Int) /\ Len(x) = l /\ y \in Seq(Int) /\ Len(y) = Len(turn)
  <2> HIDE DEF turn, from
  <2> QED BY <1>1, <1>3, TextsOf
<1>7. y # <<>>
  <2>1. Len(y) = l - from + 1 /\ l - from + 1 # 0
    <3> HIDE DEF turn, from, l, x, y
    <3> QED BY <1>1, <1>3, <1>5, <1>6
  <2>2. Len(<<>>) = 0
    OBVIOUS
  <2> HIDE DEF turn, from, l, x, y
  <2> QED BY <2>1, <2>2
<1>8. turn[Len(turn)].end = l
  <2> HIDE DEF turn, from, l, x, y
  <2>1. Len(turn) \in 1..(l - from + 1) /\ from + Len(turn) - 1 = l /\ l \in 1..l
    BY <1>1, <1>3, <1>5
  <2> QED BY <1>1, <1>3, <2>1
<1>9. CASE svc.whole
  <2>1. got = words
    BY <1>9
  <2>2. XA!TurnWords(conn, got) = turn
    <3> DEFINE positions == {i \in DOMAIN words : words[i].end > conn.until}
    <3>1. \A i \in 1..l : i \in positions <=> from <= i /\ i <= l
      <4>1. DOMAIN words = 1..l
        BY <1>1
      <4>2. \A i \in 1..l : words[i].end > conn.until <=> i > from - 1
        BY <1>1
      <4> HIDE DEF l, from
      <4> QED BY <1>1, <4>1, <4>2
    <3>2. XA!TurnWords(conn, got) = BK!Chosen(words, positions)
      BY <2>1, XaiSignals DEF XA!TurnWords
    <3> HIDE DEF positions, turn, from, x, y
    <3>3. BK!Chosen(words, positions) = SubSeq(words, from, Len(words))
      <4>1. from \in Nat /\ l \in Nat /\ 1 <= from /\ from <= l + 1 /\ l <= Len(words) /\ l = Len(words)
        BY <1>1 DEF from
      <4>2. words \in Seq(WordType) /\ \A i \in 1..Len(words) : i \in positions <=> from <= i /\ i <= l
        BY <1>1, <3>1
      <4> HIDE DEF l
      <4>3. BK!Chosen(words, positions) = SubSeq(words, from, l)
        BY <4>1, <4>2, BK!ChosenStretch
      <4> QED BY <4>1, <4>3
    <3> QED BY <1>2, <3>2, <3>3
  <2>3. XA!Since(conn.text, XA!Texts(got)) = y
    <3> DEFINE k == from - 1
    <3>1. k \in Nat /\ k < Len(x) /\ k + 1 = from
      <4> HIDE DEF from, l, x
      <4> QED BY <1>1, <1>5, <1>6
    <3>2. conn.text = SubSeq(x, 1, k) /\ XA!Texts(got) = x
      BY <1>1, <1>9, <2>1
    <3> HIDE DEF k, x, y, from, l, turn
    <3>3. XA!Since(SubSeq(x, 1, k), x) = SubSeq(x, k + 1, Len(x))
      BY <1>6, <3>1, SinceSettled
    <3> QED BY <1>3, <1>6, <3>1, <3>2, <3>3
  <2>4. SubSeq(x, 1, l) = x
    <3> HIDE DEF x, l
    <3> QED BY <1>6
  <2> QED BY <1>3, <1>5, <1>6, <1>7, <1>8, <1>9, <2>1, <2>2, <2>3, <2>4
<1>10. CASE ~svc.whole
  <2>1. got = turn
    BY <1>2, <1>10
  <2>2. XA!TurnWords(conn, got) = turn
    <3> DEFINE positions == {i \in DOMAIN turn : turn[i].end > conn.until}
               n == Len(turn)
    <3>1. n \in Nat /\ n = l - from + 1 /\ DOMAIN turn = 1..n
      <4> HIDE DEF turn, l, from
      <4> QED BY <1>1, <1>3, <1>5
    <3>2. \A i \in 1..n : from + i - 1 \in 1..l /\ turn[i] = words[from + i - 1]
      <4> HIDE DEF turn, l, from, n
      <4> QED BY <1>1, <1>3, <3>1
    <3>3. \A i \in 1..n : turn[i].end > conn.until
      <4>1. \A i \in 1..n : turn[i].end = from + i - 1
        <5> HIDE DEF turn, l, from, n
        <5> QED BY <1>1, <3>2
      <4> HIDE DEF turn, l, from, n
      <4> QED BY <1>1, <3>1, <4>1
    <3>4. \A i \in 1..n : i \in positions <=> 1 <= i /\ i <= n
      BY <3>1, <3>3
    <3>5. XA!TurnWords(conn, got) = BK!Chosen(turn, positions)
      BY <2>1, XaiSignals DEF XA!TurnWords
    <3>6. BK!Chosen(turn, positions) = SubSeq(turn, 1, n)
      <4>1. 1 \in Nat /\ n \in Nat /\ 1 <= n + 1 /\ n <= Len(turn) /\ turn \in Seq(WordType)
        BY <1>3, <3>1
      <4>2. \A i \in 1..Len(turn) : i \in positions <=> 1 <= i /\ i <= n
        BY <3>1, <3>4
      <4> DEFINE one == 1
      <4>3. one \in Nat /\ 1 <= one /\ one <= n + 1 /\ \A i \in 1..Len(turn) : i \in positions <=> one <= i /\ i <= n
        BY <4>1, <4>2
      <4> HIDE DEF positions, turn, n, one
      <4>4. BK!Chosen(turn, positions) = SubSeq(turn, one, n)
        BY <4>1, <4>3, BK!ChosenStretch
      <4> QED BY <4>4 DEF one
    <3>7. SubSeq(turn, 1, n) = turn
      <4> HIDE DEF turn
      <4> QED BY <1>3
    <3> QED BY <3>5, <3>6, <3>7
  <2>3. XA!Since(conn.text, XA!Texts(got)) = y
    <3> DEFINE s == svc.last
    <3>1. conn.text = s /\ XA!Texts(got) = y /\ (~XA!IsStrictPrefix(s, y) \/ s = <<>>) /\ s \in Seq(Int)
      BY <1>1, <1>10, <2>1
    <3> HIDE DEF y, s
    <3>2. s = <<>> \/ Len(y) <= Len(s) \/ ~XA!IsPrefix(s, y)
      <4>1. s = y => Len(y) <= Len(s)
        BY <1>6
      <4> QED BY <3>1, <4>1 DEF XA!IsStrictPrefix
    <3> QED BY <3>1, <3>2 DEF XA!Since
  <2>4. XA!Texts(got) = y
    BY <2>1
  <2> QED BY <1>3, <1>5, <1>6, <1>7, <1>8, <1>10, <2>2, <2>3, <2>4
<1> QED BY <1>9, <1>10

LEMMA XaiCloses == ASSUME XaiKnows, XA!Closes PROVE XaiKnows'
<1>1. PICK shift \in {0, 1} :
        XA!Hears(XA!PartialSignals(conn, XA!Message(svc.words, 2 * svc.from + shift, TRUE)))
  BY DEF XA!Closes
<1> DEFINE words == svc.words
           start == 2 * svc.from + shift
           last == TRUE
           m == XA!Message(words, start, last)
           t == XA!PartialSignals(conn, m)
           at == svc.opened
           turn == XA!Turn
           text == XA!Texts(turn)
           b == BK!ApplyAll(book, t.signals)
<1>2. /\ XA!Hears(t) /\ ended = "no" /\ turn # <<>> /\ last
      /\ svc.whole \/ ~XA!IsStrictPrefix(svc.last, text) \/ svc.last = <<>>
      /\ said' = said \cup {BK!Telling(<<0, at>>, text, turn)}
      /\ svc' = [svc EXCEPT !.from = Len(words) + 1, !.opened = 0, !.last = text]
  BY <1>1 DEF XA!Hears, XA!Closes, XA!Handle, XA!NoRef, BK!Telling
<1>3. XaiTurn(conn, svc) /\ XaiBooks(book, said, svc)
  BY <1>2 DEF XaiKnows
<1>4. /\ words \in Seq(WordType) /\ Len(words) \in Nat /\ svc.from \in Nat \ {0} /\ at \in Nat
      /\ svc.from <= Len(words) + 1
      /\ at = 0 <=> svc.from = Len(words) + 1
      /\ at \in {0, 2 * svc.from, 2 * svc.from + 1} /\ conn.open <=> at # 0
  BY <1>3 DEF XaiTurn
<1>5. /\ svc.from <= Len(words) /\ turn \in Seq(WordType) /\ text \in Seq(Int) /\ text # <<>>
      /\ XA!TurnWords(conn, m.words) = turn /\ XA!Since(conn.text, XA!Texts(m.words)) = text
      /\ turn[Len(turn)].end = Len(words) /\ XA!Texts(m.words) \in Seq(Int)
      /\ XA!Texts(m.words) = IF svc.whole THEN SubSeq(XA!Texts(words), 1, Len(words)) ELSE text
  <2>1. m.words = IF svc.whole THEN words ELSE SubSeq(words, svc.from, Len(words))
    BY DEF XA!Message
  <2> DEFINE got == m.words
  <2>2. (svc.whole => got = words) /\ (~svc.whole => got = SubSeq(words, svc.from, Len(words)))
    BY <2>1
  <2> HIDE DEF got
  <2>3. words = svc.words
    OBVIOUS
  <2>4. XA!Turn # <<>> /\ (svc.whole \/ ~XA!IsStrictPrefix(svc.last, XA!Texts(XA!Turn)) \/ svc.last = <<>>)
    BY <1>2
  <2> HIDE DEF words
  <2>5. /\ svc.from <= Len(words) /\ XA!Turn \in Seq(WordType)
        /\ XA!Texts(XA!Turn) \in Seq(Int) /\ XA!Texts(XA!Turn) # <<>>
        /\ XA!TurnWords(conn, got) = XA!Turn
        /\ XA!Since(conn.text, XA!Texts(got)) = XA!Texts(XA!Turn)
        /\ XA!Turn[Len(XA!Turn)].end = Len(words)
        /\ XA!Texts(got) \in Seq(Int)
        /\ XA!Texts(got) = IF svc.whole THEN SubSeq(XA!Texts(words), 1, Len(words)) ELSE XA!Texts(XA!Turn)
    BY <1>3, <2>2, <2>3, <2>4, XaiTells
  <2> HIDE DEF m
  <2> QED BY <2>5 DEF got
<1>6. m.last /\ at # 0 /\ conn.open /\ svc.from # Len(words) + 1
  BY <1>2, <1>4, <1>5 DEF XA!Message
<1>7. /\ t.conn = [text |-> XA!Texts(m.words), open |-> FALSE, until |-> Len(words)]
      /\ t.signals = <<BK!Final(0, text, turn)>>
  <2> DEFINE final == XA!Final(XA!NoRef, text, turn)
  <2>1. XA!OpenTurn(conn, m.start) = <<>>
    BY <1>6 DEF XA!OpenTurn
  <2>2. /\ t.conn = [text |-> XA!Texts(m.words), open |-> FALSE, until |-> Len(words)]
        /\ t.signals = Append(<<>>, final)
    <3> HIDE DEF m, turn, words
    <3> QED BY <1>2, <1>5, <1>6, <2>1 DEF XA!PartialSignals
  <2>3. final = BK!Final(0, text, turn)
    BY XaiSignals DEF XA!NoRef
  <2> HIDE DEF t, text, turn, final
  <2> QED BY <2>2, <2>3, BK!Pair
<1>8. XaiTurn(t.conn, svc')
  <2> DEFINE tc == t.conn
  <2>1. tc \in [text : BK!Text, until : Nat, open : BOOLEAN]
        /\ ~tc.open /\ tc.until = Len(words) /\ tc.text = XA!Texts(m.words)
    <3>1. FALSE \in BOOLEAN
      OBVIOUS
    <3> DEFINE x == XA!Texts(m.words)
    <3>2. tc = [text |-> x, open |-> FALSE, until |-> Len(words)] /\ x \in Seq(Int)
      BY <1>5, <1>7
    <3> HIDE DEF tc, x
    <3> QED BY <1>4, <3>1, <3>2 DEF x, BK!Text
  <2>2. /\ svc' \in [whole : BOOLEAN, words : Seq(WordType), from : Nat \ {0}, opened : Nat, last : BK!Text]
        /\ svc'.words = words /\ svc'.opened = 0 /\ svc'.from = Len(words) + 1 /\ (svc'.whole <=> svc.whole)
        /\ svc'.last = text
    <3>1. text \in BK!Text
      BY <1>5 DEF BK!Text
    <3>2. svc \in [whole : BOOLEAN, words : Seq(WordType), from : Nat \ {0}, opened : Nat, last : BK!Text]
      BY <1>3 DEF XaiTurn
    <3> DEFINE n == Len(words) + 1
    <3>3. n \in Nat \ {0} /\ svc' = [svc EXCEPT !.from = n, !.opened = 0, !.last = text]
      BY <1>2, <1>4
    <3> HIDE DEF text, n
    <3>4. /\ svc' \in [whole : BOOLEAN, words : Seq(WordType), from : Nat \ {0}, opened : Nat, last : BK!Text]
          /\ svc'.words = svc.words /\ svc'.opened = 0 /\ svc'.from = n /\ (svc'.whole <=> svc.whole)
          /\ svc'.last = text
      BY <3>1, <3>2, <3>3
    <3> QED BY <3>4 DEF n
  <2>3. \A i \in 1..Len(words) : words[i].end = i
    BY <1>3 DEF XaiTurn
  <2>4. tc.text = IF svc'.whole THEN SubSeq(XA!Texts(svc'.words), 1, svc'.from - 1) ELSE svc'.last
    <3>1. svc'.from - 1 = Len(words)
      BY <1>4, <2>2
    <3> HIDE DEF tc, words, text, m
    <3> QED BY <1>5, <2>1, <2>2, <3>1
  <2> HIDE DEF tc, words, text, m
  <2>5. XaiTurn(tc, svc')
    <3>1. svc'.from <= Len(svc'.words) + 1 /\ svc'.from = Len(svc'.words) + 1 /\ tc.until = svc'.from - 1
      BY <1>4, <2>1, <2>2
    <3> QED BY <2>1, <2>2, <2>3, <2>4, <3>1 DEF XaiTurn
  <2> QED BY <2>5 DEF tc
<1>9. BK!ClosesLone(book, b, at, text, turn)
  <2>1. BK!Good(book) /\ BK!Untold(book, at)
    <3>1. \A x \in said : x.handle # <<0, at>>
      <4>1. \A x \in said : \E f \in Nat : x.handle = <<0, f>> /\ f < 2 * svc.from
        BY <1>3 DEF XaiBooks
      <4> HIDE DEF at
      <4> QED BY <1>4, <1>6, <4>1
    <3> QED BY <1>3, <3>1 DEF XaiBooks, BK!Untold
  <2>2. BK!LoneFor(book, at, t.signals, BK!Final(0, text, turn))
    <3>1. \E old \in BK!Text : BK!ToSet(book.open) = {BK!Lone(at, old)}
      BY <1>3, <1>6 DEF XaiBooks
    <3> HIDE DEF t, at, text, turn
    <3> QED BY <1>7, <3>1 DEF BK!LoneFor
  <2>3. turn \in BK!Words /\ text \in BK!Text
    <3> HIDE DEF turn, text
    <3> QED BY <1>5 DEF BK!Words, BK!Text, WordType
  <2> HIDE DEF t, at, text, turn
  <2> QED BY <1>4, <1>5, <2>1, <2>2, <2>3, BK!LoneCloses
<1>10. XaiBooks(b, said', svc')
  <2>1. BK!Good(b) /\ BK!Said(b) = said' /\ BK!ToSet(b.open) = {}
    <3> HIDE DEF b, at, text, turn
    <3> QED BY <1>2, <1>3, <1>9 DEF XaiBooks, BK!ClosesLone
  <2>2. svc'.opened = 0 /\ svc'.from = Len(words) + 1
    <3> HIDE DEF text, words
    <3> QED BY <1>2, <1>3 DEF XaiTurn
  <2>3. \A x \in said' : \E f \in Nat : x.handle = <<0, f>> /\ f < 2 * svc'.from
    <3>1. \A x \in said : \E f \in Nat : x.handle = <<0, f>> /\ f < 2 * svc.from
      BY <1>3 DEF XaiBooks
    <3>2. \A f \in Nat : f < 2 * svc.from => f < 2 * svc'.from
      <4> HIDE DEF words
      <4> QED BY <1>4, <1>5, <2>2
    <3>3. at < 2 * svc'.from
      <4> HIDE DEF words
      <4> QED BY <1>4, <1>5, <2>2
    <3>4. BK!Telling(<<0, at>>, text, turn).handle = <<0, at>>
      BY DEF BK!Telling
    <3> DEFINE new == BK!Telling(<<0, at>>, text, turn)
    <3>5. said' = said \cup {new} /\ new.handle = <<0, at>>
      BY <1>2, <3>4
    <3> HIDE DEF at, text, turn, new
    <3> QED BY <1>4, <3>1, <3>2, <3>3, <3>5
  <2> HIDE DEF b
  <2> QED BY <2>1, <2>2, <2>3 DEF XaiBooks
<1> HIDE DEF t, b
<1> QED BY <1>2, <1>8, <1>10, XaiHears DEF b

LEMMA XaiKeepsStep == ASSUME XaiKnows, XA!Next PROVE XaiKnows'
<1>1. CASE XA!Grows
  BY <1>1, XaiGrows
<1>2. CASE XA!Closes
  BY <1>2, XaiCloses
<1>3. CASE XA!Hangup
  <2>1. ended' # "no" /\ book' = BK!SettledBook(book)
    BY <1>3, XaiSignals DEF XA!Hangup
  <2> QED BY <2>1, BK!SettlesAll DEF XaiKnows, AllSettled
<1> QED BY <1>1, <1>2, <1>3 DEF XA!Next

LEMMA XaiKnowsAtFirst == ASSUME XA!Init PROVE XaiKnows
<1>1. /\ conn = [text |-> <<>>, until |-> 0, open |-> FALSE]
      /\ svc \in [whole : BOOLEAN, words : {<<>>}, from : {1}, opened : {0}, last : {<<>>}]
      /\ said = {} /\ book = BK!EmptyBook /\ ended = "no"
  BY DEF XA!Init, XA!EmptyBook, BK!EmptyBook
<1>2. svc.words = <<>> /\ svc.from = 1 /\ svc.opened = 0 /\ svc.last = <<>>
  BY <1>1
<1>3. SubSeq(XA!Texts(<<>>), 1, 0) = <<>>
  <2>1. <<>> \in Seq(WordType) /\ Len(<<>>) = 0
    OBVIOUS
  <2>2. XA!Texts(<<>>) \in Seq(Int)
    BY <2>1, TextsOf
  <2> DEFINE x == XA!Texts(<<>>)
  <2> HIDE DEF x
  <2>3. SubSeq(x, 1, 0) \in Seq(Int) /\ Len(SubSeq(x, 1, 0)) = 0
    BY <2>2 DEF x
  <2> DEFINE y == SubSeq(x, 1, 0)
  <2>4. y \in Seq(Int) /\ Len(y) = 0
    BY <2>3
  <2> HIDE DEF y
  <2>5. y = <<>>
    BY <2>4
  <2> QED BY <2>5 DEF x, y
<1>4. XaiTurn(conn, svc)
  <2>1. svc \in [whole : BOOLEAN, words : Seq(WordType), from : Nat \ {0}, opened : Nat, last : BK!Text]
        /\ conn \in [text : BK!Text, until : Nat, open : BOOLEAN]
    <3> DEFINE S == Seq(WordType)
               T == BK!Text
    <3>1. <<>> \in S /\ <<>> \in T /\ FALSE \in BOOLEAN
      BY DEF BK!Text
    <3> HIDE DEF S, T
    <3>2. /\ svc \in [whole : BOOLEAN, words : S, from : Nat \ {0}, opened : Nat, last : T]
          /\ conn \in [text : T, until : Nat, open : BOOLEAN]
      BY <1>1, <3>1
    <3> QED BY <3>2 DEF S, T
  <2>2. conn.text = <<>> /\ conn.until = 0 /\ ~conn.open /\ Len(<<>>) = 0 /\ 1..0 = {}
    BY <1>1
  <2> QED BY <1>2, <1>3, <2>1, <2>2 DEF XaiTurn
<1> QED BY <1>1, <1>2, <1>4, EmptyBooks DEF XaiKnows, XaiBooks, BK!Named

-----------------------------------------------------------------------------
(* AssemblyAI's job: until its id is known there is none to leave, and when the
   call is over it is answered or being deleted. *)
Outcomes == {"none", "answered", "no event", "raised", "cancelled"}

Jobs ==
  [at : {"none", "queued", "completed", "error"}, known : BOOLEAN, waited : Nat, delay : Nat,
   clean : {"no", "deleting", "deleted", "failed"}]

Batches ==
  [vendor : BC!BatchVendors, pc : {"idle", "upload", "create", "poll", "model", "post"}, posts : Int,
   job : Jobs, outcome : Outcomes, takesVerbose : BOOLEAN, verbose : {"unknown", "yes", "no"},
   refused : Int, model : {"unset", "configured", "resolved"}, listings : Int]

JobKept(b) ==
  /\ b.pc \in {"idle", "upload", "create", "poll"}
  /\ b.job.waited <= JobTimeout
  /\ b.pc \in {"upload", "create"} => ~b.job.known
  /\ b.pc = "idle" /\ b.job.known => b.outcome = "answered" \/ b.job.clean # "no"

BatchKnows == batch \in Batches /\ (batch.vendor = "assemblyai" => JobKept(batch))

LEMMA BatchKnowsAtFirst == ASSUME BC!BatchInit PROVE BatchKnows
<1>1. PICK v \in BC!BatchVendors, takesVerbose \in BOOLEAN, named \in BOOLEAN :
        batch = [vendor |-> v, pc |-> "idle", posts |-> 0, job |-> BC!NoJob, outcome |-> "none",
                 takesVerbose |-> takesVerbose, verbose |-> "unknown", refused |-> 0,
                 model |-> IF named THEN "configured" ELSE "unset", listings |-> 0]
  BY DEF BC!BatchInit
<1>2. BC!NoJob \in Jobs /\ BC!NoJob.waited = 0 /\ BC!NoJob.known = FALSE
  BY DEF BC!NoJob, Jobs
<1>4. batch \in Batches /\ batch.pc = "idle" /\ batch.job = BC!NoJob
  BY <1>1, <1>2 DEF Batches, Outcomes
<1> QED BY <1>2, <1>4, CeilingAssumption DEF BatchKnows, JobKept

LEMMA BatchKeepsStep == ASSUME BatchKnows, BC!BatchNext PROVE BatchKnows'
<1>1. batch \in Batches /\ batch.job \in Jobs /\ (batch.vendor = "assemblyai" => JobKept(batch))
  BY DEF BatchKnows, Batches
<1> DEFINE posted == batch.posts + 1
           refused == batch.refused + 1
           listed == batch.listings + 1
<1>0. posted \in Int /\ refused \in Int /\ listed \in Int
  BY <1>1 DEF Batches
<1>2. CASE BC!BatchTranscribe
  <2>1. BC!NoJob \in Jobs /\ BC!NoJob.waited = 0 /\ BC!NoJob.known = FALSE
    BY DEF BC!NoJob, Jobs
  <2> DEFINE pc == CASE batch.vendor = "assemblyai" -> "upload"
                     [] batch.vendor = "openai_compat" -> "model"
                     [] OTHER -> "post"
             none == BC!NoJob
  <2>2. pc \in {"upload", "model", "post"} /\ (batch.vendor = "assemblyai" => pc = "upload")
    OBVIOUS
  <2>3. batch' = [batch EXCEPT !.posts = posted, !.outcome = "none", !.job = none, !.pc = pc]
    BY <1>1, <1>2 DEF BC!BatchTranscribe, Batches
  <2>4. none \in Jobs /\ none.waited = 0 /\ none.known = FALSE
    BY <2>1
  <2> HIDE DEF pc, none, posted
  <2>5. batch' \in Batches /\ batch'.vendor = batch.vendor /\ batch'.job = none /\ batch'.pc = pc
    BY <1>0, <1>1, <2>2, <2>3, <2>4 DEF Outcomes, Batches
  <2> QED BY <2>2, <2>4, <2>5, CeilingAssumption DEF BatchKnows, JobKept
<1>3. CASE BC!Upload
  BY <1>1, <1>3 DEF BC!Upload, BC!IsA, BC!Fails, Outcomes, BatchKnows, Batches, Outcomes, JobKept
<1>4. CASE BC!CreateJob
  <2>1. CASE batch' = [batch EXCEPT !.pc = "poll", !.job = [BC!NoJob EXCEPT !.at = "queued", !.known = TRUE]]
    <3> DEFINE job == [BC!NoJob EXCEPT !.at = "queued", !.known = TRUE]
    <3>1. job \in Jobs /\ job.waited = 0
      BY DEF BC!NoJob, Jobs
    <3> HIDE DEF job
    <3>2. batch' \in Batches /\ batch'.job = job /\ batch'.pc = "poll"
      BY <1>1, <2>1, <3>1 DEF Batches, job
    <3> QED BY <3>1, <3>2, CeilingAssumption DEF BatchKnows, JobKept
  <2>2. CASE \E how \in {"raised", "cancelled"}, at \in {"none", "queued"} :
               batch' = [BC!Fails(how) EXCEPT !.job.at = at]
    <3>1. PICK how \in {"raised", "cancelled"}, at \in {"none", "queued"} :
               batch' = [BC!Fails(how) EXCEPT !.job.at = at]
      BY <2>2
    <3>2. batch' \in Batches /\ batch'.pc = "idle" /\ batch'.job.known = batch.job.known
          /\ batch'.job.waited = batch.job.waited /\ batch'.vendor = batch.vendor
      BY <1>1, <3>1 DEF Batches, Jobs, Outcomes, BC!Fails
    <3> QED BY <1>1, <1>4, <3>2 DEF BatchKnows, JobKept, BC!CreateJob, BC!IsA
  <2> QED BY <1>4, <2>1, <2>2 DEF BC!CreateJob
<1>5. ASSUME NEW how \in Outcomes, batch' = BC!Abandons(how), batch.vendor = "assemblyai"
      PROVE  BatchKnows'
  <2>1. batch' \in Batches /\ batch'.pc = "idle" /\ batch'.job.clean = "deleting"
        /\ batch'.job.waited = batch.job.waited
    BY <1>1, <1>5 DEF Batches, Jobs, BC!Abandons
  <2> QED BY <1>1, <1>5, <2>1 DEF BatchKnows, JobKept
<1>6. CASE BC!Poll
  <2> DEFINE job == batch.job
             remaining == JobTimeout - job.waited
  <2>1. job.waited \in Nat /\ job.delay \in Nat /\ remaining \in Int /\ JobTimeout \in Nat
    BY <1>1, CeilingAssumption DEF Jobs
  <2>2. batch.vendor = "assemblyai" /\ batch.pc = "poll"
    BY <1>6 DEF BC!Poll, BC!IsA
  <2>3. CASE batch' = [batch EXCEPT !.pc = "idle", !.outcome = "answered"]
    BY <1>1, <2>3 DEF BatchKnows, Batches, Outcomes, JobKept
  <2>4. CASE remaining > 0 /\ batch' = [batch EXCEPT !.job.waited = @ + BC!Least(job.delay, remaining),
                                                     !.job.delay = BC!Least(2 * @, 4)]
    <3> DEFINE waited == job.waited + BC!Least(job.delay, remaining)
               delay == BC!Least(2 * job.delay, 4)
    <3>1. waited \in Nat /\ delay \in Nat /\ waited <= JobTimeout
      BY <2>1, <2>4 DEF BC!Least
    <3>2. batch' = [batch EXCEPT !.job = [job EXCEPT !.waited = waited, !.delay = delay]]
      BY <1>1, <2>4 DEF Batches, Jobs
    <3> HIDE DEF waited, delay
    <3>3. batch' \in Batches /\ batch'.pc = "poll" /\ batch'.job.waited = waited
      BY <1>1, <2>2, <3>1, <3>2 DEF Batches, Jobs
    <3> QED BY <3>1, <3>3 DEF BatchKnows, JobKept
  <2> QED BY <1>5, <1>6, <2>2, <2>3, <2>4 DEF BC!Poll, Outcomes
<1>7. CASE BC!VendorWorks
  <2>1. batch' \in Batches /\ batch'.pc = batch.pc /\ batch'.job.known = batch.job.known
        /\ batch'.job.waited = batch.job.waited /\ batch'.vendor = batch.vendor
        /\ batch'.outcome = batch.outcome /\ batch'.job.clean = batch.job.clean
    BY <1>1, <1>7 DEF BC!VendorWorks, Batches, Jobs
  <2> QED BY <1>1, <2>1 DEF BatchKnows, JobKept
<1>8. CASE BC!DeleteJob
  <2>1. batch' \in Batches /\ batch'.pc = batch.pc /\ batch'.job.known = batch.job.known
        /\ batch'.job.waited = batch.job.waited /\ batch'.vendor = batch.vendor
        /\ batch'.job.clean # "no"
    <3>1. CASE batch' = [batch EXCEPT !.job.clean = "deleted", !.job.at = "none"]
      <4> DEFINE job == [batch.job EXCEPT !.clean = "deleted", !.at = "none"]
      <4>1. job \in Jobs /\ job.known = batch.job.known /\ job.waited = batch.job.waited
            /\ job.clean # "no"
        BY <1>1 DEF Jobs
      <4>2. batch' = [batch EXCEPT !.job = job]
        BY <1>1, <3>1 DEF Batches, Jobs
      <4> HIDE DEF job
      <4> QED BY <1>1, <4>1, <4>2 DEF Batches
    <3>2. CASE batch' = [batch EXCEPT !.job.clean = "failed"]
      BY <1>1, <3>2 DEF Batches, Jobs
    <3> QED BY <1>8, <3>1, <3>2 DEF BC!DeleteJob
  <2> QED BY <1>1, <2>1 DEF BatchKnows, JobKept
<1>9. ASSUME batch' \in Batches, batch'.vendor = batch.vendor,
             batch.vendor # "assemblyai" \/ batch.pc \notin {"idle", "upload", "create", "poll"}
      PROVE  BatchKnows'
  BY <1>1, <1>9 DEF BatchKnows, JobKept
<1>10. CASE BC!RequestModel
  <2>1. batch' \in Batches /\ batch'.vendor = batch.vendor
    <3>1. CASE batch' = [batch EXCEPT !.pc = "post"]
      BY <1>1, <3>1 DEF Batches
    <3>2. CASE batch' = [batch EXCEPT !.model = "resolved", !.pc = "post", !.listings = @ + 1]
      <4>1. batch' = [batch EXCEPT !.model = "resolved", !.pc = "post", !.listings = listed]
        BY <1>1, <3>2 DEF Batches
      <4> HIDE DEF listed
      <4> QED BY <1>0, <1>1, <4>1 DEF Batches
    <3>3. CASE batch' = [BC!Fails("raised") EXCEPT !.listings = @ + 1]
      <4>1. batch' = [batch EXCEPT !.pc = "idle", !.outcome = "raised", !.listings = listed]
        BY <1>1, <3>3 DEF BC!Fails, Batches
      <4> HIDE DEF listed
      <4> QED BY <1>0, <1>1, <4>1 DEF Outcomes, Batches
    <3> QED BY <1>10, <3>1, <3>2, <3>3 DEF BC!RequestModel
  <2> QED BY <1>9, <1>10, <2>1 DEF BC!RequestModel, BC!IsA
<1>11. CASE BC!CompatPost
  <2>1. batch' \in Batches /\ batch'.vendor = batch.vendor
    <3>1. CASE batch' = [batch EXCEPT !.verbose = "no", !.refused = @ + 1]
      <4>1. batch' = [batch EXCEPT !.verbose = "no", !.refused = refused]
        BY <1>1, <3>1 DEF Batches
      <4> HIDE DEF refused
      <4> QED BY <1>0, <1>1, <4>1 DEF Batches
    <3>2. CASE batch' = [BC!Fails("raised") EXCEPT !.refused = @ + 1]
      <4>1. batch' = [batch EXCEPT !.pc = "idle", !.outcome = "raised", !.refused = refused]
        BY <1>1, <3>2 DEF BC!Fails, Batches
      <4> HIDE DEF refused
      <4> QED BY <1>0, <1>1, <4>1 DEF Outcomes, Batches
    <3>3. ASSUME NEW words \in BOOLEAN,
                 batch' = [batch EXCEPT !.pc = "idle", !.outcome = "answered",
                                        !.verbose = CASE @ # "unknown" -> @
                                                      [] words -> "yes" [] OTHER -> "no"]
          PROVE  batch' \in Batches /\ batch'.vendor = batch.vendor
      <4> DEFINE verbose == CASE batch.verbose # "unknown" -> batch.verbose
                              [] words -> "yes" [] OTHER -> "no"
      <4>1. verbose \in {"unknown", "yes", "no"}
        BY <1>1 DEF Batches
      <4>2. batch' = [batch EXCEPT !.pc = "idle", !.outcome = "answered", !.verbose = verbose]
        BY <1>1, <3>3 DEF Batches
      <4> HIDE DEF verbose
      <4> QED BY <1>1, <4>1, <4>2 DEF Outcomes, Batches
    <3> QED BY <1>11, <3>1, <3>2, <3>3 DEF BC!CompatPost
  <2> QED BY <1>9, <1>11, <2>1 DEF BC!CompatPost, BC!IsA
<1>12. CASE BC!OnePost
  <2>1. batch' \in Batches /\ batch'.vendor = batch.vendor
    BY <1>1, <1>12 DEF BC!OnePost, Outcomes, Batches
  <2> QED BY <1>9, <1>12, <2>1 DEF BC!OnePost, BC!IsA
<1>13. CASE BC!PostFails
  <2>1. batch' \in Batches /\ batch'.vendor = batch.vendor
    BY <1>1, <1>13 DEF BC!PostFails, BC!Fails, Outcomes, Batches
  <2> QED BY <1>9, <1>13, <2>1 DEF BC!PostFails
<1>14. CASE BC!RouterCancels
  <2>1. CASE batch.pc = "poll"
    <3>1. batch' = BC!Abandons("cancelled")
      BY <1>14, <2>1 DEF BC!RouterCancels
    <3>2. CASE batch.vendor = "assemblyai"
      BY <1>5, <3>1, <3>2 DEF Outcomes
    <3>3. batch' \in Batches /\ batch'.vendor = batch.vendor
      BY <1>1, <3>1 DEF Batches, Jobs, BC!Abandons, Outcomes
    <3> QED BY <1>9, <3>2, <3>3
  <2>2. CASE batch.pc = "upload"
    BY <1>1, <1>14, <2>2 DEF BC!RouterCancels, BC!Fails, Outcomes, BatchKnows, Batches, Outcomes, JobKept
  <2> QED BY <1>14, <2>1, <2>2 DEF BC!RouterCancels
<1> QED BY <1>2, <1>3, <1>4, <1>6, <1>7, <1>8, <1>10, <1>11, <1>12, <1>13, <1>14 DEF BC!BatchNext

LEMMA NoPaidJobIsLeft == ASSUME machine = "batch" => BatchKnows PROVE NoPaidJobLeft
BY DEF NoPaidJobLeft, BatchKnows, JobKept

-----------------------------------------------------------------------------
(* One utterance's call.  What is heard is of the utterance: its own words,
   or an interim of one, or the mark of a turn told again. *)
Own(u) ==
  {t \in Int : t # 0 => (IF t < 0 THEN -t ELSE t) \in UC!Start(u) .. (UC!Start(u) + MaxTurns + 1)}

Answers == [utt : Nat, text : Seq(Int), words : Seq(Int), whole : BOOLEAN]

Heard(W) ==
  [parts : Seq(W), words : Seq(W), turns : [1..MaxTurns -> Seq(W)], interim : Seq(W), ended : BOOLEAN]

Calls(W) ==
  [vendor : UC!SocketVendors, pc : {"idle", "setup", "reading"}, utt : Nat, got : Heard(W),
   said : [1..MaxTurns -> Seq(W)], turn : 1..(MaxTurns + 1), shown : BOOLEAN, flushed : BOOLEAN,
   tail : BOOLEAN, ws : {"none", "open", "over"}, due : Seq(Nat), cut : BOOLEAN, answer : Answers]

(* Deepgram and xAI keep what is settled in the order it is settled in. *)
InOrder(c) ==
  /\ c.got.parts = FlattenSeq(c.said) /\ c.got.words = c.got.parts /\ c.got.interim = <<>>
  /\ \A m \in 1..MaxTurns : m >= c.turn => c.said[m] = <<>>

(* Gemini keeps every turn that ended, and its interim of the one shown. *)
NoneLost(c) ==
  /\ \A n \in 1..MaxTurns : ToSet(c.said[n]) \subseteq ToSet(c.got.parts)
  /\ c.shown => c.turn <= MaxTurns
  /\ c.shown /\ c.said[c.turn] = <<>> => c.got.interim = <<-(UC!Start(c.utt) + c.turn)>>
  /\ c.got.ended => ~c.tail

(* On OpenAI's kept socket only the utterance being read is due. *)
OneDue(c) == ~c.cut => c.due = IF c.pc = "reading" THEN <<c.utt>> ELSE <<>>

HearsAll(c) ==
  /\ c.vendor \in {"deepgram", "xai"} => InOrder(c)
  /\ c.vendor = "assemblyai" => c.got.turns = c.said
  /\ c.vendor = "gemini" => NoneLost(c)

Tells(c, text, words) ==
  /\ c.vendor = "gemini" => /\ \A n \in 1..MaxTurns : ToSet(c.said[n]) \subseteq ToSet(text)
                            /\ ~c.tail
  /\ c.vendor # "gemini" => text = FlattenSeq(c.said) /\ words = text

AnswerKept(c) ==
  /\ (c.vendor = "openai" => ~c.cut) => c.answer.text \in Seq(Own(c.answer.utt))
  /\ c.vendor # "openai" /\ c.answer.whole => Tells(c, c.answer.text, c.answer.words)

CallKept(c) ==
  /\ c \in Calls(Own(c.utt))
  /\ HearsAll(c)
  /\ c.vendor = "openai" => OneDue(c)
  /\ c.pc # "idle" => c.answer = UC!NoAnswer
  /\ AnswerKept(c)

CallKnows == CallKept(call)

LEMMA StartIs == ASSUME NEW u \in Nat PROVE UC!Start(u) \in Nat
BY HeardAssumption DEF UC!Start

LEMMA OwnWord ==
  ASSUME NEW u \in Nat, NEW n \in 1..(MaxTurns + 1)
  PROVE  UC!Start(u) + n \in Own(u) /\ -(UC!Start(u) + n) \in Own(u) /\ 0 \in Own(u)
BY StartIs, HeardAssumption DEF Own

LEMMA Joined ==
  ASSUME NEW parts
  PROVE  UC!FlattenSeq(parts) = FlattenSeq(parts) /\ BK!FlattenSeq(parts) = FlattenSeq(parts)
BY DEF UC!FlattenSeq, FlattenSeq, BK!FlattenSeq

(* Nothing said is nothing heard. *)
LEMMA Silent ==
  ASSUME NEW W \in SUBSET Int
  PROVE  UC!Nothing \in [1..MaxTurns -> Seq(W)] /\ UC!Quiet \in Heard(W) /\ FlattenSeq(UC!Nothing) = <<>>
<1> DEFINE none == << >>
<1>1. none \in Seq(W) /\ none \in Seq(Int)
  OBVIOUS
<1>2. UC!Nothing = [n \in 1..MaxTurns |-> none]
  BY DEF UC!Nothing
<1>3. UC!Quiet = [parts |-> none, words |-> none, turns |-> UC!Nothing, interim |-> none, ended |-> FALSE]
  BY DEF UC!Quiet
<1>4. BK!FlattenSeq(UC!Nothing) = none
  <2>1. UC!Nothing \in Seq(Seq(Int)) /\ Len(UC!Nothing) = MaxTurns
    <3> HIDE DEF none
    <3> QED BY <1>1, <1>2, HeardAssumption
  <2>2. \A i \in 1..Len(UC!Nothing) : UC!Nothing[i] = <<>>
    BY <1>2, <2>1
  <2> QED BY <2>1, <2>2, BK!FlatNone
<1> HIDE DEF none
<1>5. UC!Nothing \in [1..MaxTurns -> Seq(W)]
  BY <1>1, <1>2
<1>6. UC!Quiet \in Heard(W)
  BY <1>1, <1>3, <1>5 DEF Heard
<1> QED BY <1>4, <1>5, <1>6, Joined DEF none

LEMMA CallKnowsAtFirst == ASSUME UC!CallInit PROVE CallKnows
<1> DEFINE none == << >>
<1>1. PICK v \in UC!SocketVendors :
        call = [vendor |-> v, pc |-> "idle", utt |-> 0, got |-> UC!Quiet, said |-> UC!Nothing, turn |-> 1,
                shown |-> FALSE, flushed |-> FALSE, tail |-> FALSE, ws |-> "none", due |-> none,
                cut |-> FALSE, answer |-> UC!NoAnswer]
  BY DEF UC!CallInit
<1>2. UC!NoAnswer \in Answers /\ UC!NoAnswer.text = none /\ UC!NoAnswer.whole = FALSE /\ UC!NoAnswer.utt = 0
  BY DEF UC!NoAnswer, Answers
<1>3. none \in Seq(Nat) /\ none \in Seq(Own(0)) /\ Own(0) \in SUBSET Int /\ 0 \in Nat
  BY DEF Own
<1>4. /\ UC!Nothing \in [1..MaxTurns -> Seq(Own(0))] /\ UC!Quiet \in Heard(Own(0))
      /\ FlattenSeq(UC!Nothing) = none
  BY <1>3, Silent
<1>5. /\ UC!Quiet.parts = none /\ UC!Quiet.words = none /\ UC!Quiet.interim = none /\ UC!Quiet.turns = UC!Nothing
      /\ UC!Quiet.ended = FALSE
      /\ \A n \in 1..MaxTurns : UC!Nothing[n] = none
  BY DEF UC!Quiet, UC!Nothing
<1>6. 1 \in 1..(MaxTurns + 1)
  BY HeardAssumption
<1>7. /\ call.vendor = v /\ call.pc = "idle" /\ call.utt = 0 /\ call.got = UC!Quiet
      /\ call.said = UC!Nothing /\ call.shown = FALSE /\ call.due = none /\ call.answer = UC!NoAnswer
  BY <1>1
<1>8. call \in Calls(Own(0))
  <2> HIDE DEF none
  <2> QED BY <1>1, <1>2, <1>3, <1>4, <1>6 DEF Calls
<1>9. HearsAll(call)
  <2>1. InOrder(call)
    BY <1>4, <1>5, <1>7 DEF InOrder
  <2>2. NoneLost(call)
    <3>1. \A n \in 1..MaxTurns : ToSet(call.said[n]) \subseteq ToSet(call.got.parts)
      <4> HIDE DEF none
      <4> QED BY <1>5, <1>7
    <3> QED BY <1>5, <1>7, <3>1 DEF NoneLost
  <2> QED BY <1>5, <1>7, <2>1, <2>2 DEF HearsAll
<1>10. OneDue(call) /\ AnswerKept(call)
  BY <1>2, <1>3, <1>7 DEF OneDue, AnswerKept
<1> QED BY <1>7, <1>8, <1>9, <1>10 DEF CallKnows, CallKept

LEMMA CallIs ==
  ASSUME CallKnows
  PROVE  /\ call \in Calls(Own(call.utt)) /\ call.utt \in Nat /\ Own(call.utt) \in SUBSET Int
         /\ call.got \in Heard(Own(call.utt)) /\ call.answer \in Answers
         /\ HearsAll(call) /\ (call.vendor = "openai" => OneDue(call)) /\ AnswerKept(call)
         /\ call.pc # "idle" => call.answer = UC!NoAnswer
<1>1. CallKept(call) /\ call \in Calls(Own(call.utt))
  BY DEF CallKnows, CallKept
<1>2. call.utt \in Nat /\ call.got \in Heard(Own(call.utt)) /\ call.answer \in Answers
  BY <1>1 DEF Calls
<1>3. Own(call.utt) \in SUBSET Int
  BY DEF Own
<1> QED BY <1>1, <1>2, <1>3 DEF CallKept

(* A call in which nothing has been answered keeps its books if it hears all. *)
LEMMA StillUnanswered ==
  ASSUME call' \in Calls(Own(call'.utt)), HearsAll(call'), call'.vendor = "openai" => OneDue(call'),
         call'.answer = UC!NoAnswer
  PROVE  CallKnows'
<1>1. call'.answer.whole = FALSE /\ call'.answer.text = <<>>
  BY DEF UC!NoAnswer
<1>2. AnswerKept(call')
  BY <1>1 DEF AnswerKept
<1> QED BY <1>2 DEF CallKnows, CallKept

LEMMA CallBegins == ASSUME CallKnows, UC!Transcribe PROVE CallKnows'
<1> DEFINE u == call.utt + 1
           pc == IF call.vendor = "openai" \/ call.vendor = "gemini" THEN "setup" ELSE "reading"
           quiet == UC!Quiet
           nothing == UC!Nothing
           none == UC!NoAnswer
           one == 1
<1>1. call' = [call EXCEPT !.utt = u, !.got = quiet, !.said = nothing, !.turn = one,
                           !.shown = FALSE, !.flushed = FALSE, !.tail = FALSE, !.answer = none,
                           !.pc = pc]
  BY CallIs DEF UC!Transcribe, UC!Is, Calls
<1>2. u \in Nat /\ Own(u) \in SUBSET Int /\ pc \in {"setup", "reading"} /\ one \in 1..(MaxTurns + 1)
      /\ (call.vendor = "openai" => pc = "setup") /\ none \in Answers /\ call.pc = "idle"
  BY CallIs, HeardAssumption DEF Own, Answers, UC!NoAnswer, UC!Transcribe
<1>3. /\ nothing \in [1..MaxTurns -> Seq(Own(u))] /\ quiet \in Heard(Own(u))
      /\ FlattenSeq(nothing) = <<>>
  BY <1>2, Silent
<1>4. /\ quiet.parts = <<>> /\ quiet.words = <<>> /\ quiet.interim = <<>> /\ quiet.turns = nothing
      /\ quiet.ended = FALSE
      /\ \A n \in 1..MaxTurns : nothing[n] = <<>>
  BY DEF UC!Quiet, UC!Nothing
<1> HIDE DEF u, pc, quiet, nothing, none, one
<1>5. /\ call'.utt = u /\ call'.got = quiet /\ call'.said = nothing /\ call'.shown = FALSE /\ call'.pc = pc
      /\ call'.answer = none /\ call'.vendor = call.vendor /\ call'.due = call.due /\ call'.cut = call.cut
  BY <1>1, CallIs DEF Calls
<1>6. call' \in Calls(Own(u))
  BY <1>1, <1>2, <1>3, CallIs DEF Calls
<1>7. HearsAll(call')
  <2>1. InOrder(call')
    BY <1>3, <1>4, <1>5 DEF InOrder
  <2>2. NoneLost(call')
    BY <1>4, <1>5 DEF NoneLost
  <2> QED BY <1>4, <1>5, <2>1, <2>2 DEF HearsAll
<1>8. call'.vendor = "openai" => OneDue(call')
  BY <1>2, <1>5, CallIs DEF OneDue
<1> QED BY <1>5, <1>6, <1>7, <1>8, StillUnanswered DEF none

(* Only the socket and the place in the call change. *)
SameHearing ==
  /\ call'.vendor = call.vendor /\ call'.utt = call.utt /\ call'.got = call.got /\ call'.said = call.said
  /\ call'.turn = call.turn /\ call'.shown = call.shown /\ call'.tail = call.tail
  /\ call'.answer = call.answer

LEMMA HeardStays == ASSUME SameHearing, HearsAll(call) PROVE HearsAll(call')
<1>1. InOrder(call) => InOrder(call')
  BY DEF SameHearing, InOrder
<1>2. NoneLost(call) => NoneLost(call')
  BY DEF SameHearing, NoneLost
<1> QED BY <1>1, <1>2 DEF SameHearing, HearsAll

LEMMA CallStops ==
  ASSUME CallKnows, UC!Ready \/ UC!Raises \/ UC!RouterGivesUp \/ UC!KeptSocketCloses
  PROVE  CallKnows'
<1>1. CASE UC!Ready
  <2> DEFINE ws == IF call.vendor = "openai" THEN "open" ELSE call.ws
             due == IF call.vendor = "openai" THEN Append(call.due, call.utt) ELSE call.due
  <2>1. call' = [call EXCEPT !.pc = "reading", !.ws = ws, !.due = due] /\ call.pc = "setup"
    BY <1>1, CallIs DEF UC!Ready, UC!Is, Calls
  <2>2. ws \in {"none", "open", "over"} /\ due \in Seq(Nat)
    BY CallIs DEF Calls
  <2>3. OneDue(call) => (~call.cut => (call.vendor = "openai" => due = <<call.utt>>))
    <3>1. OneDue(call) => (~call.cut => call.due = <<>>)
      BY <2>1 DEF OneDue
    <3>2. \A x \in Nat : Append(<<>>, x) = <<x>>
      OBVIOUS
    <3> QED BY <3>1, <3>2, CallIs
  <2> HIDE DEF ws, due
  <2>4. SameHearing /\ call'.pc = "reading" /\ call'.due = due /\ call'.cut = call.cut
    BY <2>1, CallIs DEF Calls, SameHearing
  <2>5. call' \in Calls(Own(call.utt))
    BY <2>1, <2>2, CallIs DEF Calls
  <2>6. call'.answer = UC!NoAnswer /\ call'.utt = call.utt /\ (call'.vendor = "openai" => OneDue(call'))
    BY <2>1, <2>3, <2>4, CallIs DEF OneDue, SameHearing
  <2> QED BY <2>4, <2>5, <2>6, HeardStays, CallIs, StillUnanswered
<1>2. CASE UC!Raises \/ UC!KeptSocketCloses
  <2> DEFINE none == << >>
  <2>0. none \in Seq(Nat)
    OBVIOUS
  <2>1. PICK ws \in {"none", "over"} :
          call' = [call EXCEPT !.pc = "idle", !.ws = ws, !.due = none, !.cut = FALSE]
    BY <1>2 DEF UC!Raises, UC!KeptSocketCloses
  <2>2. call.pc # "idle"
    BY <1>2 DEF UC!Raises, UC!KeptSocketCloses, UC!Read
  <2> HIDE DEF none
  <2>3. SameHearing /\ call'.pc = "idle" /\ call'.due = none
    BY <2>1, CallIs DEF Calls, SameHearing
  <2>4. call' \in Calls(Own(call.utt))
    BY <2>0, <2>1, CallIs DEF Calls
  <2>5. call'.answer = UC!NoAnswer /\ call'.utt = call.utt /\ OneDue(call')
    BY <2>2, <2>3, CallIs DEF OneDue, SameHearing, none
  <2> QED BY <2>3, <2>4, <2>5, HeardStays, CallIs, StillUnanswered
<1>3. CASE UC!RouterGivesUp
  <2> DEFINE cut == call.pc = "reading" \/ call.cut
  <2>1. call' = [call EXCEPT !.pc = "idle", !.cut = cut] /\ call.pc # "idle"
    BY <1>3, CallIs DEF UC!RouterGivesUp, UC!Read, Calls
  <2>2. cut \in BOOLEAN /\ (OneDue(call) => (~cut => call.due = <<>>))
    BY CallIs DEF OneDue, Calls
  <2> HIDE DEF cut
  <2>3. SameHearing /\ call'.pc = "idle" /\ call'.due = call.due /\ call'.cut = cut
    BY <2>1, CallIs DEF Calls, SameHearing
  <2>4. call' \in Calls(Own(call.utt))
    BY <2>1, <2>2, CallIs DEF Calls
  <2>5. call'.answer = UC!NoAnswer /\ call'.utt = call.utt /\ (call'.vendor = "openai" => OneDue(call'))
    BY <2>1, <2>2, <2>3, CallIs DEF OneDue, SameHearing
  <2> QED BY <2>3, <2>4, <2>5, HeardStays, CallIs, StillUnanswered
<1> QED BY <1>1, <1>2, <1>3

-----------------------------------------------------------------------------
(* A turn's text settled: said of turn n, and one of the parts. *)
LEMMA Spoke ==
  ASSUME CallKnows, NEW n \in 1..MaxTurns
  PROVE  /\ UC!Token(n) \in Own(call.utt) /\ -UC!Token(n) \in Own(call.utt) /\ 0 \in Own(call.utt)
         /\ UC!Shifted(<<n>>, UC!Start(call.utt)) = <<UC!Token(n)>>
         /\ \A i \in 1..MaxTurns : call.said[i] \in Seq(Own(call.utt))
<1>1. UC!Token(n) = UC!Start(call.utt) + n
  BY DEF UC!Token
<1>2. n \in 1..(MaxTurns + 1) /\ n \in Nat
  BY HeardAssumption
<1>3. UC!Token(n) \in Own(call.utt) /\ -UC!Token(n) \in Own(call.utt) /\ 0 \in Own(call.utt)
  BY <1>1, <1>2, CallIs, OwnWord
<1>4. UC!Shifted(<<n>>, UC!Start(call.utt)) = <<UC!Token(n)>>
  <2>1. UC!Start(call.utt) \in Int
    BY CallIs, StartIs
  <2>2. UC!Shifted(<<n>>, UC!Start(call.utt)) = [i \in 1..1 |-> n + UC!Start(call.utt)]
    BY DEF UC!Shifted
  <2>3. n + UC!Start(call.utt) = UC!Token(n)
    BY <1>1, <1>2, <2>1
  <2> QED BY <2>2, <2>3
<1> QED BY <1>3, <1>4, CallIs DEF Calls

LEMMA SaysInOrder ==
  ASSUME NEW W \in SUBSET Int, NEW n \in 1..MaxTurns, NEW text \in Seq(W), NEW spoken \in [1..MaxTurns -> Seq(W)],
         \A m \in 1..MaxTurns : m >= n => spoken[m] = <<>>
  PROVE  FlattenSeq([spoken EXCEPT ![n] = text]) = FlattenSeq(spoken) \o text
<1> DEFINE next == [spoken EXCEPT ![n] = text]
           A == Seq(W)
           B == Seq(Int)
<1>1. text \in B /\ \A s \in A : s \in B
  <2>1. ASSUME NEW s \in A PROVE s \in B
    BY BK!SeqMonotonic
  <2> QED BY <2>1
<1>2. spoken \in [1..MaxTurns -> A] /\ text \in A
  OBVIOUS
<1> HIDE DEF A, B
<1>3. spoken \in Seq(B) /\ next \in Seq(B) /\ Len(spoken) = MaxTurns /\ Len(next) = MaxTurns
  <2>1. spoken \in [1..MaxTurns -> B] /\ next \in [1..MaxTurns -> B]
    BY <1>1, <1>2
  <2> HIDE DEF next
  <2> QED BY <2>1, HeardAssumption
<1>4. next[n] = text /\ \A m \in 1..MaxTurns : m # n => next[m] = spoken[m]
  BY <1>2
<1> HIDE DEF next
<1>5. BK!FlattenSeq(next) = BK!FlattenSeq(spoken) \o text
  <2>1. /\ n \in 1..Len(spoken) /\ \A m \in n..Len(spoken) : spoken[m] = <<>>
        /\ Len(next) = Len(spoken) /\ \A m \in 1..Len(spoken) : m # n => next[m] = spoken[m]
    BY <1>3, <1>4, HeardAssumption
  <2> QED BY <1>1, <1>3, <1>4, <2>1, BK!FlatSays DEF B
<1> QED BY <1>5, Joined DEF next

(* What a fold changes, and a call that goes on hearing is kept. *)
LEMMA CallFolds ==
  ASSUME CallKnows, call.pc = "reading", call.vendor # "openai", NEW n \in 1..MaxTurns, n <= call.turn,
         NEW got \in Heard(Own(call.utt)), NEW text \in Seq(Own(call.utt)), UC!Folds(got, n, text),
         HearsAll(call')
  PROVE  CallKnows'
<1> DEFINE turn == IF n = call.turn THEN call.turn + 1 ELSE call.turn
           spoken == [call.said EXCEPT ![n] = text]
<1>1. call' = [call EXCEPT !.got = got, !.said = spoken, !.turn = turn]
  BY CallIs DEF UC!Folds, Calls
<1>2. turn \in 1..(MaxTurns + 1) /\ spoken \in [1..MaxTurns -> Seq(Own(call.utt))]
  BY CallIs, HeardAssumption DEF Calls
<1> HIDE DEF turn, spoken
<1>3. call' \in Calls(Own(call.utt)) /\ call'.utt = call.utt /\ call'.answer = call.answer
      /\ call'.vendor = call.vendor
  BY <1>1, <1>2, CallIs DEF Calls
<1> QED BY <1>3, CallIs, StillUnanswered

(* The next turn settled, where the parts are kept in order. *)
LEMMA CallSettles ==
  ASSUME CallKnows, call.pc = "reading", call.vendor \in {"deepgram", "xai"}, NEW n \in 1..MaxTurns,
         n = call.turn,
         UC!Folds([call.got EXCEPT !.parts = Append(@, UC!Token(n)),
                                   !.words = @ \o UC!Shifted(<<n>>, UC!Start(call.utt))],
                  n, <<UC!Token(n)>>)
  PROVE  CallKnows'
<1> DEFINE W == Own(call.utt)
           text == <<UC!Token(n)>>
           parts == call.got.parts \o text
           got == [call.got EXCEPT !.parts = parts, !.words = parts]
           spoken == [call.said EXCEPT ![n] = text]
           turn == n + 1
<1>1. InOrder(call) /\ call.said \in [1..MaxTurns -> Seq(W)] /\ W \in SUBSET Int
  BY CallIs DEF HearsAll, Calls
<1>2. text \in Seq(W) /\ parts \in Seq(W)
  <2>1. UC!Token(n) \in W /\ call.got.parts \in Seq(W)
    BY Spoke, CallIs DEF Heard
  <2> HIDE DEF W
  <2> QED BY <2>1
<1>3. /\ Append(call.got.parts, UC!Token(n)) = parts
      /\ call.got.words \o UC!Shifted(<<n>>, UC!Start(call.utt)) = parts
  <2>1. UC!Token(n) \in W /\ call.got.parts \in Seq(W)
    BY Spoke, CallIs DEF Heard
  <2>2. call.got.words = call.got.parts /\ UC!Shifted(<<n>>, UC!Start(call.utt)) = text
    BY <1>1, Spoke DEF InOrder
  <2>3. Append(call.got.parts, UC!Token(n)) = parts
    <3> DEFINE token == UC!Token(n)
               heard == call.got.parts
    <3>1. token \in W /\ heard \in Seq(W)
      BY <2>1
    <3> HIDE DEF W, token, heard
    <3>2. Append(heard, token) = heard \o <<token>>
      BY <3>1
    <3> QED BY <3>2 DEF token, heard
  <2> HIDE DEF text
  <2> QED BY <2>2, <2>3
<1>4. UC!Folds(got, n, text)
  BY <1>3, CallIs DEF Heard
<1>5. FlattenSeq(spoken) = parts
  <2>1. call.got.parts = FlattenSeq(call.said) /\ \A m \in 1..MaxTurns : m >= n => call.said[m] = <<>>
    BY <1>1 DEF InOrder
  <2> HIDE DEF W, text
  <2>2. FlattenSeq([call.said EXCEPT ![n] = text]) = FlattenSeq(call.said) \o text
    BY <1>1, <1>2, <2>1, SaysInOrder
  <2> QED BY <2>1, <2>2
<1> HIDE DEF text, parts
<1>6. got \in Heard(W)
  BY <1>2, CallIs DEF Heard
<1>7. /\ call'.got.parts = parts /\ call'.got.words = parts /\ call'.got.interim = call.got.interim
      /\ call'.said = spoken /\ call'.turn = turn /\ call'.vendor = call.vendor
  <2> DEFINE next == [call.said EXCEPT ![n] = text]
             after == IF n = call.turn THEN call.turn + 1 ELSE call.turn
  <2>1. call' = [call EXCEPT !.got = got, !.said = next, !.turn = after]
    BY <1>4, CallIs DEF UC!Folds, Calls
  <2>2. next = spoken /\ after = turn
    OBVIOUS
  <2>3. got.parts = parts /\ got.words = parts /\ got.interim = call.got.interim
    BY CallIs DEF Heard
  <2> HIDE DEF next, after, got, spoken, turn
  <2>4. call'.got = got /\ call'.said = next /\ call'.turn = after /\ call'.vendor = call.vendor
    BY <2>1, CallIs DEF Calls
  <2> QED BY <2>2, <2>3, <2>4
<1>8. InOrder(call')
  <2>1. \A m \in 1..MaxTurns : m >= turn => spoken[m] = <<>>
    <3>1. \A m \in 1..MaxTurns : m >= turn => m # n /\ m >= n
      BY HeardAssumption
    <3> QED BY <1>1, <3>1 DEF InOrder
  <2> QED BY <1>1, <1>5, <1>7, <2>1 DEF InOrder
<1>9. HearsAll(call')
  BY <1>7, <1>8 DEF HearsAll
<1>10. n <= call.turn /\ call.vendor # "openai"
  BY HeardAssumption
<1> QED BY <1>2, <1>4, <1>6, <1>9, <1>10, CallFolds

LEMMA CallHears ==
  ASSUME CallKnows, UC!DeepgramResults \/ UC!AssemblyTurn \/ UC!XaiPartial
  PROVE  CallKnows'
<1>1. CASE UC!XaiPartial
  <2>1. call.turn \in 1..MaxTurns /\ call.pc = "reading" /\ call.vendor = "xai"
    BY <1>1, CallIs, HeardAssumption DEF UC!XaiPartial, UC!Read, UC!Is, Calls
  <2> QED BY <1>1, <2>1, CallSettles DEF UC!XaiPartial
<1>2. CASE UC!DeepgramResults
  <2>1. call.turn \in 1..MaxTurns /\ call.pc = "reading" /\ call.vendor = "deepgram"
    BY <1>2, CallIs, HeardAssumption DEF UC!DeepgramResults, UC!Read, UC!Is, Calls
  <2>2. CASE UC!Folds([call.got EXCEPT !.parts = Append(@, UC!Token(call.turn)),
                                       !.words = @ \o UC!Shifted(<<call.turn>>, UC!Start(call.utt))],
                      call.turn, <<UC!Token(call.turn)>>)
    BY <2>1, <2>2, CallSettles
  <2>3. CASE UC!Folds(call.got, call.turn, <<>>)
    <3> DEFINE none == << >>
               spoken == [call.said EXCEPT ![call.turn] = none]
               after == call.turn + 1
    <3>1. InOrder(call) /\ none \in Seq(Own(call.utt))
      BY <2>1, CallIs DEF HearsAll
    <3>2. call.said[call.turn] = none /\ call.turn \in Int
      BY <2>1, <3>1, HeardAssumption DEF InOrder
    <3>3. spoken = call.said
      BY <2>1, <3>2, CallIs DEF Calls
    <3>4. call' = [call EXCEPT !.got = call.got, !.said = spoken, !.turn = after]
      BY <2>3, CallIs DEF UC!Folds, Calls
    <3> HIDE DEF spoken, after
    <3>5. call'.got = call.got /\ call'.said = call.said /\ call'.turn = after /\ call'.vendor = call.vendor
      BY <3>3, <3>4, CallIs DEF Calls
    <3>6. InOrder(call')
      <4>1. \A m \in 1..MaxTurns : m >= after => m >= call.turn
        BY <3>2, HeardAssumption DEF after
      <4> QED BY <3>1, <3>5, <4>1 DEF InOrder
    <3>7. HearsAll(call') /\ call.turn <= call.turn
      BY <2>1, <3>2, <3>5, <3>6 DEF HearsAll
    <3> QED BY <2>1, <2>3, <3>1, <3>7, CallIs, CallFolds
  <2> QED BY <1>2, <2>2, <2>3 DEF UC!DeepgramResults
<1>3. CASE UC!AssemblyTurn
  <2>1. PICK n \in 1..MaxTurns :
          /\ n <= call.turn
          /\ LET text == IF n = call.turn THEN <<UC!Token(n)>> ELSE <<UC!Token(n), 0>> IN
             UC!Folds([call.got EXCEPT !.turns[n] = text], n, text)
    BY <1>3 DEF UC!AssemblyTurn
  <2> DEFINE W == Own(call.utt)
             text == IF n = call.turn THEN <<UC!Token(n)>> ELSE <<UC!Token(n), 0>>
             got == [call.got EXCEPT !.turns[n] = text]
             turns == [call.got.turns EXCEPT ![n] = text]
             after == IF n = call.turn THEN call.turn + 1 ELSE call.turn
  <2>2. text \in Seq(W)
    <3>1. UC!Token(n) \in W /\ 0 \in W
      BY Spoke
    <3> HIDE DEF W
    <3> QED BY <3>1
  <2>3. call.vendor = "assemblyai" /\ call.pc = "reading" /\ call.got.turns = call.said
    BY <1>3, CallIs DEF UC!AssemblyTurn, UC!Read, UC!Is, HearsAll
  <2>4. UC!Folds(got, n, text)
    BY <2>1
  <2> HIDE DEF text
  <2>5. got = [call.got EXCEPT !.turns = turns] /\ turns \in [1..MaxTurns -> Seq(W)]
    BY <2>2, CallIs DEF Heard
  <2>6. got \in Heard(W) /\ got.turns = turns
    <3> HIDE DEF turns, W
    <3>1. call.got \in Heard(W)
      BY CallIs DEF W
    <3> QED BY <2>5, <3>1 DEF Heard
  <2>7. call' = [call EXCEPT !.got = got, !.said = turns, !.turn = after]
    BY <2>3, <2>4, CallIs DEF UC!Folds, Calls
  <2> HIDE DEF got, turns, after
  <2>8. call'.got = got /\ call'.said = turns /\ call'.vendor = "assemblyai"
    BY <2>3, <2>7, CallIs DEF Calls
  <2>9. HearsAll(call')
    BY <2>6, <2>8 DEF HearsAll
  <2> QED BY <2>1, <2>2, <2>3, <2>4, <2>6, <2>9, CallFolds
<1> QED BY <1>1, <1>2, <1>3

-----------------------------------------------------------------------------
(* The answer. *)
LEMMA JoinHas ==
  ASSUME NEW W, NEW s \in Seq(W), NEW t \in Seq(W)
  PROVE  ToSet(s) \subseteq ToSet(s \o t) /\ ToSet(t) \subseteq ToSet(s \o t)
<1>1. /\ s \o t \in Seq(W) /\ Len(s \o t) = Len(s) + Len(t) /\ Len(s) \in Nat /\ Len(t) \in Nat
      /\ \A i \in 1..Len(s) : (s \o t)[i] = s[i]
      /\ \A i \in 1..Len(t) : (s \o t)[Len(s) + i] = t[i]
  OBVIOUS
<1>2. DOMAIN s = 1..Len(s) /\ DOMAIN t = 1..Len(t) /\ DOMAIN (s \o t) = 1..Len(s \o t)
  BY <1>1
<1> DEFINE r == s \o t
<1> HIDE DEF r
<1>3. ASSUME NEW i \in 1..Len(s) PROVE s[i] \in ToSet(r)
  <2>1. i \in DOMAIN r /\ r[i] = s[i]
    BY <1>1, <1>2 DEF r
  <2> QED BY <2>1 DEF ToSet
<1>4. ASSUME NEW i \in 1..Len(t) PROVE t[i] \in ToSet(r)
  <2>1. Len(s) + i \in DOMAIN r /\ r[Len(s) + i] = t[i]
    BY <1>1, <1>2 DEF r
  <2> QED BY <2>1 DEF ToSet
<1> QED BY <1>2, <1>3, <1>4 DEF ToSet, r

LEMMA CallReturns ==
  ASSUME CallKnows, call.pc = "reading", call.vendor # "openai", NEW text \in Seq(Own(call.utt)),
         NEW words \in Seq(Own(call.utt)), NEW whole \in BOOLEAN, UC!Returns(text, words, whole),
         whole => Tells(call, text, words)
  PROVE  CallKnows'
<1> DEFINE W == Own(call.utt)
           answer == IF text = <<>> THEN [UC!NoAnswer EXCEPT !.utt = call.utt, !.whole = whole]
                     ELSE [utt |-> call.utt, text |-> text, words |-> words, whole |-> whole]
<1>1. text \in Seq(Int) /\ words \in Seq(Int) /\ call.utt \in Nat
  BY CallIs, BK!SeqMonotonic
<1>2. answer \in Answers /\ answer.text = text /\ answer.whole = whole /\ answer.utt = call.utt
      /\ answer.words = IF text = <<>> THEN <<>> ELSE words
  BY <1>1 DEF UC!NoAnswer, Answers
<1>3. call' = [call EXCEPT !.pc = "idle", !.answer = answer]
  BY DEF UC!Returns
<1> HIDE DEF answer
<1>4. /\ call'.vendor = call.vendor /\ call'.utt = call.utt /\ call'.got = call.got /\ call'.said = call.said
      /\ call'.turn = call.turn /\ call'.shown = call.shown /\ call'.tail = call.tail
      /\ call'.answer = answer /\ call'.pc = "idle"
  BY <1>2, <1>3, CallIs DEF Calls
<1>5. call' \in Calls(W)
  BY <1>2, <1>3, CallIs DEF Calls
<1>6. HearsAll(call')
  <2>1. InOrder(call) => InOrder(call')
    BY <1>4 DEF InOrder
  <2>2. NoneLost(call) => NoneLost(call')
    BY <1>4 DEF NoneLost
  <2> QED BY <1>4, <2>1, <2>2, CallIs DEF HearsAll
<1>7. AnswerKept(call')
  <2>1. whole => Tells(call, text, answer.words)
    BY <1>2 DEF Tells
  <2>2. whole => Tells(call', text, answer.words)
    BY <1>4, <2>1 DEF Tells
  <2> QED BY <1>2, <1>4, <2>2 DEF AnswerKept
<1> QED BY <1>4, <1>5, <1>6, <1>7 DEF CallKnows, CallKept

LEMMA CallAnswers ==
  ASSUME CallKnows, UC!XaiDone \/ UC!ServiceIsDone \/ UC!ReadingStops
  PROVE  CallKnows'
<1> DEFINE W == Own(call.utt)
           all == FlattenSeq(call.said)
           turns == FlattenSeq(call.got.turns)
           flushed == call.got.parts \o call.got.interim
<1>1. /\ W \in SUBSET Int /\ call.said \in [1..MaxTurns -> Seq(W)] /\ call.got.turns \in [1..MaxTurns -> Seq(W)]
      /\ call.got.parts \in Seq(W) /\ call.got.interim \in Seq(W) /\ call.got.words \in Seq(W)
  BY CallIs DEF Calls, Heard
<1>2. ASSUME NEW parts \in [1..MaxTurns -> Seq(W)] PROVE FlattenSeq(parts) \in Seq(W)
  <2> DEFINE A == Seq(W)
  <2>1. parts \in Seq(A)
    <3> HIDE DEF A
    <3>1. parts \in [1..MaxTurns -> A]
      BY DEF A
    <3> QED BY <3>1, HeardAssumption
  <2> HIDE DEF W
  <2>2. BK!FlattenSeq(parts) \in Seq(W)
    BY <1>1, <2>1, BK!FlatOver
  <2> QED BY <2>2, Joined
<1>3. all \in Seq(W) /\ turns \in Seq(W)
  BY <1>1, <1>2
<1>4. flushed \in Seq(W)
  <2> HIDE DEF W
  <2> QED BY <1>1
<1>5. CASE UC!XaiDone
  <2>1. call.vendor = "xai" /\ call.pc = "reading" /\ InOrder(call)
    BY <1>5, CallIs DEF UC!XaiDone, UC!Read, UC!Is, HearsAll
  <2>2. CASE UC!Returns(call.got.parts, call.got.words, TRUE)
    <3>1. Tells(call, call.got.parts, call.got.words)
      BY <2>1 DEF Tells, InOrder
    <3> QED BY <1>1, <2>1, <2>2, <3>1, CallReturns
  <2>3. CASE LET al == UC!FlattenSeq(call.said) IN
             UC!Returns(al, UC!Shifted([i \in DOMAIN al |-> al[i] - UC!Start(call.utt)], UC!Start(call.utt)), TRUE)
    <3>1. UC!FlattenSeq(call.said) = all
      BY Joined
    <3>2. UC!Returns(all, UC!Shifted([i \in DOMAIN all |-> all[i] - UC!Start(call.utt)], UC!Start(call.utt)), TRUE)
      BY <2>3, <3>1
    <3> DEFINE start == UC!Start(call.utt)
    <3>3. start \in Nat
      BY CallIs, StartIs
    <3>4. UC!Shifted([i \in DOMAIN all |-> all[i] - start], start) = all
      <4>1. all \in Seq(Int)
        BY <1>1, <1>3, BK!SeqMonotonic
      <4> HIDE DEF all, start, W
      <4>2. \A i \in DOMAIN all : (all[i] - start) + start = all[i]
        BY <3>3, <4>1
      <4>3. all = [i \in DOMAIN all |-> all[i]]
        BY <4>1
      <4> QED BY <4>2, <4>3 DEF UC!Shifted
    <3>5. UC!Returns(all, all, TRUE)
      BY <3>2, <3>4
    <3>6. Tells(call, all, all)
      BY <2>1 DEF Tells
    <3> HIDE DEF all
    <3> QED BY <1>3, <2>1, <3>5, <3>6, CallReturns
  <2> QED BY <1>5, <2>2, <2>3 DEF UC!XaiDone
<1> DEFINE text == UC!GotText
           words == UC!GotWords
<1>6. /\ call.vendor = "assemblyai" => text = turns /\ words = text
      /\ call.vendor \in {"deepgram", "xai"} => text = flushed /\ words = call.got.words
      /\ call.vendor = "gemini" => text = flushed /\ words = <<>>
  <2>1. UC!Flushed(call.got).parts = flushed
    BY CallIs DEF UC!Flushed, Heard
  <2>2. UC!FlattenSeq(call.got.turns) = turns
    BY Joined
  <2>3. text = IF call.vendor = "assemblyai" THEN turns ELSE flushed
    BY <2>1, <2>2 DEF UC!GotText, UC!Is
  <2>4. words = IF call.vendor \in {"deepgram", "xai"} THEN call.got.words
                ELSE IF call.vendor = "gemini" THEN <<>> ELSE text
    BY DEF UC!GotWords, UC!Is
  <2>5. call.vendor \in UC!SocketVendors
    BY CallIs DEF Calls
  <2> HIDE DEF turns, flushed, text, words
  <2> QED BY <2>3, <2>4, <2>5 DEF UC!SocketVendors
<1>7. ASSUME call.vendor # "openai" PROVE text \in Seq(W) /\ words \in Seq(W)
  <2> DEFINE none == << >>
  <2>1. none \in Seq(W)
    OBVIOUS
  <2>2. /\ call.vendor = "assemblyai" => text = turns /\ words = text
        /\ call.vendor \in {"deepgram", "xai"} => text = flushed /\ words = call.got.words
        /\ call.vendor = "gemini" => text = flushed /\ words = none
        /\ call.vendor \in {"deepgram", "assemblyai", "xai", "gemini"}
    BY <1>6, <1>7, CallIs DEF Calls, UC!SocketVendors
  <2> HIDE DEF W, turns, flushed, none, text, words
  <2> QED BY <1>1, <1>3, <1>4, <2>1, <2>2
<1>8. call.vendor \in {"deepgram", "xai", "assemblyai"} => Tells(call, text, words)
  <2>1. CASE call.vendor \in {"deepgram", "xai"}
    <3>1. InOrder(call)
      BY <2>1, CallIs DEF HearsAll
    <3>2. flushed = call.got.parts
      <4>1. call.got.parts \in Seq(Int) /\ call.got.interim = <<>>
        BY <1>1, <3>1, BK!SeqMonotonic DEF InOrder
      <4> QED BY <4>1
    <3> HIDE DEF text, words, flushed
    <3> QED BY <1>6, <2>1, <3>1, <3>2 DEF Tells, InOrder
  <2>2. CASE call.vendor = "assemblyai"
    <3>1. call.got.turns = call.said
      BY <2>2, CallIs DEF HearsAll
    <3> HIDE DEF text, words
    <3> QED BY <1>6, <2>2, <3>1 DEF Tells
  <2> QED BY <2>1, <2>2
<1>9. CASE UC!ReadingStops
  <2>1. call.pc = "reading" /\ call.vendor # "openai" /\ UC!Returns(text, words, FALSE)
    BY <1>9 DEF UC!ReadingStops, UC!Read, UC!Is
  <2> HIDE DEF text, words
  <2> QED BY <1>7, <2>1, CallReturns
<1>10. CASE UC!ServiceIsDone
  <2>1. call.pc = "reading" /\ UC!Returns(text, words, TRUE)
        /\ (call.vendor \in {"deepgram", "assemblyai"} \/ (call.vendor = "gemini" /\ call.got.ended))
    BY <1>10 DEF UC!ServiceIsDone, UC!Read, UC!Is
  <2>2. call.vendor = "gemini" => Tells(call, text, words)
    <3> SUFFICES ASSUME call.vendor = "gemini" PROVE Tells(call, text, words)
      OBVIOUS
    <3>1. NoneLost(call) /\ text = flushed
      BY <1>6, CallIs DEF HearsAll
    <3>2. ToSet(call.got.parts) \subseteq ToSet(flushed)
      <4> HIDE DEF W
      <4> QED BY <1>1, JoinHas
    <3> HIDE DEF text, words, flushed
    <3> QED BY <2>1, <3>1, <3>2 DEF Tells, NoneLost
  <2> HIDE DEF text, words
  <2> QED BY <1>7, <1>8, <2>1, <2>2, CallReturns
<1> QED BY <1>5, <1>9, <1>10

-----------------------------------------------------------------------------
(* Gemini's turns: shown as interims, settled, ended by the service. *)
LEMMA CallGoesOn ==
  ASSUME CallKnows, call.pc = "reading", call.vendor = "gemini", call' \in Calls(Own(call.utt)),
         call'.utt = call.utt, call'.vendor = call.vendor, call'.answer = call.answer, NoneLost(call')
  PROVE  CallKnows'
<1>1. HearsAll(call') /\ call'.answer = UC!NoAnswer
  BY CallIs DEF HearsAll
<1> QED BY <1>1, StillUnanswered

LEMMA CallShows == ASSUME CallKnows, UC!GeminiInterim PROVE CallKnows'
<1> DEFINE W == Own(call.utt)
           interim == <<-UC!Token(call.turn)>>
           got == [call.got EXCEPT !.interim = interim, !.ended = FALSE]
<1>1. call.pc = "reading" /\ call.vendor = "gemini" /\ call.turn \in 1..MaxTurns /\ NoneLost(call)
  BY CallIs, HeardAssumption DEF UC!GeminiInterim, UC!Read, UC!Is, HearsAll, Calls
<1>2. interim \in Seq(W)
  <2>1. -UC!Token(call.turn) \in W
    BY <1>1, Spoke
  <2> HIDE DEF W
  <2> QED BY <2>1
<1>3. call' = [call EXCEPT !.got = got, !.shown = TRUE]
  BY CallIs DEF UC!GeminiInterim, Calls, Heard
<1>4. interim = <<-(UC!Start(call.utt) + call.turn)>>
  BY DEF UC!Token
<1> HIDE DEF interim
<1>5. got \in Heard(W) /\ got.parts = call.got.parts /\ got.interim = interim /\ got.ended = FALSE
  BY <1>2, CallIs DEF Heard
<1> HIDE DEF got
<1>6. call' \in Calls(W)
  BY <1>3, <1>5, CallIs DEF Calls
<1>7. /\ call'.utt = call.utt /\ call'.vendor = call.vendor /\ call'.answer = call.answer
      /\ call'.got = got /\ call'.said = call.said /\ call'.turn = call.turn
  BY <1>3, CallIs DEF Calls
<1>8. NoneLost(call')
  BY <1>1, <1>4, <1>5, <1>7, HeardAssumption DEF NoneLost
<1> QED BY <1>1, <1>6, <1>7, <1>8, CallGoesOn

LEMMA CallFinalizes == ASSUME CallKnows, UC!GeminiFinal PROVE CallKnows'
<1>1. PICK n \in 1..MaxTurns :
        /\ n = call.turn \/ n = call.turn - 1
        /\ call' = [call EXCEPT !.got.parts = Append(@, UC!Token(n)), !.got.interim = <<>>,
                                !.got.ended = FALSE, !.said[n] = <<UC!Token(n)>>,
                                !.shown = (n = call.turn)]
  BY DEF UC!GeminiFinal
<1> DEFINE W == Own(call.utt)
           none == << >>
           text == <<UC!Token(n)>>
           parts == Append(call.got.parts, UC!Token(n))
           got == [call.got EXCEPT !.parts = parts, !.interim = none, !.ended = FALSE]
           spoken == [call.said EXCEPT ![n] = text]
           shown == (n = call.turn)
<1>2. call.pc = "reading" /\ call.vendor = "gemini" /\ NoneLost(call)
  BY CallIs DEF UC!GeminiFinal, UC!Read, UC!Is, HearsAll
<1>3. /\ none \in Seq(W) /\ text \in Seq(W) /\ parts \in Seq(W)
      /\ ToSet(call.got.parts) \subseteq ToSet(parts) /\ ToSet(text) \subseteq ToSet(parts)
  <2> DEFINE token == UC!Token(n)
             heard == call.got.parts
  <2>1. token \in W /\ heard \in Seq(W)
    BY Spoke, CallIs DEF Heard
  <2> HIDE DEF W, token, heard
  <2>2. parts = heard \o text /\ text \in Seq(W) /\ none \in Seq(W) /\ parts \in Seq(W)
    BY <2>1 DEF token, heard
  <2> HIDE DEF text, parts
  <2> QED BY <2>1, <2>2, JoinHas DEF heard
<1>4. text # <<>> /\ shown \in BOOLEAN
  OBVIOUS
<1>5. call' = [call EXCEPT !.got = got, !.said = spoken, !.shown = shown]
  BY <1>1, CallIs DEF Calls, Heard
<1>6. spoken \in [1..MaxTurns -> Seq(W)] /\ spoken[n] = text
      /\ \A m \in 1..MaxTurns : m # n => spoken[m] = call.said[m]
  BY <1>3, CallIs DEF Calls
<1> HIDE DEF text, parts, none, spoken
<1>7. got \in Heard(W) /\ got.parts = parts /\ got.ended = FALSE
  BY <1>3, CallIs DEF Heard
<1>8. shown => call.turn = n /\ n <= MaxTurns
  BY HeardAssumption
<1> HIDE DEF got, shown
<1>9. call' \in Calls(W)
  BY <1>4, <1>5, <1>6, <1>7, CallIs DEF Calls
<1>10. /\ call'.utt = call.utt /\ call'.vendor = call.vendor /\ call'.answer = call.answer
       /\ call'.got = got /\ call'.said = spoken /\ call'.turn = call.turn /\ call'.shown = shown
  BY <1>5, CallIs DEF Calls
<1>11. \A m \in 1..MaxTurns : ToSet(spoken[m]) \subseteq ToSet(parts)
  BY <1>2, <1>3, <1>6 DEF NoneLost
<1>12. NoneLost(call')
  BY <1>4, <1>6, <1>7, <1>8, <1>10, <1>11 DEF NoneLost
<1> QED BY <1>2, <1>9, <1>10, <1>12, CallGoesOn

LEMMA CallTurnEnds == ASSUME CallKnows, UC!GeminiTurnEnds PROVE CallKnows'
<1> DEFINE W == Own(call.utt)
           none == << >>
           n == call.turn
           parts == call.got.parts \o call.got.interim
           got == [call.got EXCEPT !.parts = parts, !.interim = none, !.ended = TRUE]
           text == IF call.said[n] = <<>> THEN <<-UC!Token(n)>> ELSE call.said[n]
           spoken == [call.said EXCEPT ![n] = text]
           after == call.turn + 1
<1>1. call.pc = "reading" /\ call.vendor = "gemini" /\ NoneLost(call) /\ call.shown = TRUE
  BY CallIs DEF UC!GeminiTurnEnds, UC!Read, UC!Is, HearsAll, Calls
<1>2. n \in 1..MaxTurns /\ after \in 1..(MaxTurns + 1)
  BY <1>1, CallIs, HeardAssumption DEF NoneLost, Calls
<1>3. /\ none \in Seq(W) /\ parts \in Seq(W)
      /\ ToSet(call.got.parts) \subseteq ToSet(parts) /\ ToSet(call.got.interim) \subseteq ToSet(parts)
  <2>1. call.got.parts \in Seq(W) /\ call.got.interim \in Seq(W)
    BY CallIs DEF Heard
  <2> HIDE DEF W
  <2>2. none \in Seq(W) /\ parts \in Seq(W)
    BY <2>1
  <2> QED BY <2>1, <2>2, JoinHas
<1>4. text \in Seq(W) /\ ToSet(text) \subseteq ToSet(parts)
  <2>1. CASE call.said[n] = <<>>
    <3>1. call.got.interim = <<-(UC!Start(call.utt) + n)>> /\ text = <<-UC!Token(n)>>
      BY <1>1, <2>1 DEF NoneLost
    <3>2. UC!Token(n) = UC!Start(call.utt) + n
      BY DEF UC!Token
    <3>3. text = call.got.interim
      BY <3>1, <3>2
    <3> HIDE DEF text, parts
    <3> QED BY <1>3, <3>3, CallIs DEF Heard
  <2>2. CASE call.said[n] # <<>>
    <3>1. text = call.said[n]
      BY <2>2
    <3>2. ToSet(call.said[n]) \subseteq ToSet(call.got.parts) /\ call.said[n] \in Seq(W)
      BY <1>1, <1>2, CallIs DEF NoneLost, Calls
    <3> HIDE DEF text, parts
    <3> QED BY <1>3, <3>1, <3>2
  <2> QED BY <2>1, <2>2
<1>5. call' = [call EXCEPT !.got = got, !.turn = after, !.shown = FALSE, !.tail = FALSE, !.said = spoken]
  <2>1. [UC!Flushed(call.got) EXCEPT !.ended = TRUE] = got
    BY CallIs DEF UC!Flushed, Heard
  <2>2. call' = [call EXCEPT !.got = [UC!Flushed(call.got) EXCEPT !.ended = TRUE], !.turn = after,
                             !.shown = FALSE, !.tail = FALSE, !.said = spoken]
    BY CallIs DEF UC!GeminiTurnEnds, Calls
  <2> HIDE DEF got, spoken, after
  <2> QED BY <2>1, <2>2
<1> HIDE DEF text
<1>6. spoken \in [1..MaxTurns -> Seq(W)] /\ spoken[n] = text
      /\ \A m \in 1..MaxTurns : m # n => spoken[m] = call.said[m]
  BY <1>2, <1>4, CallIs DEF Calls
<1> HIDE DEF parts, none, spoken
<1>7. got \in Heard(W) /\ got.parts = parts
  BY <1>3, CallIs DEF Heard
<1> HIDE DEF got, after
<1>8. call' \in Calls(W)
  BY <1>2, <1>5, <1>6, <1>7, CallIs DEF Calls
<1>9. /\ call'.utt = call.utt /\ call'.vendor = call.vendor /\ call'.answer = call.answer
      /\ call'.got = got /\ call'.said = spoken /\ call'.shown = FALSE /\ call'.tail = FALSE
  BY <1>5, CallIs DEF Calls
<1>10. \A m \in 1..MaxTurns : ToSet(spoken[m]) \subseteq ToSet(parts)
  BY <1>1, <1>3, <1>4, <1>6 DEF NoneLost
<1>11. NoneLost(call')
  BY <1>7, <1>9, <1>10 DEF NoneLost
<1> QED BY <1>1, <1>8, <1>9, <1>11, CallGoesOn

LEMMA CallFlushes == ASSUME CallKnows, UC!GeminiLastChunk PROVE CallKnows'
<1> DEFINE got == [call.got EXCEPT !.ended = FALSE]
<1>1. call.pc = "reading" /\ call.vendor = "gemini" /\ NoneLost(call)
  BY CallIs DEF UC!GeminiLastChunk, UC!LastChunk, UC!Read, UC!Is, HearsAll
<1>2. PICK more \in BOOLEAN :
        call' = [call EXCEPT !.flushed = TRUE, !.got = got, !.tail = more \/ call.shown]
  BY DEF UC!GeminiLastChunk, UC!LastChunk
<1> DEFINE tail == more \/ call.shown
<1>3. got \in Heard(Own(call.utt)) /\ got.parts = call.got.parts /\ got.interim = call.got.interim
      /\ got.ended = FALSE
  BY CallIs DEF Heard
<1>4. tail \in BOOLEAN
  BY CallIs DEF Calls
<1>5. call' = [call EXCEPT !.flushed = TRUE, !.got = got, !.tail = tail]
  BY <1>2
<1> HIDE DEF got, tail
<1>6. call' \in Calls(Own(call.utt))
  BY <1>3, <1>4, <1>5, CallIs DEF Calls
<1>7. /\ call'.utt = call.utt /\ call'.vendor = call.vendor /\ call'.answer = call.answer
      /\ call'.got = got /\ call'.said = call.said /\ call'.turn = call.turn /\ call'.shown = call.shown
  BY <1>5, CallIs DEF Calls
<1>8. NoneLost(call')
  BY <1>1, <1>3, <1>7 DEF NoneLost
<1> QED BY <1>1, <1>6, <1>7, <1>8, CallGoesOn

-----------------------------------------------------------------------------
(* OpenAI's kept socket answers the commits in their order. *)
LEMMA CallCompletes == ASSUME CallKnows, UC!OpenAICompleted PROVE CallKnows'
<1>1. PICK failed \in BOOLEAN :
        LET text == IF failed THEN <<>> ELSE <<UC!Start(Head(call.due)) + 1>> IN
        call' = [call EXCEPT !.pc = "idle", !.due = Tail(@),
                             !.answer = [utt |-> call.utt, text |-> text, words |-> <<>>,
                                         whole |-> ~failed]]
  BY DEF UC!OpenAICompleted
<1> DEFINE text == IF failed THEN <<>> ELSE <<UC!Start(Head(call.due)) + 1>>
           answer == [utt |-> call.utt, text |-> text, words |-> <<>>, whole |-> ~failed]
           due == Tail(call.due)
<1>2. call.pc = "reading" /\ call.vendor = "openai" /\ OneDue(call) /\ call.due # <<>> /\ call.due \in Seq(Nat)
  BY CallIs DEF UC!OpenAICompleted, UC!Read, UC!Is, Calls
<1>3. due \in Seq(Nat) /\ Head(call.due) \in Nat
  BY <1>2
<1>4. text \in Seq(Int)
  <2>1. UC!Start(Head(call.due)) \in Nat
    BY <1>3, StartIs
  <2> DEFINE word == UC!Start(Head(call.due)) + 1
  <2>2. word \in Int
    BY <2>1
  <2> HIDE DEF word
  <2>3. <<word>> \in Seq(Int) /\ <<>> \in Seq(Int)
    BY <2>2
  <2> QED BY <2>3 DEF word
<1>5. ~call.cut => due = <<>> /\ text \in Seq(Own(call.utt))
  <2> SUFFICES ASSUME ~call.cut PROVE due = <<>> /\ text \in Seq(Own(call.utt))
    OBVIOUS
  <2>1. call.due = <<call.utt>>
    BY <1>2 DEF OneDue
  <2>2. Head(call.due) = call.utt /\ due = <<>>
    BY <2>1
  <2>3. UC!Start(Head(call.due)) + 1 \in Own(call.utt)
    <3>1. 1 \in 1..(MaxTurns + 1)
      BY HeardAssumption
    <3> QED BY <2>2, <3>1, OwnWord, CallIs
  <2> DEFINE W == Own(call.utt)
             word == UC!Start(Head(call.due)) + 1
  <2>4. text = IF failed THEN <<>> ELSE <<word>>
    OBVIOUS
  <2>5. word \in W
    BY <2>3
  <2> HIDE DEF W, word, text, due
  <2>6. text \in Seq(W)
    BY <2>4, <2>5
  <2> QED BY <2>2, <2>6 DEF W
<1> HIDE DEF text
<1>6. answer \in Answers /\ answer.text = text /\ answer.utt = call.utt
  BY <1>4, CallIs DEF Answers
<1>7. call' = [call EXCEPT !.pc = "idle", !.due = due, !.answer = answer]
  BY <1>1, CallIs DEF text, Calls
<1> HIDE DEF answer, due
<1>8. call' \in Calls(Own(call.utt))
  BY <1>3, <1>6, <1>7, CallIs DEF Calls
<1>9. /\ call'.utt = call.utt /\ call'.vendor = "openai" /\ call'.answer = answer
      /\ call'.due = due /\ call'.cut = call.cut /\ call'.pc = "idle"
  BY <1>2, <1>7, CallIs DEF Calls
<1>10. HearsAll(call') /\ OneDue(call') /\ AnswerKept(call')
  BY <1>5, <1>6, <1>9 DEF HearsAll, OneDue, AnswerKept
<1> QED BY <1>8, <1>9, <1>10 DEF CallKnows, CallKept

LEMMA CallKeepsStep == ASSUME CallKnows, UC!CallNext PROVE CallKnows'
BY CallBegins, CallStops, CallHears, CallAnswers, CallShows, CallFinalizes, CallTurnEnds, CallFlushes,
   CallCompletes DEF UC!CallNext

(* What the books of a call promise of its answer. *)
LEMMA AnswerIsKept == ASSUME machine = "call" => CallKnows PROVE AnswerIsWhole
<1> SUFFICES ASSUME machine = "call", CallKnows PROVE AnswerIsWhole
  BY DEF AnswerIsWhole
<1>1. AnswerKept(call) /\ call.answer \in Answers
  BY CallIs
<1>2. call.vendor # "openai" /\ call.answer.whole => Tells(call, call.answer.text, call.answer.words)
  BY <1>1 DEF AnswerKept
<1>3. ASSUME call.vendor = "openai" => ~call.cut PROVE OwnWords
  <2>1. call.answer.text \in Seq(Own(call.answer.utt))
    BY <1>1, <1>3 DEF AnswerKept
  <2>2. ASSUME NEW t \in ToSet(call.answer.text) PROVE t \in Own(call.answer.utt)
    <3> DEFINE W == Own(call.answer.utt)
               text == call.answer.text
    <3>1. text \in Seq(W) /\ t \in ToSet(text)
      BY <2>1
    <3> HIDE DEF W, text
    <3>2. t \in W
      BY <3>1 DEF ToSet
    <3> QED BY <3>2 DEF W
  <2> QED BY <2>2 DEF OwnWords, Own
<1>4. CASE call.vendor = "gemini"
  BY <1>2, <1>3, <1>4 DEF Tells, AnswerIsWhole
<1>5. CASE call.vendor # "gemini"
  BY <1>2, <1>3, <1>5 DEF Tells, AnswerIsWhole
<1> QED BY <1>4, <1>5
=============================================================================
