----------------------------- MODULE LiveProofs -----------------------------
(***************************************************************************)
(* The theorems of the live path: first the stream, with its transcript    *)
(* rows, the markers it leaves, and what it owns up to having lost; then   *)
(* the router a streaming session is handed over to, with one alert for an *)
(* outage, and no utterance given up while there is somebody left to ask.  *)
(*                                                                         *)
(* None of the stream's looks beyond it: a step of the router or of the    *)
(* queue between the two leaves streamVars alone, so each invariant is     *)
(* kept by the stream's own steps (StreamNext), one lemma for each.        *)
(***************************************************************************)
EXTENDS LiveProps, SequenceTheorems, TLAPS

StreamNext == \/ Captures \/ CaptureDone \/ StreamWorks
              \/ Reading \/ VendorCloses \/ Cancelled

LEMMA StreamSteps == ASSUME [Next]_vars PROVE [StreamNext]_streamVars
  BY DEF Next, vars, StreamNext, FrameCaptured, CaptureEnds, LiveTask, PathWorks, PathReads,
         PathCut, HandsOff, Pulls, Discards, RouterStep, RouterCut, Ended

-----------------------------------------------------------------------------
(* Types, as far as the proofs use them. *)
StreamTypes ==
  /\ now \in Nat /\ stopped \in BOOLEAN /\ frames \in Seq(Nat)
  /\ t0 \in Nat /\ last \in Nat

(* A path that was cut does nothing any more but close its books. *)
CutLast == end \in {"cancelled", "torn"} => pc \in {"gap", "labels", "over"}

-----------------------------------------------------------------------------
(* Rows.  The book of open turns names each turn once and is never longer
   than its limit; the half-typed rows are those of its turns that were shown.
   A settled row belongs to a provider that was tried, to a connection it had,
   and on the current one to a turn that is closed. *)

OpenTurn == [ref : Turn, start : Nat, shown : BOOLEAN]
Distinct(ts) == \A i, j \in DOMAIN ts : ts[i].ref = ts[j].ref => i = j

BookOK ==
  /\ turns \in Seq(OpenTurn) /\ Len(turns) <= MaxOpenTurns /\ Distinct(turns)
  /\ turns # <<>> => \/ pc \in Connected \cup {"teardown"}
                     \/ pc = "gap" /\ end = "torn"

ShownAre == end # "torn" => interim = Settled(turns)

Untried(p) == \E i \in DOMAIN left : left[i] = p
Trying     == pc \in Streaming \cup {"retire", "alert"}

Untold ==
  /\ cur \in {Primary, Fallback} /\ gen \in Nat
  /\ left \in {<<Primary, Fallback>>, <<Primary>>, <<Fallback>>, <<>>}
  /\ Trying => ~Untried(cur)

RowsOK ==
  \A row \in final :
    /\ ~Untried(row[1])
    /\ Trying /\ row[1] = cur => row[2] \in 0 .. gen
    /\ pc \in Connected /\ row[1] = cur /\ row[2] = gen => row[3] \in closed

RowInv == BookOK /\ ShownAre /\ Untold /\ RowsOK

-----------------------------------------------------------------------------
(* Frames.  While there is a stream its queue ends with the frame captured
   last, then the sentinel; everything it holds is later than everything that
   was written. *)

Real == IF stopped THEN Len(frames) - 1 ELSE Len(frames)

QueueInv ==
  /\ Len(frames) <= QueueFrames
  /\ sent \subseteq 1 .. now
  /\ ~stopped => evicted = {}
  /\ pc \in Streaming =>
       /\ frames = <<>> => ~stopped \/ pc \in {"finish", "teardown"}
       /\ pc = "finish" => stopped /\ frames = <<>>
       /\ \A i \in DOMAIN frames :
            frames[i] = IF stopped /\ i = Len(frames) THEN STOP ELSE now - Real + i
       /\ Real <= now
       /\ \A k \in sent : k <= now - Real

(* Markers.  Each ends where a frame was written, before the gap that is open
   and before the first frame of the connection. *)
MarksOK ==
  /\ gap \in sent \cup {0}
  /\ \A m \in markers : /\ m \in Nat \X Nat /\ m[1] < m[2]
                        /\ m[2] \in sent \/ pc \in {"labels", "over"}
                        /\ gap # 0 => m[2] <= gap

HeardOK ==
  pc \in Connected =>
    /\ t0 = 0 => turns = <<>>
    /\ t0 # 0 => /\ gap = 0 /\ t0 \in sent /\ last \in sent /\ t0 <= last
                 /\ \A m \in markers : m[2] <= t0
                 /\ \A i \in DOMAIN turns : turns[i].start \in sent \cap (t0 .. last)

MarkInv == MarksOK /\ HeardOK /\ MarkersDisjoint

(* Losses.  As soon as anything was written, what was lost since is marked, or
   after the start of the open gap, or still in the queue, or the write that
   waits will find that the queue overflowed. *)
Fine(k) == k \in sent \cup evicted \/ Covered(k, markers)

Counting == end \notin {"cancelled", "torn"} /\ pc \notin {"labels", "over"} /\ sent # {}

LossGap  == gap # 0 /\ \A j \in sent : \A k \in j .. gap - 1 : Fine(k)
LossNone == /\ gap = 0 /\ stopped /\ frames = <<>> /\ pc \in {"finish", "teardown", "gap"}
            /\ \A j \in sent : \A k \in j .. now : Fine(k)
LossLive == /\ gap = 0 /\ pc \in {"recv", "send"} /\ t0 # 0
            /\ \A j \in sent : \A k \in j .. now :
                 Fine(k) \/ k > now - Real \/ (pc = "send" /\ stalled /\ k > last)

LossInv == Counting => LossGap \/ LossNone \/ LossLive

-----------------------------------------------------------------------------
(* Lemmas about the book of turns. *)

LEMMA SettledOne ==
  ASSUME NEW ts, NEW x
  PROVE  x \in Settled(ts) <=> \E i \in DOMAIN ts : ts[i].shown /\ x = <<cur, gen, ts[i].ref>>
  BY DEF Settled, Row

LEMMA SettledNone == Settled(<<>>) = {}
<1>1. DOMAIN <<>> = {}
  OBVIOUS
<1> QED BY <1>1 DEF Settled

(* What the limit of the book drops is its oldest turn, and its row with it. *)
LEMMA KeptBook ==
  ASSUME NEW ts \in Seq(OpenTurn), Distinct(ts), Len(ts) <= MaxOpenTurns + 1
  PROVE  /\ Kept(ts) \in Seq(OpenTurn) /\ Len(Kept(ts)) <= MaxOpenTurns
         /\ Distinct(Kept(ts))
         /\ Settled(Kept(ts)) = Settled(ts) \ Settled(Evicted(ts))
         /\ Settled(Evicted(ts)) \subseteq Settled(ts)
         /\ Evicted(ts) \in Seq(OpenTurn)
<1>1. MaxOpenTurns \in Nat \ {0}
  BY StreamAssumption
<1>2. CASE Len(ts) <= MaxOpenTurns
  <2>1. Kept(ts) = ts /\ Evicted(ts) = <<>>
    BY <1>1, <1>2 DEF Kept, Evicted
  <2> QED BY <2>1, <1>2, SettledNone
<1>3. CASE Len(ts) > MaxOpenTurns
  <2>1. Kept(ts) = Tail(ts) /\ Evicted(ts) = <<ts[1]>> /\ ts # <<>> /\ Len(ts) \in Nat
        /\ Head(ts) = ts[1] /\ 1 \in DOMAIN ts
    BY <1>1, <1>3 DEF Kept, Evicted
  <2>2. Tail(ts) \in Seq(OpenTurn) /\ Len(Tail(ts)) = Len(ts) - 1
        /\ DOMAIN Tail(ts) = 1 .. Len(ts) - 1 /\ DOMAIN ts = 1 .. Len(ts)
        /\ \A i \in 1 .. Len(ts) - 1 : Tail(ts)[i] = ts[i + 1]
    BY <2>1
  <2>3. Distinct(Tail(ts))
    BY <2>1, <2>2 DEF Distinct
  <2>4. \A x : x \in Settled(Evicted(ts)) <=> ts[1].shown /\ x = <<cur, gen, ts[1].ref>>
    <3>1. DOMAIN Evicted(ts) = {1} /\ Evicted(ts)[1] = ts[1]
      BY <2>1
    <3> QED BY <3>1, SettledOne
  <2>5. ASSUME NEW x PROVE x \in Settled(Kept(ts)) <=> x \in Settled(ts) \ Settled(Evicted(ts))
    <3>1. ASSUME x \in Settled(Kept(ts)) PROVE x \in Settled(ts) \ Settled(Evicted(ts))
      <4>0. x \in Settled(Tail(ts))
        BY <2>1, <3>1
      <4>1. PICK i \in DOMAIN Tail(ts) : Tail(ts)[i].shown /\ x = <<cur, gen, Tail(ts)[i].ref>>
        BY <4>0, SettledOne
      <4>2. i + 1 \in DOMAIN ts /\ Tail(ts)[i] = ts[i + 1] /\ i + 1 # 1
        BY <2>1, <2>2
      <4>3. ts[i + 1].ref # ts[1].ref
        BY <2>1, <4>2 DEF Distinct
      <4> QED BY <2>4, <4>1, <4>2, <4>3, SettledOne
    <3>2. ASSUME x \in Settled(ts), x \notin Settled(Evicted(ts)) PROVE x \in Settled(Kept(ts))
      <4>1. PICK i \in DOMAIN ts : ts[i].shown /\ x = <<cur, gen, ts[i].ref>>
        BY <3>2, SettledOne
      <4>2. i # 1
        BY <4>1, <3>2, <2>4
      <4>3. i - 1 \in 1 .. Len(ts) - 1 /\ (i - 1) + 1 = i
        BY <4>2, <2>1, <2>2
      <4>4. i - 1 \in DOMAIN Tail(ts) /\ Tail(ts)[i - 1] = ts[i]
        BY <4>3, <2>2
      <4> QED BY <2>1, <4>1, <4>4, SettledOne
    <3> QED BY <3>1, <3>2
  <2>6. Settled(Evicted(ts)) \subseteq Settled(ts)
    BY <2>1, <2>4, SettledOne
  <2>7. Evicted(ts) \in Seq(OpenTurn)
    BY <2>1
  <2>8. Len(Kept(ts)) <= MaxOpenTurns
    BY <1>1, <2>1, <2>2
  <2> QED BY <2>1, <2>2, <2>3, <2>5, <2>6, <2>7, <2>8
<1>4. Len(ts) \in Nat
  OBVIOUS
<1> QED BY <1>1, <1>2, <1>3, <1>4

(* A turn the vendor speaks of is in the book, new ones with nothing shown. *)
LEMMA WithBook ==
  ASSUME BookOK, NEW r \in Turn, NEW start \in Nat, NEW ts, ts = WithTurn(r, start)
  PROVE  /\ ts \in Seq(OpenTurn) /\ Len(ts) <= MaxOpenTurns + 1 /\ Distinct(ts)
         /\ Settled(ts) = Settled(turns)
         /\ \E i \in DOMAIN Kept(ts) : Kept(ts)[i].ref = r
         /\ \A i \in DOMAIN ts :
              (i \in DOMAIN turns /\ ts[i] = turns[i]) \/ ts[i].start = start
<1> DEFINE new == [ref |-> r, start |-> start, shown |-> FALSE]
<1>1. /\ turns \in Seq(OpenTurn) /\ Len(turns) \in Nat /\ Len(turns) <= MaxOpenTurns
      /\ DOMAIN turns = 1 .. Len(turns) /\ Distinct(turns) /\ MaxOpenTurns \in Nat \ {0}
  BY StreamAssumption DEF BookOK
<1>2. new \in OpenTurn /\ new.ref = r /\ new.start = start /\ new.shown = FALSE
  BY DEF OpenTurn
<1>3. CASE IsOpen(r)
  <2>1. ts = turns
    BY <1>3 DEF WithTurn
  <2>2. ~(Len(turns) > MaxOpenTurns)
    BY <1>1
  <2>3. Kept(ts) = turns
    BY <2>1, <2>2 DEF Kept
  <2>4. Len(ts) <= MaxOpenTurns + 1
    BY <1>1, <2>1
  <2> QED BY <1>1, <1>3, <2>1, <2>3, <2>4 DEF IsOpen
<1>4. CASE ~IsOpen(r)
  <2>1. ts = Append(turns, new)
    BY <1>4 DEF WithTurn
  <2> HIDE DEF new
  <2>2. /\ ts \in Seq(OpenTurn) /\ Len(ts) = Len(turns) + 1
        /\ DOMAIN ts = 1 .. Len(turns) + 1
        /\ \A i \in 1 .. Len(turns) : ts[i] = turns[i]
        /\ ts[Len(turns) + 1] = new
    BY <1>1, <1>2, <2>1
  <2>3. \A i \in 1 .. Len(turns) : turns[i].ref # r
    BY <1>1, <1>4 DEF IsOpen
  <2>4. Distinct(ts)
    <3>1. ASSUME NEW i \in DOMAIN ts, NEW j \in DOMAIN ts, ts[i].ref = ts[j].ref PROVE i = j
      <4>1. CASE i \in 1 .. Len(turns) /\ j \in 1 .. Len(turns)
        BY <1>1, <2>2, <3>1, <4>1 DEF Distinct
      <4>2. CASE i = Len(turns) + 1 \/ j = Len(turns) + 1
        BY <1>1, <1>2, <2>2, <2>3, <3>1, <4>2
      <4> QED BY <1>1, <2>2, <4>1, <4>2
    <3> QED BY <3>1 DEF Distinct
  <2>5. ASSUME NEW x PROVE x \in Settled(ts) <=> x \in Settled(turns)
    <3>1. ASSUME x \in Settled(ts) PROVE x \in Settled(turns)
      <4>1. PICK i \in DOMAIN ts : ts[i].shown /\ x = <<cur, gen, ts[i].ref>>
        BY <3>1, SettledOne
      <4>2. i # Len(turns) + 1
        BY <1>2, <2>2, <4>1
      <4>3. i \in DOMAIN turns /\ ts[i] = turns[i]
        BY <1>1, <2>2, <4>2
      <4> QED BY <4>1, <4>3, SettledOne
    <3>2. ASSUME x \in Settled(turns) PROVE x \in Settled(ts)
      <4>1. PICK i \in DOMAIN turns : turns[i].shown /\ x = <<cur, gen, turns[i].ref>>
        BY <3>2, SettledOne
      <4>2. i \in DOMAIN ts /\ ts[i] = turns[i]
        BY <1>1, <2>2
      <4> QED BY <4>1, <4>2, SettledOne
    <3> QED BY <3>1, <3>2
  <2>6. \E i \in DOMAIN Kept(ts) : Kept(ts)[i].ref = r
    <3>1. CASE Len(ts) > MaxOpenTurns
      <4>1. Kept(ts) = Tail(ts) /\ Len(turns) >= 1
        BY <1>1, <2>2, <3>1 DEF Kept
      <4>2. Len(turns) \in DOMAIN Tail(ts) /\ Tail(ts)[Len(turns)] = ts[Len(turns) + 1]
        BY <1>1, <2>2, <4>1
      <4> QED BY <1>2, <2>2, <4>1, <4>2
    <3>2. CASE ~(Len(ts) > MaxOpenTurns)
      BY <1>1, <1>2, <2>2, <3>2 DEF Kept
    <3> QED BY <3>1, <3>2
  <2>7. ASSUME NEW i \in DOMAIN ts
        PROVE  (i \in DOMAIN turns /\ ts[i] = turns[i]) \/ ts[i].start = start
    BY <1>1, <1>2, <2>2
  <2>8. Len(ts) <= MaxOpenTurns + 1
    BY <1>1, <2>2
  <2> QED BY <2>2, <2>4, <2>5, <2>6, <2>7, <2>8
<1> QED BY <1>3, <1>4

(* Closing a turn takes it, and it alone, out of the book. *)
LEMMA WithoutBook ==
  ASSUME BookOK, NEW r, NEW ts, ts = Without(r)
  PROVE  /\ ts \in Seq(OpenTurn) /\ Len(ts) <= MaxOpenTurns /\ Distinct(ts)
         /\ Settled(ts) = Settled(turns) \ {Row(r)}
         /\ turns = <<>> => ts = <<>>
         /\ \A i \in DOMAIN ts : \E k \in DOMAIN turns : k >= i /\ ts[i] = turns[k]
<1>1. /\ turns \in Seq(OpenTurn) /\ Len(turns) \in Nat /\ Len(turns) <= MaxOpenTurns
      /\ DOMAIN turns = 1 .. Len(turns) /\ Distinct(turns) /\ MaxOpenTurns \in Nat \ {0}
  BY StreamAssumption DEF BookOK
<1>2. CASE ~IsOpen(r)
  <2>1. ts = turns
    BY <1>2 DEF Without
  <2>2. Row(r) \notin Settled(turns)
    BY <1>2, SettledOne DEF IsOpen, Row
  <2> QED BY <1>1, <2>1, <2>2
<1>3. CASE IsOpen(r)
  <2>1. PICK n \in DOMAIN turns : ts = RemoveAt(turns, n) /\ turns[n].ref = r
    BY <1>3 DEF Without, IsOpen
  <2>2. n \in 1 .. Len(turns)
    BY <1>1
  <2>3. /\ ts \in Seq(OpenTurn) /\ Len(ts) = Len(turns) - 1 /\ DOMAIN ts = 1 .. Len(turns) - 1
        /\ \A i \in 1 .. Len(turns) - 1 : ts[i] = turns[IF i < n THEN i ELSE i + 1]
    <3> DEFINE a == SubSeq(turns, 1, n - 1)
               b == SubSeq(turns, n + 1, Len(turns))
    <3>1. a \in Seq(OpenTurn) /\ Len(a) = n - 1 /\ \A i \in 1 .. n - 1 : a[i] = turns[i]
      BY <1>1, <2>2
    <3>2. /\ b \in Seq(OpenTurn) /\ Len(b) = Len(turns) - n
          /\ \A i \in 1 .. Len(turns) - n : b[i] = turns[n + i]
      BY <1>1, <2>2
    <3>3. ts = a \o b
      BY <2>1 DEF RemoveAt
    <3> HIDE DEF a, b
    <3>c. /\ ts \in Seq(OpenTurn) /\ Len(ts) = Len(a) + Len(b)
          /\ \A i \in 1 .. Len(a) + Len(b) : ts[i] = IF i <= Len(a) THEN a[i] ELSE b[i - Len(a)]
      BY <3>1, <3>2, <3>3, ConcatProperties
    <3>4. ts \in Seq(OpenTurn) /\ Len(ts) = Len(turns) - 1 /\ DOMAIN ts = 1 .. Len(turns) - 1
      BY <1>1, <2>2, <3>1, <3>2, <3>c
    <3>5. ASSUME NEW i \in 1 .. Len(turns) - 1
          PROVE  ts[i] = turns[IF i < n THEN i ELSE i + 1]
      <4>1. CASE i < n
        <5>1. ts[i] = a[i]
          BY <1>1, <2>2, <3>1, <3>2, <3>c, <4>1
        <5> QED BY <2>2, <3>1, <4>1, <5>1
      <4>2. CASE ~(i < n)
        <5>1. ts[i] = b[i - (n - 1)]
          BY <1>1, <2>2, <3>1, <3>2, <3>c, <4>2
        <5>2. i - (n - 1) \in 1 .. Len(turns) - n /\ n + (i - (n - 1)) = i + 1
          BY <1>1, <2>2, <4>2
        <5> QED BY <3>2, <4>2, <5>1, <5>2
      <4> QED BY <4>1, <4>2
    <3> QED BY <3>4, <3>5
  <2>4. Distinct(ts)
    <3>1. ASSUME NEW i \in DOMAIN ts, NEW j \in DOMAIN ts, ts[i].ref = ts[j].ref PROVE i = j
      <4> DEFINE at(k) == IF k < n THEN k ELSE k + 1
      <4>1. at(i) \in DOMAIN turns /\ at(j) \in DOMAIN turns
            /\ ts[i] = turns[at(i)] /\ ts[j] = turns[at(j)]
        BY <1>1, <2>2, <2>3
      <4>2. at(i) = at(j)
        <5> HIDE DEF at
        <5> QED BY <1>1, <3>1, <4>1 DEF Distinct
      <4> QED BY <1>1, <2>2, <2>3, <4>2
    <3> QED BY <3>1 DEF Distinct
  <2>5. ASSUME NEW i \in DOMAIN ts
        PROVE  \E k \in DOMAIN turns : k >= i /\ k # n /\ ts[i] = turns[k]
    BY <1>1, <2>2, <2>3
  <2>6. ASSUME NEW x PROVE x \in Settled(ts) <=> x \in Settled(turns) \ {Row(r)}
    <3>1. ASSUME x \in Settled(ts) PROVE x \in Settled(turns) /\ x # Row(r)
      <4>1. PICK i \in DOMAIN ts : ts[i].shown /\ x = <<cur, gen, ts[i].ref>>
        BY <3>1, SettledOne
      <4>2. PICK k \in DOMAIN turns : k # n /\ ts[i] = turns[k]
        BY <2>5
      <4>3. turns[k].ref # r
        BY <1>1, <2>1, <4>2 DEF Distinct
      <4> QED BY <4>1, <4>2, <4>3, SettledOne DEF Row
    <3>2. ASSUME x \in Settled(turns), x # Row(r) PROVE x \in Settled(ts)
      <4>1. PICK k \in DOMAIN turns : turns[k].shown /\ x = <<cur, gen, turns[k].ref>>
        BY <3>2, SettledOne
      <4>2. k # n
        BY <2>1, <3>2, <4>1 DEF Row
      <4>3. \E i \in DOMAIN ts : ts[i] = turns[k]
        <5>1. CASE k < n
          BY <1>1, <2>2, <2>3, <5>1
        <5>2. CASE k > n
          <6>1. k - 1 \in DOMAIN ts /\ ts[k - 1] = turns[k]
            BY <1>1, <2>2, <2>3, <5>2
          <6> QED BY <6>1
        <5> QED BY <1>1, <4>2, <5>1, <5>2
      <4> QED BY <4>1, <4>3, SettledOne
    <3> QED BY <3>1, <3>2
  <2> QED BY <1>1, <2>2, <2>3, <2>4, <2>5, <2>6
<1> QED BY <1>2, <1>3

-----------------------------------------------------------------------------
(* Every step keeps the types. *)

LEMMA PushedTypes ==
  ASSUME StreamTypes, NEW x \in Nat
  PROVE  Pushed(x) \in Seq(Nat)
<1>1. QueueFrames \in Nat \ {0} /\ frames \in Seq(Nat)
  BY StreamAssumption DEF StreamTypes
<1>2. CASE Len(frames) >= QueueFrames
  <2>1. frames # <<>>
    BY <1>1, <1>2
  <2>2. Tail(frames) \in Seq(Nat)
    BY <1>1, <2>1
  <2> QED BY <1>2, <2>2 DEF Pushed
<1>3. CASE ~(Len(frames) >= QueueFrames)
  BY <1>1, <1>3 DEF Pushed
<1> QED BY <1>2, <1>3

LEMMA TypesCapture == ASSUME StreamTypes, Captures \/ CaptureDone PROVE StreamTypes'
<1>1. CASE Captures
  <2>1. now + 1 \in Nat /\ now' = now + 1 /\ UNCHANGED <<stopped, t0, last>>
    BY <1>1 DEF Captures, StreamTypes
  <2>2. Pushed(now') \in Seq(Nat)
    BY <2>1, PushedTypes
  <2>3. frames' \in Seq(Nat)
    BY <1>1, <2>2 DEF Captures, StreamTypes
  <2> QED BY <2>1, <2>3 DEF StreamTypes
<1>2. CASE CaptureDone
  <2>1. Pushed(STOP) \in Seq(Nat)
    BY PushedTypes DEF STOP
  <2>2. frames' \in Seq(Nat)
    BY <1>2, <2>1 DEF CaptureDone, StreamTypes
  <2> QED BY <1>2, <2>2 DEF CaptureDone, StreamTypes, connVars
<1> QED BY <1>1, <1>2

LEMMA TypesWork == ASSUME StreamTypes, StreamWorks PROVE StreamTypes'
<1>1. CASE Picks BY <1>1 DEF Picks, NoStream, StreamTypes
<1>2. CASE OpenFails \/ OpenUnsupported
  BY <1>2 DEF OpenFails, OpenUnsupported, StreamTypes, connVars, feedVars
<1>3. CASE Opened
  <2>1. SubSeq(frames, Len(frames) - KeepFrames + 1, Len(frames)) \in Seq(Nat)
        \/ ~(Len(frames) > KeepFrames)
    BY StreamAssumption DEF StreamTypes
  <2>2. frames' \in Seq(Nat)
    BY <1>3, <2>1 DEF Opened, StreamTypes
  <2> QED BY <1>3, <2>2 DEF Opened, StreamTypes
<1>4. CASE Slept BY <1>4 DEF Slept, StreamTypes, connVars, feedVars
<1>5. CASE TakesDead \/ TakesStop
  <2>1. frames # <<>> /\ frames' = Tail(frames) /\ UNCHANGED <<now, stopped, t0, last>>
    BY <1>5 DEF TakesDead, TakesStop, connVars
  <2>2. Tail(frames) \in Seq(Nat)
    BY <2>1 DEF StreamTypes
  <2> QED BY <2>1, <2>2 DEF StreamTypes
<1>6. CASE Takes
  <2>1. frames # <<>> /\ Head(frames) \in Nat /\ Tail(frames) \in Seq(Nat)
    BY <1>6 DEF Takes, StreamTypes
  <2> QED BY <1>6, <2>1 DEF Takes, StreamTypes
<1>7. CASE Written \/ ConnectionLost \/ Finished
  BY <1>7 DEF Written, ConnectionLost, Finished, StreamTypes, connVars, feedVars
<1>8. CASE TornDown \/ Alerted \/ Labelled
  BY <1>8 DEF TornDown, Alerted, Labelled, StreamTypes, connVars, feedVars
<1>9. CASE Retires
  BY <1>9 DEF Retires, StreamTypes, connVars
<1>10. CASE ClosesGap
  BY <1>10 DEF ClosesGap, NoStream, StreamTypes
<1> QED
  BY <1>1, <1>2, <1>3, <1>4, <1>5, <1>6, <1>7, <1>8, <1>9, <1>10
  DEF StreamWorks, Connecting, Sending, Leaving

LEMMA TypesStep == ASSUME StreamTypes, [StreamNext]_streamVars PROVE StreamTypes'
<1>1. CASE Captures \/ CaptureDone BY <1>1, TypesCapture
<1>2. CASE StreamWorks BY <1>2, TypesWork
<1>3. CASE Reading
  BY <1>3 DEF Reading, TurnStarts, TurnGrows, TurnCloses, ReaderFrame, StreamTypes, feedVars
<1>4. CASE VendorCloses \/ Cancelled
  BY <1>4 DEF VendorCloses, Cancelled, StreamTypes, feedVars
<1>5. CASE UNCHANGED streamVars
  BY <1>5 DEF streamVars, StreamTypes, connVars, feedVars
<1> QED BY <1>1, <1>2, <1>3, <1>4, <1>5 DEF StreamNext

LEMMA CutStep == ASSUME CutLast, [StreamNext]_streamVars PROVE CutLast'
<1>1. CASE Captures \/ CaptureDone
  BY <1>1 DEF Captures, CaptureDone, CutLast, pathVars
<1>2. CASE StreamWorks
  <2>1. CASE Picks BY <2>1 DEF Picks, CutLast
  <2>2. CASE Connecting
    BY <2>2 DEF Connecting, OpenFails, OpenUnsupported, Opened, CutLast, Attempted
  <2>3. CASE Slept BY <2>3 DEF Slept, CutLast
  <2>4. CASE Sending
    BY <2>4 DEF Sending, TakesDead, Takes, Written, ConnectionLost, TakesStop, Finished, CutLast
  <2>5. CASE Leaving
    BY <2>5 DEF Leaving, TornDown, Retires, Alerted, ClosesGap, Labelled, CutLast, Attempted
  <2> QED BY <1>2, <2>1, <2>2, <2>3, <2>4, <2>5 DEF StreamWorks
<1>3. CASE Reading \/ VendorCloses
  BY <1>3 DEF Reading, TurnStarts, TurnGrows, TurnCloses, ReaderFrame, VendorCloses, CutLast,
              pathVars
<1>4. CASE Cancelled
  BY <1>4 DEF Cancelled, CutLast
<1>5. CASE UNCHANGED streamVars
  BY <1>5 DEF streamVars, pathVars, CutLast
<1> QED BY <1>1, <1>2, <1>3, <1>4, <1>5 DEF StreamNext

-----------------------------------------------------------------------------
(* Every step keeps the rows. *)

(* A step that leaves the book and the rows alone, and only moves on where the
   path awaits. *)
LEMMA RowsMove ==
  ASSUME RowInv, UNCHANGED <<turns, closed, interim, final, cur, gen, left>>,
         \/ pc' = pc /\ end' = end
         \/ /\ turns # <<>> => pc' \in Connected \cup {"teardown"}
            /\ end' # "torn" => end # "torn"
            /\ Trying' => Trying
            /\ pc' \in Connected => pc \in Connected
  PROVE  RowInv'
<1>1. Settled(turns)' = Settled(turns)
  BY DEF Settled, Row
<1>2. ASSUME NEW p PROVE Untried(p)' <=> Untried(p)
  BY DEF Untried
<1>3. BookOK'
  BY DEF RowInv, BookOK, Distinct
<1>4. ShownAre'
  BY <1>1 DEF RowInv, ShownAre
<1>5. Trying' => Trying
  BY DEF Trying
<1>6. pc' \in Connected => pc \in Connected
  OBVIOUS
<1>7. Untold'
  BY <1>2, <1>5 DEF RowInv, Untold
<1>8. RowsOK'
  BY <1>2, <1>5, <1>6 DEF RowInv, RowsOK
<1> QED BY <1>3, <1>4, <1>7, <1>8 DEF RowInv

(* A book that is closed, with its rows settled: what is left of a connection. *)
LEMMA RowsSettle ==
  ASSUME RowInv, SettleOpen, UNCHANGED <<cur, gen, left, closed>>, pc' \notin Connected,
         Trying' => Trying, Trying, end # "torn"
  PROVE  RowInv'
<1>1. turns' = <<>> /\ interim' = {} /\ final' = final \cup Settled(turns)
  BY DEF SettleOpen, RowInv, ShownAre
<1>2. Settled(turns)' = {}
  BY <1>1 DEF Settled
<1>3. ASSUME NEW p PROVE Untried(p)' <=> Untried(p)
  BY DEF Untried
<1>4. <<>> \in Seq(OpenTurn) /\ Len(<<>>) = 0 /\ DOMAIN <<>> = {}
  OBVIOUS
<1>5. 0 <= MaxOpenTurns
  BY StreamAssumption
<1>6. BookOK'
  BY <1>1, <1>4, <1>5 DEF BookOK, Distinct
<1>7. ShownAre'
  BY <1>1, <1>2 DEF ShownAre
<1>8. Untold'
  BY <1>3 DEF RowInv, Untold
<1>9. RowsOK'
  <2>1. ASSUME NEW row \in final' PROVE ~Untried(row[1]) /\ (row[1] = cur => row[2] \in 0 .. gen)
    <3>1. CASE row \in final
      BY <3>1 DEF RowInv, RowsOK
    <3>2. CASE row \in Settled(turns)
      <4>1. row[1] = cur /\ row[2] = gen
        BY <3>2, SettledOne
      <4> QED BY <4>1 DEF RowInv, Untold
    <3> QED BY <1>1, <2>1, <3>1, <3>2
  <2> QED BY <1>3, <2>1 DEF RowsOK
<1> QED BY <1>6, <1>7, <1>8, <1>9 DEF RowInv

(* The next provider has no row yet, for it was not tried before. *)
LEMMA RowsPick == ASSUME RowInv, CutLast, Picks PROVE RowInv'
<1>1. turns = <<>> /\ turns' = <<>> /\ gen' = 0 /\ pc = "pick" /\ UNCHANGED <<interim, final>>
  BY DEF Picks, NoStream, rowVars, RowInv, BookOK, Connected
<1>2. Settled(turns) = {} /\ Settled(turns)' = {}
  BY <1>1 DEF Settled
<1>3. BookOK'
  BY <1>1 DEF RowInv, BookOK, Distinct
<1>4. ShownAre'
  <2>1. end # "torn"
    BY <1>1 DEF CutLast
  <2> QED BY <1>1, <1>2, <2>1 DEF RowInv, ShownAre
<1>5. CASE left = <<>> \/ stopped
  <2>1. UNCHANGED <<left, cur>> /\ pc' = "gap"
    BY <1>5 DEF Picks
  <2>2. ASSUME NEW p PROVE Untried(p)' <=> Untried(p)
    BY <2>1 DEF Untried
  <2>3. ~Trying' /\ pc' \notin Connected
    BY <2>1 DEF Trying, Streaming, Connected
  <2>4. Untold'
    BY <1>1, <2>1, <2>3 DEF RowInv, Untold
  <2>5. RowsOK'
    BY <1>1, <2>2, <2>3 DEF RowInv, RowsOK
  <2> QED BY <1>3, <1>4, <2>4, <2>5 DEF RowInv
<1>6. CASE left # <<>> /\ ~stopped
  <2>1. cur' = Head(left) /\ left' = Tail(left) /\ pc' = "open"
    BY <1>6 DEF Picks
  <2>2. PICK p \in {Primary, Fallback} : p = Head(left)
    <3>1. Head(<<Primary, Fallback>>) = Primary /\ Head(<<Primary>>) = Primary
          /\ Head(<<Fallback>>) = Fallback
      OBVIOUS
    <3> QED BY <1>6, <3>1 DEF RowInv, Untold
  <2>3. left' \in {<<Fallback>>, <<>>} /\ (left' = <<Fallback>> => p = Primary)
    <3>1. Tail(<<Primary, Fallback>>) = <<Fallback>> /\ Tail(<<Primary>>) = <<>>
          /\ Tail(<<Fallback>>) = <<>> /\ Head(<<Primary, Fallback>>) = Primary
          /\ <<Fallback>> # <<>>
      OBVIOUS
    <3> QED BY <1>6, <2>1, <2>2, <3>1 DEF RowInv, Untold
  <2>4. Untried(p) /\ \A q : Untried(q)' => Untried(q)
    <3>1. left = <<p>> \o left'
      BY <1>6, <2>1, <2>2 DEF RowInv, Untold
    <3>2. Len(left) = 1 + Len(left') /\ left[1] = p /\ DOMAIN left = 1 .. Len(left)
          /\ DOMAIN left' = 1 .. Len(left') /\ Len(left') \in Nat
          /\ \A i \in DOMAIN left' : left[i + 1] = left'[i]
      BY <2>3, <3>1
    <3> QED BY <3>2 DEF Untried
  <2>5. ~Untried(p)'
    BY <2>3, StreamAssumption DEF Untried
  <2>6. cur' = p
    BY <2>1, <2>2
  <2>7. Untold'
    BY <1>1, <2>2, <2>3, <2>5, <2>6 DEF Untold
  <2>8. ASSUME NEW row \in final PROVE row[1] # p /\ ~Untried(row[1])'
    BY <2>4 DEF RowInv, RowsOK
  <2>9. RowsOK'
    BY <1>1, <2>6, <2>8 DEF RowsOK
  <2> QED BY <1>3, <1>4, <2>7, <2>9 DEF RowInv
<1> QED BY <1>5, <1>6

(* A provider that falls back to calls leaves nobody to try. *)
LEMMA RowsUnsupported == ASSUME RowInv, OpenUnsupported PROVE RowInv'
<1>1. pc = "open" /\ turns = <<>> /\ end' = end
      /\ UNCHANGED <<turns, closed, interim, final, cur, gen>>
  BY DEF OpenUnsupported, connVars, rowVars, RowInv, BookOK, Connected
<1>2. CASE shape[cur] = "both"
  <2>1. left' = <<>> /\ pc' = "pick"
    BY <1>2 DEF OpenUnsupported
  <2>2. \A p : ~Untried(p)'
    BY <2>1 DEF Untried
  <2>3. ~Trying' /\ pc' \notin Connected
    BY <2>1 DEF Trying, Streaming, Connected
  <2>4. Settled(turns)' = Settled(turns)
    BY <1>1 DEF Settled, Row
  <2>5. BookOK' /\ ShownAre'
    BY <1>1, <2>4 DEF RowInv, BookOK, Distinct, ShownAre
  <2>6. Untold' /\ RowsOK'
    BY <1>1, <2>1, <2>2, <2>3 DEF RowInv, Untold, RowsOK
  <2> QED BY <2>5, <2>6 DEF RowInv
<1>3. CASE shape[cur] # "both"
  <2>1. pc' = "retire" /\ UNCHANGED left
    BY <1>3 DEF OpenUnsupported
  <2> QED BY <1>1, <2>1, RowsMove DEF Trying, Streaming, Connected
<1> QED BY <1>2, <1>3

(* A new connection has a number of its own. *)
LEMMA RowsOpened == ASSUME RowInv, Opened PROVE RowInv'
<1>1. /\ pc = "open" /\ pc' = "recv" /\ turns = <<>> /\ turns' = <<>> /\ gen' = gen + 1
      /\ UNCHANGED <<left, cur, end, interim, final>>
  BY DEF Opened, rowVars, RowInv, BookOK, Connected
<1>2. Settled(turns) = {} /\ Settled(turns)' = {}
  BY <1>1 DEF Settled
<1>3. ASSUME NEW p PROVE Untried(p)' <=> Untried(p)
  BY <1>1 DEF Untried
<1>4. Trying /\ Trying'
  BY <1>1 DEF Trying, Streaming, Connected
<1>5. BookOK' /\ ShownAre'
  BY <1>1, <1>2 DEF RowInv, BookOK, Distinct, ShownAre
<1>6. Untold'
  BY <1>1, <1>3, <1>4 DEF RowInv, Untold
<1>7. ASSUME NEW row \in final, row[1] = cur PROVE row[2] \in 0 .. gen + 1 /\ row[2] # gen + 1
  BY <1>4, <1>7 DEF RowInv, RowsOK, Untold
<1>8. RowsOK'
  BY <1>1, <1>3, <1>4, <1>7 DEF RowInv, RowsOK
<1> QED BY <1>5, <1>6, <1>8 DEF RowInv

(* What the reader's steps leave alone. *)
LEMMA ReaderKeeps ==
  ASSUME ReaderFrame, Hearing
  PROVE  /\ UNCHANGED <<pc, left, cur, end, gen>>
         /\ pc \in Connected /\ Trying /\ Trying' /\ pc' \in Connected
         /\ \A p : Untried(p)' <=> Untried(p)
  BY DEF ReaderFrame, Hearing, pathVars, Trying, Streaming, Untried

(* Rows that are added for turns of this connection, which are then closed. *)
LEMMA RowsAdd ==
  ASSUME RowInv, Trying, UNCHANGED <<pc, cur, gen>>, \A p : Untried(p)' <=> Untried(p),
         closed \subseteq closed', Trying',
         \A row \in final' : row \in final \/ \E r \in closed' : row = <<cur, gen, r>>
  PROVE  RowsOK'
<1>1. ASSUME NEW row \in final', NEW r \in closed', row = <<cur, gen, r>>
      PROVE  ~Untried(row[1])' /\ row[2] \in 0 .. gen' /\ row[3] \in closed'
  BY <1>1 DEF RowInv, Untold
<1>2. ASSUME NEW row \in final
      PROVE  /\ ~Untried(row[1])' /\ (row[1] = cur => row[2] \in 0 .. gen')
             /\ pc \in Connected /\ row[1] = cur /\ row[2] = gen => row[3] \in closed'
  BY <1>2 DEF RowInv, RowsOK
<1> QED BY <1>1, <1>2 DEF RowsOK

LEMMA EvictedClosed ==
  ASSUME NEW ts, NEW row \in Settled(Evicted(ts))
  PROVE  \E t \in Range(Evicted(ts)) : row = <<cur, gen, t.ref>>
<1>1. PICK i \in DOMAIN Evicted(ts) : row = <<cur, gen, Evicted(ts)[i].ref>>
  BY SettledOne
<1>2. Evicted(ts)[i] \in Range(Evicted(ts))
  BY DEF Range
<1> QED BY <1>1, <1>2

LEMMA RowsStart ==
  ASSUME RowInv, StreamTypes, NEW r \in Turn, TurnStarts(r)
  PROVE  RowInv' /\ final \subseteq final'
<1>1. ReaderFrame /\ Hearing
  BY DEF TurnStarts
<1>2. /\ UNCHANGED <<pc, left, cur, end, gen>> /\ pc \in Connected /\ Trying /\ Trying'
      /\ pc' \in Connected /\ \A p : Untried(p)' <=> Untried(p)
  BY <1>1, ReaderKeeps
<1>3. PICK start \in {t0, last} :
        /\ turns' = Kept(WithTurn(r, start))
        /\ closed' = closed \cup {t.ref : t \in Range(Evicted(WithTurn(r, start)))}
        /\ final' = final \cup Settled(Evicted(WithTurn(r, start)))
        /\ interim' = interim \ Settled(Evicted(WithTurn(r, start)))
  BY DEF TurnStarts
<1>4. PICK ts : ts = WithTurn(r, start)
  OBVIOUS
<1>5. start \in Nat /\ BookOK
  BY DEF StreamTypes, RowInv
<1>6. /\ ts \in Seq(OpenTurn) /\ Len(ts) <= MaxOpenTurns + 1 /\ Distinct(ts)
      /\ Settled(ts) = Settled(turns)
  BY <1>4, <1>5, WithBook
<1>7. /\ Kept(ts) \in Seq(OpenTurn) /\ Len(Kept(ts)) <= MaxOpenTurns /\ Distinct(Kept(ts))
      /\ Settled(Kept(ts)) = Settled(ts) \ Settled(Evicted(ts))
  BY <1>6, KeptBook
<1>8. turns' = Kept(ts) /\ Settled(turns)' = Settled(Kept(ts))
  BY <1>2, <1>3, <1>4 DEF Settled, Row
<1>9. BookOK'
  BY <1>2, <1>7, <1>8 DEF BookOK, Distinct
<1>10. ShownAre'
  BY <1>2, <1>3, <1>4, <1>6, <1>7, <1>8 DEF RowInv, ShownAre
<1>11. Untold'
  BY <1>2 DEF RowInv, Untold
<1>12. ASSUME NEW row \in final' PROVE row \in final \/ \E q \in closed' : row = <<cur, gen, q>>
  BY <1>3, <1>4, EvictedClosed
<1>13. RowsOK'
  BY <1>2, <1>3, <1>12, RowsAdd
<1> QED BY <1>3, <1>9, <1>10, <1>11, <1>13 DEF RowInv

(* An open turn grows: its row is a half-typed one, and was never settled. *)
LEMMA RowsGrow ==
  ASSUME RowInv, StreamTypes, NEW r \in Turn, TurnGrows(r)
  PROVE  RowInv' /\ final \subseteq final'
<1>1. ReaderFrame /\ Hearing /\ r \notin closed
  BY DEF TurnGrows
<1>2. /\ UNCHANGED <<pc, left, cur, end, gen>> /\ pc \in Connected /\ Trying /\ Trying'
      /\ pc' \in Connected /\ \A p : Untried(p)' <=> Untried(p)
  BY <1>1, ReaderKeeps
<1>0. PICK shows \in BOOLEAN : \E ts, kept, gone :
        /\ ts = WithTurn(r, last) /\ kept = Kept(ts) /\ gone = Settled(Evicted(ts))
        /\ turns' = [i \in DOMAIN kept |->
                        [kept[i] EXCEPT !.shown = @ \/ (shows /\ kept[i].ref = r)]]
        /\ closed' = closed \cup {t.ref : t \in Range(Evicted(ts))}
        /\ final' = (final \cup gone) \ (IF shows THEN {Row(r)} ELSE {})
        /\ interim' = (interim \ gone) \cup (IF shows THEN {Row(r)} ELSE {})
  BY DEF TurnGrows
<1>3. PICK ts, kept, gone :
        /\ ts = WithTurn(r, last) /\ kept = Kept(ts) /\ gone = Settled(Evicted(ts))
        /\ turns' = [i \in DOMAIN kept |->
                        [kept[i] EXCEPT !.shown = @ \/ (shows /\ kept[i].ref = r)]]
        /\ closed' = closed \cup {t.ref : t \in Range(Evicted(ts))}
        /\ final' = (final \cup gone) \ (IF shows THEN {Row(r)} ELSE {})
        /\ interim' = (interim \ gone) \cup (IF shows THEN {Row(r)} ELSE {})
  BY <1>0
<1>4. last \in Nat /\ BookOK
  BY DEF StreamTypes, RowInv
<1>5. /\ ts \in Seq(OpenTurn) /\ Len(ts) <= MaxOpenTurns + 1 /\ Distinct(ts)
      /\ Settled(ts) = Settled(turns) /\ \E i \in DOMAIN kept : kept[i].ref = r
  BY <1>3, <1>4, WithBook
<1>6. /\ kept \in Seq(OpenTurn) /\ Len(kept) <= MaxOpenTurns /\ Distinct(kept)
      /\ Settled(kept) = Settled(ts) \ gone
  BY <1>3, <1>5, KeptBook
<1> DEFINE new(i) == [kept[i] EXCEPT !.shown = @ \/ (shows /\ kept[i].ref = r)]
<1>7. ASSUME NEW i \in DOMAIN kept
      PROVE  /\ new(i) \in OpenTurn /\ new(i).ref = kept[i].ref
             /\ new(i).shown <=> kept[i].shown \/ (shows /\ kept[i].ref = r)
  <2>1. kept[i] \in OpenTurn
    BY <1>6
  <2> QED BY <2>1 DEF OpenTurn
<1>8. turns' = [i \in DOMAIN kept |-> new(i)]
  BY <1>3
<1> HIDE DEF new
<1>9. turns' \in Seq(OpenTurn) /\ Len(turns') = Len(kept) /\ DOMAIN turns' = DOMAIN kept
      /\ \A i \in DOMAIN kept : turns'[i] = new(i)
  <2>1. DOMAIN kept = 1 .. Len(kept) /\ Len(kept) \in Nat
    BY <1>6
  <2>2. turns' \in [1 .. Len(kept) -> OpenTurn]
    BY <1>7, <1>8, <2>1
  <2> QED BY <1>8, <2>1, <2>2
<1>10. BookOK'
  <2>1. Distinct(turns)'
    BY <1>6, <1>7, <1>9 DEF Distinct
  <2> QED BY <1>2, <1>6, <1>9, <2>1 DEF BookOK
<1>11. ASSUME NEW x
       PROVE  x \in Settled(turns)' <=> x \in Settled(kept) \/ (shows /\ x = Row(r))
  <2>1. x \in Settled(turns)' <=> \E i \in DOMAIN kept : new(i).shown /\ x = <<cur, gen, new(i).ref>>
    BY <1>2, <1>9 DEF Settled, Row
  <2>2. ASSUME NEW i \in DOMAIN kept, new(i).shown, x = <<cur, gen, new(i).ref>>
        PROVE  x \in Settled(kept) \/ (shows /\ x = Row(r))
    BY <1>7, <2>2, SettledOne DEF Row
  <2>3. ASSUME x \in Settled(kept)
        PROVE  \E i \in DOMAIN kept : new(i).shown /\ x = <<cur, gen, new(i).ref>>
    <3>1. PICK i \in DOMAIN kept : kept[i].shown /\ x = <<cur, gen, kept[i].ref>>
      BY <2>3, SettledOne
    <3> QED BY <1>7, <3>1
  <2>4. ASSUME shows, x = Row(r)
        PROVE  \E i \in DOMAIN kept : new(i).shown /\ x = <<cur, gen, new(i).ref>>
    <3>1. PICK i \in DOMAIN kept : kept[i].ref = r
      BY <1>5
    <3> QED BY <1>7, <2>4, <3>1 DEF Row
  <2> QED BY <2>1, <2>2, <2>3, <2>4
<1>12. ShownAre'
  BY <1>2, <1>3, <1>5, <1>6, <1>11 DEF RowInv, ShownAre
<1>13. Untold'
  BY <1>2 DEF RowInv, Untold
<1>14. ASSUME NEW row \in final' PROVE row \in final \/ \E q \in closed' : row = <<cur, gen, q>>
  BY <1>3, EvictedClosed
<1>15. RowsOK'
  BY <1>2, <1>3, <1>14, RowsAdd
<1>16. Row(r) \notin final
  BY <1>1, <1>2 DEF Row, RowInv, RowsOK
<1> QED BY <1>3, <1>10, <1>12, <1>13, <1>15, <1>16 DEF RowInv

LEMMA RowsClose ==
  ASSUME RowInv, NEW r \in Turn, TurnCloses(r)
  PROVE  RowInv' /\ final \subseteq final'
<1>1. ReaderFrame /\ Hearing
  BY DEF TurnCloses
<1>2. /\ UNCHANGED <<pc, left, cur, end, gen>> /\ pc \in Connected /\ Trying /\ Trying'
      /\ pc' \in Connected /\ \A p : Untried(p)' <=> Untried(p)
  BY <1>1, ReaderKeeps
<1>3. PICK ts : ts = Without(r)
  OBVIOUS
<1>4. /\ ts \in Seq(OpenTurn) /\ Len(ts) <= MaxOpenTurns /\ Distinct(ts)
      /\ Settled(ts) = Settled(turns) \ {Row(r)}
  BY <1>3, WithoutBook DEF RowInv
<1>5. turns' = ts /\ Settled(turns)' = Settled(ts) /\ closed' = closed \cup {r}
  BY <1>2, <1>3 DEF TurnCloses, Settled, Row
<1>6. BookOK'
  BY <1>2, <1>4, <1>5 DEF BookOK, Distinct
<1>7. \/ final' = final \cup {Row(r)} /\ interim' = interim \ {Row(r)}
      \/ UNCHANGED rowVars /\ Row(r) \notin Settled(turns)
  <2>1. CASE UNCHANGED rowVars /\ ~\E i \in DOMAIN turns : turns[i].ref = r /\ turns[i].shown
    <3>1. Row(r) \notin Settled(turns)
      BY <2>1, SettledOne DEF Row
    <3> QED BY <2>1, <3>1
  <2> QED BY <2>1 DEF TurnCloses
<1>8. ShownAre'
  BY <1>2, <1>4, <1>5, <1>7 DEF RowInv, ShownAre, rowVars
<1>9. Untold'
  BY <1>2 DEF RowInv, Untold
<1>10. ASSUME NEW row \in final' PROVE row \in final \/ \E q \in closed' : row = <<cur, gen, q>>
  BY <1>5, <1>7 DEF Row, rowVars
<1>11. RowsOK'
  BY <1>2, <1>5, <1>10, RowsAdd
<1> QED BY <1>6, <1>7, <1>8, <1>9, <1>11 DEF RowInv, rowVars

LEMMA RowsTorn == ASSUME RowInv, CutLast, TornDown PROVE RowInv'
<1>1. /\ pc = "teardown" /\ SettleOpen /\ UNCHANGED <<cur, gen, left, closed>>
      /\ pc' \in {"gap", "retire", "sleep"}
  BY DEF TornDown, Attempted
<1>2. Trying /\ pc' \notin Connected /\ end # "torn"
  BY <1>1 DEF Trying, Streaming, Connected, CutLast
<1> QED BY <1>1, <1>2, RowsSettle

(* Nothing is open when the path closes its books, save after a cancellation
   that met the teardown. *)
LEMMA RowsGap == ASSUME RowInv, CutLast, ClosesGap PROVE RowInv'
<1>1. /\ pc = "gap" /\ pc' = "labels" /\ turns' = <<>> /\ gen' = 0
      /\ UNCHANGED <<left, cur, end, interim, final>>
  BY DEF ClosesGap, NoStream, rowVars
<1>2. ~Trying' /\ pc' \notin Connected
  BY <1>1 DEF Trying, Streaming, Connected
<1>3. \A p : Untried(p)' <=> Untried(p)
  BY <1>1 DEF Untried
<1>4. Settled(turns)' = {} /\ (turns = <<>> => Settled(turns) = {})
  BY <1>1 DEF Settled
<1>5. end # "torn" => turns = <<>>
  BY <1>1 DEF RowInv, BookOK, Connected
<1>6. BookOK'
  <2>1. <<>> \in Seq(OpenTurn) /\ Len(<<>>) = 0 /\ DOMAIN <<>> = {} /\ 0 <= MaxOpenTurns
    BY StreamAssumption
  <2> QED BY <1>1, <2>1 DEF BookOK, Distinct
<1>7. ShownAre'
  BY <1>1, <1>4, <1>5 DEF RowInv, ShownAre
<1>8. Untold' /\ RowsOK'
  BY <1>1, <1>2, <1>3 DEF RowInv, Untold, RowsOK
<1> QED BY <1>6, <1>7, <1>8 DEF RowInv

LEMMA RowsCancel == ASSUME RowInv, CutLast, Cancelled PROVE RowInv'
<1>1. UNCHANGED <<cur, gen, left, closed>> /\ end # "torn" /\ pc' \in {"gap", "over"}
  BY DEF Cancelled
<1>2. ~Trying' /\ pc' \notin Connected
  BY <1>1 DEF Trying, Streaming, Connected
<1>3. CASE pc \in Connected
  <2>1. SettleOpen /\ Trying
    BY <1>3 DEF Cancelled, Trying, Streaming
  <2> QED BY <1>1, <1>2, <2>1, RowsSettle
<1>4. CASE pc = "teardown"
  <2>1. end' = "torn" /\ pc' = "gap" /\ UNCHANGED <<turns, interim, final>>
    BY <1>4 DEF Cancelled, rowVars, Connected
  <2>2. \A p : Untried(p)' <=> Untried(p)
    BY <1>1 DEF Untried
  <2>3. BookOK' /\ ShownAre'
    BY <2>1 DEF RowInv, BookOK, Distinct, ShownAre
  <2>4. Untold' /\ RowsOK'
    BY <1>1, <1>2, <2>1, <2>2 DEF RowInv, Untold, RowsOK
  <2> QED BY <2>3, <2>4 DEF RowInv
<1>5. CASE pc \notin Connected \cup {"teardown"}
  <2>1. UNCHANGED <<turns, interim, final>> /\ turns = <<>>
    BY <1>1, <1>5 DEF Cancelled, rowVars, RowInv, BookOK
  <2> QED BY <1>1, <1>2, <2>1, RowsMove
<1> QED BY <1>3, <1>4, <1>5

LEMMA RowsStep == ASSUME RowInv, CutLast, StreamTypes, [StreamNext]_streamVars PROVE RowInv'
<1> USE DEF pathVars, connVars, rowVars
<1>1. CASE Captures \/ CaptureDone \/ VendorCloses
  BY <1>1, RowsMove DEF Captures, CaptureDone, VendorCloses
<1>2. CASE StreamWorks
  <2>0. pc \notin Connected \cup {"teardown"} /\ pc # "gap" => turns = <<>>
    BY DEF RowInv, BookOK
  <2> USE DEF Trying, Streaming, Connected
  <2>1. CASE Picks BY <2>1, RowsPick
  <2>2. CASE OpenFails
    BY <2>0, <2>2, RowsMove DEF OpenFails, Attempted
  <2>3. CASE OpenUnsupported BY <2>3, RowsUnsupported
  <2>4. CASE Opened BY <2>4, RowsOpened
  <2>5. CASE Slept
    <3>1. CASE stopped
      BY <2>0, <2>5, <3>1, RowsMove DEF Slept, CutLast
    <3>2. CASE ~stopped
      BY <2>0, <2>5, <3>2, RowsMove DEF Slept
    <3> QED BY <3>1, <3>2
  <2>6. CASE TakesDead BY <2>6, RowsMove DEF TakesDead
  <2>7. CASE Takes BY <2>7, RowsMove DEF Takes
  <2>8. CASE Written BY <2>8, RowsMove DEF Written
  <2>9. CASE ConnectionLost BY <2>9, RowsMove DEF ConnectionLost
  <2>10. CASE TakesStop BY <2>10, RowsMove DEF TakesStop
  <2>11. CASE Finished BY <2>11, RowsMove DEF Finished
  <2>12. CASE TornDown BY <2>12, RowsTorn
  <2>13. CASE Retires BY <2>0, <2>13, RowsMove DEF Retires
  <2>14. CASE Alerted BY <2>0, <2>14, RowsMove DEF Alerted
  <2>15. CASE ClosesGap BY <2>15, RowsGap
  <2>16. CASE Labelled BY <2>0, <2>16, RowsMove DEF Labelled
  <2> QED
    BY <1>2, <2>1, <2>2, <2>3, <2>4, <2>5, <2>6, <2>7, <2>8, <2>9, <2>10, <2>11, <2>12,
       <2>13, <2>14, <2>15, <2>16
    DEF StreamWorks, Connecting, Sending, Leaving
<1>3. CASE Reading BY <1>3, RowsStart, RowsGrow, RowsClose DEF Reading
<1>4. CASE Cancelled BY <1>4, RowsCancel
<1>5. CASE UNCHANGED streamVars
  BY <1>5, RowsMove DEF streamVars
<1> QED BY <1>1, <1>2, <1>3, <1>4, <1>5 DEF StreamNext

LEMMA RowsInit == ASSUME Init PROVE RowInv /\ CutLast /\ StreamTypes
<1>1. StreamInit
  BY DEF Init
<1>2. Settled(turns) = {} /\ turns = <<>> /\ pc = "pick"
  BY <1>1, SettledNone DEF StreamInit
<1>3. ~Trying
  BY <1>2 DEF Trying, Streaming, Connected
<1>4. <<>> \in Seq(OpenTurn) /\ Len(<<>>) = 0 /\ DOMAIN <<>> = {} /\ 0 <= MaxOpenTurns
      /\ <<>> \in Seq(Nat)
  BY StreamAssumption
<1>5. BookOK /\ ShownAre
  BY <1>1, <1>2, <1>4 DEF BookOK, Distinct, ShownAre, StreamInit
<1>6. Untold /\ RowsOK
  BY <1>1, <1>3 DEF Untold, RowsOK, StreamInit
<1>7. StreamTypes /\ CutLast
  BY <1>1, <1>4 DEF StreamTypes, CutLast, StreamInit
<1> QED BY <1>5, <1>6, <1>7 DEF RowInv

-----------------------------------------------------------------------------
(* Every step keeps the queue. *)

(* A full queue drops its oldest entry for the new one. *)
Drop == IF Len(frames) = QueueFrames THEN 1 ELSE 0

PushedOn(x, fs) ==
  /\ fs \in Seq(Nat) /\ Len(fs) = Len(frames) - Drop + 1 /\ Len(fs) <= QueueFrames
  /\ fs[Len(fs)] = x
  /\ \A i \in 1 .. Len(fs) - 1 : i + Drop \in 1 .. Len(frames) /\ fs[i] = frames[i + Drop]

LEMMA PushedQueue ==
  ASSUME NEW x \in Nat, NEW fs, fs = Pushed(x), StreamTypes, Len(frames) <= QueueFrames
  PROVE  PushedOn(x, fs)
<1> USE DEF PushedOn
<1>1. QueueFrames \in Nat \ {0} /\ frames \in Seq(Nat) /\ Len(frames) \in Nat
  BY StreamAssumption DEF StreamTypes
<1>2. CASE Len(frames) = QueueFrames
  <2>1. Drop = 1 /\ fs = Append(Tail(frames), x) /\ frames # <<>>
    BY <1>1, <1>2 DEF Drop, Pushed
  <2>2. Tail(frames) \in Seq(Nat) /\ Len(Tail(frames)) = Len(frames) - 1
        /\ \A i \in 1 .. Len(frames) - 1 : Tail(frames)[i] = frames[i + 1]
    BY <1>1, <2>1
  <2>3. fs \in Seq(Nat) /\ Len(fs) = Len(frames) /\ fs[Len(fs)] = x
        /\ \A i \in 1 .. Len(frames) - 1 : fs[i] = Tail(frames)[i]
    BY <1>1, <2>1, <2>2
  <2> QED BY <1>1, <1>2, <2>1, <2>2, <2>3
<1>3. CASE Len(frames) < QueueFrames
  <2>1. Drop = 0 /\ fs = Append(frames, x)
    BY <1>1, <1>3 DEF Drop, Pushed
  <2>2. fs \in Seq(Nat) /\ Len(fs) = Len(frames) + 1 /\ fs[Len(fs)] = x
        /\ \A i \in 1 .. Len(frames) : fs[i] = frames[i]
    BY <1>1, <2>1
  <2> QED BY <1>1, <1>3, <2>1, <2>2
<1> QED BY <1>1, <1>2, <1>3

LEMMA QueueCapture == ASSUME QueueInv, StreamTypes, Captures PROVE QueueInv'
<1>1. /\ ~stopped /\ stopped' = stopped /\ now' = now + 1 /\ now \in Nat /\ pc' = pc
      /\ UNCHANGED <<evicted, sent>> /\ frames \in Seq(Nat) /\ Len(frames) \in Nat
      /\ now + 1 \in Nat
  BY DEF Captures, StreamTypes, pathVars
<1>2. CASE pc \notin Streaming
  <2>1. frames' = frames
    BY <1>2 DEF Captures
  <2> QED BY <1>1, <1>2, <2>1 DEF QueueInv
<1>3. CASE pc \in Streaming
  <2>1. PICK fs : fs = Pushed(now + 1)
    OBVIOUS
  <2>2. frames' = fs
    BY <1>1, <1>3, <2>1 DEF Captures
  <2>3. /\ fs \in Seq(Nat) /\ Len(fs) = Len(frames) - Drop + 1 /\ Len(fs) <= QueueFrames
        /\ fs[Len(fs)] = now + 1
        /\ \A i \in 1 .. Len(fs) - 1 : i + Drop \in 1 .. Len(frames) /\ fs[i] = frames[i + Drop]
    <3>1. Len(frames) <= QueueFrames
      BY DEF QueueInv
    <3>2. now + 1 \in Nat
      BY <1>1
    <3>3. PushedOn(now + 1, fs)
      BY <2>1, <3>1, <3>2, PushedQueue
    <3> QED BY <3>3 DEF PushedOn
  <2>4. Drop \in {0, 1} /\ Len(fs) \in Nat /\ DOMAIN fs = 1 .. Len(fs)
        /\ (Drop = 1 => Len(frames) > 0)
    BY <2>3, StreamAssumption DEF Drop
  <2>5. /\ \A i \in DOMAIN frames : frames[i] = now - Len(frames) + i
        /\ Len(frames) <= now /\ \A k \in sent : k <= now - Len(frames)
        /\ pc # "finish" /\ sent \subseteq 1 .. now /\ evicted = {}
    BY <1>1, <1>3 DEF QueueInv, Real
  <2>6. Real' = Len(fs)
    BY <1>1, <2>2 DEF Real
  <2>7. ASSUME NEW i \in DOMAIN fs PROVE fs[i] = now + 1 - Len(fs) + i
    <3>1. CASE i = Len(fs)
      BY <1>1, <2>3, <2>4, <3>1
    <3>2. CASE i # Len(fs)
      <4>1. i \in 1 .. Len(fs) - 1
        BY <2>4, <3>2
      <4>2. fs[i] = frames[i + Drop] /\ i + Drop \in DOMAIN frames
        BY <1>1, <2>3, <4>1
      <4>3. fs[i] = now - Len(frames) + (i + Drop)
        BY <2>5, <4>2
      <4> QED BY <1>1, <2>3, <2>4, <4>1, <4>3
    <3> QED BY <3>1, <3>2
  <2>8. ASSUME NEW k \in sent PROVE k \in 1 .. now + 1 /\ k <= now + 1 - Len(fs)
    BY <1>1, <2>3, <2>4, <2>5
  <2>9. Len(fs) <= now + 1 /\ fs # <<>>
    BY <1>1, <2>3, <2>4, <2>5
  <2> QED BY <1>1, <2>2, <2>3, <2>5, <2>6, <2>7, <2>8, <2>9 DEF QueueInv
<1> QED BY <1>2, <1>3

LEMMA QueueDone ==
  ASSUME QueueInv, StreamTypes, CaptureDone
  PROVE  /\ QueueInv'
         /\ pc \in Streaming => /\ Real' = Len(frames) - Drop /\ Real = Len(frames)
                                /\ Drop = 1 => evicted' = {now - Len(frames) + 1}
<1>1. /\ ~stopped /\ stopped' /\ stopped' \in BOOLEAN /\ now' = now /\ now \in Nat /\ pc' = pc
      /\ sent' = sent /\ frames \in Seq(Nat) /\ Len(frames) \in Nat
  BY DEF CaptureDone, StreamTypes, pathVars
<1>2. CASE pc \notin Streaming
  <2>1. frames' = frames
    BY <1>2 DEF CaptureDone
  <2> QED BY <1>1, <1>2, <2>1 DEF QueueInv
<1>3. CASE pc \in Streaming
  <2>1. PICK fs : fs = Pushed(STOP)
    OBVIOUS
  <2>2. frames' = fs /\ STOP \in Nat
    BY <1>3, <2>1 DEF CaptureDone, STOP
  <2>3. /\ fs \in Seq(Nat) /\ Len(fs) = Len(frames) - Drop + 1 /\ Len(fs) <= QueueFrames
        /\ fs[Len(fs)] = STOP
        /\ \A i \in 1 .. Len(fs) - 1 : i + Drop \in 1 .. Len(frames) /\ fs[i] = frames[i + Drop]
    <3>1. Len(frames) <= QueueFrames
      BY DEF QueueInv
    <3>2. PushedOn(STOP, fs)
      BY <2>1, <2>2, <3>1, PushedQueue
    <3> QED BY <3>2 DEF PushedOn
  <2>4. Drop \in {0, 1} /\ Len(fs) \in Nat /\ DOMAIN fs = 1 .. Len(fs)
        /\ (Drop = 1 => Len(frames) > 0)
    BY <2>3, StreamAssumption DEF Drop
  <2>5. /\ \A i \in DOMAIN frames : frames[i] = now - Len(frames) + i
        /\ Len(frames) <= now /\ \A k \in sent : k <= now - Len(frames)
        /\ pc # "finish" /\ sent \subseteq 1 .. now /\ evicted = {} /\ Real = Len(frames)
    BY <1>1, <1>3 DEF QueueInv, Real
  <2>6. Real' = Len(frames) - Drop
    BY <1>1, <2>2, <2>3, <2>4 DEF Real
  <2>7. ASSUME NEW i \in DOMAIN fs
        PROVE  fs[i] = IF i = Len(fs) THEN STOP ELSE now - (Len(frames) - Drop) + i
    <3>1. CASE i = Len(fs)
      BY <2>3, <3>1
    <3>2. CASE i # Len(fs)
      <4>1. i \in 1 .. Len(fs) - 1
        BY <2>4, <3>2
      <4>2. fs[i] = frames[i + Drop] /\ i + Drop \in DOMAIN frames
        BY <1>1, <2>3, <4>1
      <4>3. fs[i] = now - Len(frames) + (i + Drop)
        BY <2>5, <4>2
      <4> QED BY <1>1, <2>3, <2>4, <3>2, <4>1, <4>3
    <3> QED BY <3>1, <3>2
  <2>8. ASSUME NEW k \in sent PROVE k <= now - (Len(frames) - Drop)
    BY <1>1, <2>3, <2>4, <2>5
  <2>9. Len(frames) - Drop <= now /\ fs # <<>>
    BY <1>1, <2>3, <2>4, <2>5
  <2>10. Drop = 1 => evicted' = {now - Len(frames) + 1}
    <3>1. ASSUME Drop = 1 PROVE evicted' = {Head(frames)} /\ frames # <<>> /\ 1 \in DOMAIN frames
      BY <1>1, <1>3, <2>4, <3>1 DEF CaptureDone, Drop
    <3> QED BY <1>1, <2>5, <3>1
  <2> QED BY <1>1, <2>2, <2>3, <2>5, <2>6, <2>7, <2>8, <2>9, <2>10 DEF QueueInv
<1> QED BY <1>2, <1>3

(* A step that leaves the queue alone, and only moves on where the path
   awaits. *)
LEMMA QueueMoves ==
  ASSUME QueueInv, UNCHANGED <<now, stopped, frames, sent, evicted>>,
         pc' \in Streaming => pc \in Streaming,
         pc' \in Streaming /\ pc \in {"finish", "teardown"} /\ stopped
           => pc' \in {"finish", "teardown"},
         pc' = "finish" => pc = "finish"
  PROVE  QueueInv'
<1>1. Real' = Real
  BY DEF Real
<1> QED BY <1>1 DEF QueueInv

(* The frame at the head, and what is behind it. *)
QueueHead ==
  /\ Real >= 1 /\ Head(frames) = now - Real + 1 /\ Head(frames) \in 1 .. now
  /\ Tail(frames) \in Seq(Nat) /\ Len(Tail(frames)) = Len(frames) - 1
  /\ \A i \in 1 .. Len(frames) - 1 : Tail(frames)[i] =
       IF stopped /\ i = Len(frames) - 1 THEN STOP ELSE now - (Real - 1) + i
  /\ stopped => Len(frames) >= 2

LEMMA QueueHeads ==
  ASSUME QueueInv, StreamTypes, pc = "recv", frames # <<>>, Head(frames) # STOP
  PROVE  QueueHead
<1>1. /\ frames \in Seq(Nat) /\ Len(frames) \in Nat /\ Len(frames) >= 1 /\ now \in Nat
      /\ Head(frames) = frames[1] /\ DOMAIN frames = 1 .. Len(frames) /\ pc \in Streaming
      /\ stopped \in BOOLEAN
  BY DEF StreamTypes, Streaming, Connected
<1>2. /\ \A i \in DOMAIN frames :
           frames[i] = IF stopped /\ i = Len(frames) THEN STOP ELSE now - Real + i
      /\ Real <= now
  BY <1>1 DEF QueueInv
<1>3. ~(stopped /\ 1 = Len(frames)) /\ frames[1] = now - Real + 1
  BY <1>1, <1>2
<1>4. Real \in Int /\ Real >= 1
  BY <1>1, <1>3 DEF Real
<1>5. /\ Tail(frames) \in Seq(Nat) /\ Len(Tail(frames)) = Len(frames) - 1
      /\ \A i \in 1 .. Len(frames) - 1 : Tail(frames)[i] = frames[i + 1]
  BY <1>1
<1>6. ASSUME NEW i \in 1 .. Len(frames) - 1
      PROVE  Tail(frames)[i] = IF stopped /\ i = Len(frames) - 1 THEN STOP ELSE now - (Real - 1) + i
  <2>1. i + 1 \in DOMAIN frames /\ Tail(frames)[i] = frames[i + 1]
    BY <1>1, <1>5
  <2>2. frames[i + 1] = IF stopped /\ i + 1 = Len(frames) THEN STOP ELSE now - Real + (i + 1)
    BY <1>2, <2>1
  <2>3. (i + 1 = Len(frames) <=> i = Len(frames) - 1)
        /\ now - Real + (i + 1) = now - (Real - 1) + i
    BY <1>1, <1>4
  <2> QED BY <2>1, <2>2, <2>3
<1>7. stopped => Len(frames) >= 2
  BY <1>1, <1>3
<1>8. Head(frames) = now - Real + 1 /\ Head(frames) \in 1 .. now
  BY <1>1, <1>2, <1>3, <1>4
<1> QED BY <1>4, <1>5, <1>6, <1>7, <1>8 DEF QueueHead

LEMMA QueueTakes ==
  ASSUME QueueInv, StreamTypes, TakesDead \/ Takes
  PROVE  /\ QueueInv' /\ Real' = Real - 1 /\ Real >= 1
         /\ Head(frames) = now - Real + 1 /\ Head(frames) \in 1 .. now
<1>1. /\ pc = "recv" /\ frames # <<>> /\ Head(frames) # STOP /\ frames' = Tail(frames)
      /\ pc' \in {"send", "teardown"} /\ UNCHANGED <<now, stopped, evicted>>
      /\ sent' \in {sent, sent \cup {Head(frames)}}
  BY DEF TakesDead, Takes
<1>2. QueueHead
  BY <1>1, QueueHeads
<1>3. /\ now \in Nat /\ Len(frames) \in Nat /\ stopped \in BOOLEAN /\ pc \in Streaming
      /\ pc' \in Streaming /\ pc' # "finish" /\ Real \in Int /\ QueueFrames \in Nat
  BY <1>1, StreamAssumption DEF StreamTypes, Streaming, Connected, Real
<1>4. /\ Real >= 1 /\ Head(frames) = now - Real + 1 /\ Head(frames) \in 1 .. now
      /\ frames' \in Seq(Nat) /\ Len(frames') = Len(frames) - 1
      /\ (stopped => Len(frames) >= 2)
  BY <1>1, <1>2 DEF QueueHead
<1>5. Real' = Real - 1
  BY <1>1, <1>3, <1>4 DEF Real
<1>6. /\ sent \subseteq 1 .. now /\ Real <= now /\ (~stopped => evicted = {})
      /\ \A k \in sent : k <= now - Real
      /\ Len(frames) <= QueueFrames
  BY <1>3 DEF QueueInv
<1>7. Len(frames') <= QueueFrames /\ DOMAIN frames' = 1 .. Len(frames) - 1
  BY <1>3, <1>4, <1>6
<1>8. ASSUME NEW k \in sent' PROVE k \in 1 .. now' /\ k <= now' - Real'
  <2>1. CASE k \in sent
    BY <1>1, <1>3, <1>5, <1>6, <2>1
  <2>2. CASE k = Head(frames)
    BY <1>1, <1>3, <1>4, <1>5, <2>2
  <2> QED BY <1>1, <2>1, <2>2
<1>9. ASSUME NEW i \in DOMAIN frames'
      PROVE  frames'[i] = IF stopped' /\ i = Len(frames') THEN STOP ELSE now' - Real' + i
  <2>1. i \in 1 .. Len(frames) - 1
    BY <1>7
  <2>2. Tail(frames)[i]
          = IF stopped /\ i = Len(frames) - 1 THEN STOP ELSE now - (Real - 1) + i
    BY <1>2, <2>1 DEF QueueHead
  <2> QED BY <1>1, <1>4, <1>5, <2>2
<1>10. (frames' = <<>> => ~stopped') /\ Real' <= now'
  <2>1. frames' = <<>> => Len(frames') = 0
    OBVIOUS
  <2> QED BY <1>1, <1>3, <1>4, <1>5, <1>6, <2>1
<1>11. sent' \subseteq 1 .. now' /\ (~stopped' => evicted' = {})
  BY <1>1, <1>6, <1>8
<1>12. QueueInv'
  BY <1>1, <1>3, <1>5, <1>7, <1>8, <1>9, <1>10, <1>11 DEF QueueInv
<1> QED BY <1>4, <1>5, <1>12

(* The sentinel is the last thing in the queue. *)
LEMMA QueueStop ==
  ASSUME QueueInv, StreamTypes, TakesStop
  PROVE  QueueInv' /\ frames' = <<>> /\ stopped /\ Real = 0
<1>1. /\ pc = "recv" /\ frames # <<>> /\ Head(frames) = STOP /\ frames' = Tail(frames)
      /\ pc' \in {"finish", "teardown"} /\ UNCHANGED <<now, stopped, evicted, sent>>
  BY DEF TakesStop
<1>2. /\ frames \in Seq(Nat) /\ Len(frames) \in Nat /\ Len(frames) >= 1 /\ now \in Nat
      /\ Head(frames) = frames[1] /\ DOMAIN frames = 1 .. Len(frames) /\ pc \in Streaming
      /\ pc' \in Streaming /\ stopped \in BOOLEAN
  BY <1>1 DEF StreamTypes, Streaming, Connected
<1>3. /\ \A i \in DOMAIN frames :
           frames[i] = IF stopped /\ i = Len(frames) THEN STOP ELSE now - Real + i
      /\ Real <= now /\ Real \in Int
  BY <1>2 DEF QueueInv, Real
<1>4. stopped /\ Len(frames) = 1
  BY <1>1, <1>2, <1>3 DEF STOP
<1>5. frames' = <<>> /\ Len(frames') = 0 /\ DOMAIN frames' = {} /\ QueueFrames \in Nat
  BY <1>1, <1>2, <1>4, StreamAssumption
<1>6. Real' = 0 - 1 /\ Real = 0
  BY <1>1, <1>2, <1>4, <1>5 DEF Real
<1>7. \A k \in sent : k \in 1 .. now
  BY DEF QueueInv
<1>8. Real' <= now' /\ sent' \subseteq 1 .. now' /\ \A k \in sent' : k <= now' - Real'
  BY <1>1, <1>2, <1>6, <1>7
<1>9. Len(frames') <= QueueFrames /\ stopped'
  BY <1>1, <1>4, <1>5
<1> QED BY <1>1, <1>4, <1>5, <1>6, <1>8, <1>9 DEF QueueInv

(* A stream that is dropped, or whose queue is. *)
LEMMA QueueEmpties ==
  ASSUME QueueInv, StreamTypes, frames' = <<>>, UNCHANGED <<now, stopped, sent, evicted>>,
         pc' \in Streaming => ~stopped /\ pc' # "finish"
  PROVE  QueueInv'
<1>1. Len(frames') = 0 /\ DOMAIN frames' = {} /\ QueueFrames \in Nat /\ now \in Nat
  BY StreamAssumption DEF StreamTypes
<1>2. \A k \in sent : k \in 1 .. now
  BY DEF QueueInv
<1>3. ~stopped => Real' = 0
  BY <1>1 DEF Real
<1>4. ~stopped => \A k \in sent' : k <= now' - Real'
  BY <1>1, <1>2, <1>3
<1> QED BY <1>1, <1>2, <1>3, <1>4 DEF QueueInv

(* A new connection keeps the tail of what was captured meanwhile. *)
LEMMA QueueOpened == ASSUME QueueInv, StreamTypes, Opened PROVE QueueInv'
<1>1. /\ pc = "open" /\ pc' = "recv" /\ UNCHANGED <<now, stopped, sent, evicted>>
      /\ pc \in Streaming /\ pc' \in Streaming
  BY DEF Opened, Streaming, Connected
<1>2. /\ frames \in Seq(Nat) /\ Len(frames) \in Nat /\ now \in Nat /\ stopped \in BOOLEAN
      /\ DOMAIN frames = 1 .. Len(frames) /\ KeepFrames \in Nat \ {0}
  BY StreamAssumption DEF StreamTypes
<1>3. /\ \A i \in DOMAIN frames :
           frames[i] = IF stopped /\ i = Len(frames) THEN STOP ELSE now - Real + i
      /\ Real <= now /\ Real \in Int /\ (frames = <<>> => ~stopped)
      /\ sent \subseteq 1 .. now /\ (\A k \in sent : k <= now - Real)
      /\ (~stopped => evicted = {}) /\ Len(frames) <= QueueFrames
  BY <1>1, <1>2 DEF QueueInv, Real
<1>4. CASE Len(frames) > KeepFrames
  <2> DEFINE n == Len(frames)
             fs == SubSeq(frames, n - KeepFrames + 1, n)
  <2>1. frames' = fs
    BY <1>4 DEF Opened
  <2>2. /\ fs \in Seq(Nat) /\ Len(fs) = KeepFrames /\ DOMAIN fs = 1 .. KeepFrames
        /\ \A i \in 1 .. KeepFrames : fs[i] = frames[n - KeepFrames + i]
    BY <1>2, <1>4
  <2> HIDE DEF fs
  <2>3. Real' = Real - (n - KeepFrames)
    BY <1>1, <1>2, <2>1, <2>2 DEF Real
  <2>4. ASSUME NEW i \in 1 .. KeepFrames
        PROVE  fs[i] = IF stopped /\ i = KeepFrames THEN STOP ELSE now - (Real - (n - KeepFrames)) + i
    <3>1. n - KeepFrames + i \in DOMAIN frames /\ fs[i] = frames[n - KeepFrames + i]
      BY <1>2, <1>4, <2>2
    <3>2. frames[n - KeepFrames + i]
            = IF stopped /\ n - KeepFrames + i = n THEN STOP ELSE now - Real + (n - KeepFrames + i)
      BY <1>3, <3>1
    <3> QED BY <1>2, <1>3, <3>1, <3>2
  <2>5. \A k \in sent : k <= now - (Real - (n - KeepFrames))
    BY <1>2, <1>3, <1>4
  <2>6. fs # <<>> /\ Real - (n - KeepFrames) <= now /\ KeepFrames <= QueueFrames
    BY <1>2, <1>3, <1>4, <2>2, StreamAssumption
  <2>7. \A i \in DOMAIN frames' :
          frames'[i] = IF stopped' /\ i = Len(frames') THEN STOP ELSE now' - Real' + i
    BY <1>1, <2>1, <2>2, <2>3, <2>4
  <2> HIDE DEF n
  <2> QED BY <1>1, <1>3, <2>1, <2>2, <2>3, <2>5, <2>6, <2>7 DEF QueueInv
<1>5. CASE ~(Len(frames) > KeepFrames)
  <2>1. frames' = frames
    BY <1>5 DEF Opened
  <2> QED BY <1>1, <2>1, QueueMoves
<1> QED BY <1>4, <1>5

LEMMA QueueStep == ASSUME QueueInv, StreamTypes, [StreamNext]_streamVars PROVE QueueInv'
<1> USE DEF feedVars
<1>1. CASE Captures BY <1>1, QueueCapture
<1>2. CASE CaptureDone BY <1>2, QueueDone
<1>3. CASE StreamWorks
  <2> USE DEF Streaming, Connected
  <2>1. CASE Picks BY <2>1, QueueEmpties DEF Picks, NoStream
  <2>2. CASE OpenFails BY <2>2, QueueMoves DEF OpenFails, Attempted
  <2>3. CASE OpenUnsupported
    <3>1. pc = "open" /\ pc' \in {"pick", "retire"}
          /\ UNCHANGED <<now, stopped, frames, sent, evicted>>
      BY <2>3 DEF OpenUnsupported
    <3> QED BY <3>1, QueueMoves
  <2>4. CASE Opened BY <2>4, QueueOpened
  <2>5. CASE Slept
    <3>1. pc = "sleep" /\ pc' \in {"gap", "open"}
          /\ UNCHANGED <<now, stopped, frames, sent, evicted>>
      BY <2>5 DEF Slept
    <3> QED BY <3>1, QueueMoves
  <2>6. CASE TakesDead \/ Takes BY <2>6, QueueTakes
  <2>7. CASE Written
    <3>1. pc = "send" /\ pc' = "recv" /\ UNCHANGED <<now, stopped, frames, sent, evicted>>
      BY <2>7 DEF Written
    <3> QED BY <3>1, QueueMoves
  <2>8. CASE ConnectionLost
    <3>1. pc = "send" /\ pc' = "teardown" /\ UNCHANGED <<now, stopped, frames, sent, evicted>>
      BY <2>8 DEF ConnectionLost
    <3> QED BY <3>1, QueueMoves
  <2>9. CASE TakesStop BY <2>9, QueueStop
  <2>10. CASE Finished BY <2>10, QueueMoves DEF Finished
  <2>11. CASE TornDown
    <3>1. pc = "teardown" /\ pc' \in {"gap", "sleep", "retire"} /\ (stopped => pc' = "gap")
          /\ UNCHANGED <<now, stopped, frames, sent, evicted>>
      BY <2>11 DEF TornDown, Attempted
    <3> QED BY <3>1, QueueMoves
  <2>12. CASE Retires BY <2>12, QueueEmpties DEF Retires
  <2>13. CASE Alerted BY <2>13, QueueMoves DEF Alerted
  <2>14. CASE ClosesGap BY <2>14, QueueEmpties DEF ClosesGap, NoStream
  <2>15. CASE Labelled BY <2>15, QueueMoves DEF Labelled
  <2> QED
    BY <1>3, <2>1, <2>2, <2>3, <2>4, <2>5, <2>6, <2>7, <2>8, <2>9, <2>10, <2>11, <2>12,
       <2>13, <2>14, <2>15
    DEF StreamWorks, Connecting, Sending, Leaving
<1>4. CASE Reading \/ VendorCloses
  BY <1>4, QueueMoves DEF Reading, TurnStarts, TurnGrows, TurnCloses, ReaderFrame, VendorCloses,
                         pathVars
<1>5. CASE Cancelled
  <2>1. pc' \in {"gap", "over"} /\ UNCHANGED <<now, stopped, frames, sent, evicted>>
    BY <1>5 DEF Cancelled
  <2> QED BY <2>1, QueueMoves DEF Streaming, Connected
<1>6. CASE UNCHANGED streamVars
  BY <1>6, QueueMoves DEF streamVars, pathVars
<1> QED BY <1>1, <1>2, <1>3, <1>4, <1>5, <1>6 DEF StreamNext

-----------------------------------------------------------------------------
(* Every step keeps the markers. *)

LEMMA MarksMove ==
  ASSUME MarkInv, UNCHANGED <<gap, sent, markers>>,
         pc \in {"labels", "over"} => pc' \in {"labels", "over"},
         pc' \in Connected => pc \in Connected /\ UNCHANGED <<t0, last, turns>>
  PROVE  MarkInv'
<1>1. MarksOK'
  BY DEF MarkInv, MarksOK
<1>2. HeardOK'
  BY DEF MarkInv, HeardOK
<1>3. MarkersDisjoint'
  BY DEF MarkInv, MarkersDisjoint
<1> QED BY <1>1, <1>2, <1>3 DEF MarkInv

LEMMA MarksOpened == ASSUME MarkInv, Opened PROVE MarkInv'
<1>1. pc = "open" /\ pc' = "recv" /\ t0' = 0 /\ turns' = <<>> /\ UNCHANGED <<gap, sent, markers>>
  BY DEF Opened, gapVars
<1>2. MarksOK'
  BY <1>1 DEF MarkInv, MarksOK
<1>3. HeardOK'
  BY <1>1 DEF HeardOK
<1>4. MarkersDisjoint'
  BY <1>1 DEF MarkInv, MarkersDisjoint
<1> QED BY <1>2, <1>3, <1>4 DEF MarkInv

(* A lost connection takes its audio along from its oldest open turn on, and
   from its last frame if it has none. *)
LEMMA GapStart ==
  ASSUME MarkInv, StreamTypes, QueueInv, BookOK, pc \in Connected, NEW g, g = GapOf(t0, last)
  PROVE  /\ t0 = 0 => g = gap
         /\ t0 # 0 => g \in sent /\ g # 0 /\ t0 <= g /\ g <= last
<1>1. CASE t0 = 0
  BY <1>1 DEF GapOf
<1>2. CASE t0 # 0
  <2>1. /\ gap = 0 /\ last \in sent /\ t0 \in sent /\ t0 <= last
        /\ \A i \in DOMAIN turns : turns[i].start \in sent \cap (t0 .. last)
    BY <1>2 DEF MarkInv, HeardOK
  <2>2. g = IF turns = <<>> THEN last ELSE turns[1].start
    BY <1>2, <2>1 DEF GapOf
  <2>3. turns # <<>> => 1 \in DOMAIN turns
    BY DEF BookOK
  <2>4. \A k \in sent : k \in Nat /\ k # 0
    BY DEF QueueInv, StreamTypes
  <2>5. g \in sent /\ t0 <= g /\ g <= last
    <3>1. CASE turns = <<>>
      BY <2>1, <2>2, <2>4, <3>1
    <3>2. CASE turns # <<>>
      BY <2>1, <2>2, <2>3, <3>2
    <3> QED BY <3>1, <3>2
  <2> QED BY <1>2, <2>4, <2>5
<1> QED BY <1>1, <1>2

LEMMA MarksLost ==
  ASSUME MarkInv, StreamTypes, QueueInv, BookOK, TakesDead \/ ConnectionLost
  PROVE  MarkInv'
<1>1. pc \in Connected /\ pc' = "teardown" /\ gap' = GapOf(t0, last) /\ UNCHANGED <<sent, markers>>
  BY DEF TakesDead, ConnectionLost, Connected
<1>2. PICK g : g = GapOf(t0, last)
  OBVIOUS
<1>3. gap' = g /\ (t0 = 0 => g = gap)
      /\ (t0 # 0 => g \in sent /\ g # 0 /\ t0 <= g /\ g <= last)
  BY <1>1, <1>2, GapStart
<1>4. t0 # 0 => \A m \in markers : m[2] <= t0
  BY <1>1 DEF MarkInv, HeardOK
<1>5. MarksOK'
  <2>1. CASE t0 = 0
    BY <1>1, <1>3, <2>1 DEF MarkInv, MarksOK, Connected
  <2>2. CASE t0 # 0
    <3>1. ASSUME NEW m \in markers PROVE m \in Nat \X Nat /\ m[1] < m[2] /\ m[2] \in sent
      BY <1>1 DEF MarkInv, MarksOK, Connected
    <3>a. \A k \in sent : k \in Nat
      BY DEF QueueInv, StreamTypes
    <3>2. g \in Nat /\ t0 \in Nat
      BY <1>3, <2>2, <3>a DEF StreamTypes
    <3>3. ASSUME NEW m \in markers PROVE m[2] <= g
      <4>1. m[2] \in Nat /\ m[2] <= t0
        BY <1>4, <2>2, <3>1
      <4> QED BY <1>3, <2>2, <3>2, <4>1
    <3> QED BY <1>1, <1>3, <2>2, <3>1, <3>3 DEF MarksOK
  <2> QED BY <2>1, <2>2
<1>6. HeardOK'
  BY <1>1 DEF HeardOK, Connected
<1>7. MarkersDisjoint'
  BY <1>1 DEF MarkInv, MarkersDisjoint
<1> QED BY <1>5, <1>6, <1>7 DEF MarkInv

(* A marker of the open gap, ending behind everything that was marked. *)
LEMMA MarkedRows ==
  ASSUME MarkInv, StreamTypes, QueueInv, pc \notin {"labels", "over"}, NEW w \in Nat,
         NEW rows, rows = Marked(w)
  PROVE  /\ rows = markers \/ (gap # 0 /\ gap < w /\ rows = markers \cup {<<gap, w>>})
         /\ \A m \in rows : m \in Nat \X Nat /\ m[1] < m[2] /\ (m \in markers \/ m[2] = w)
         /\ \A m, n \in rows : m = n \/ m[2] <= n[1] \/ n[2] <= m[1]
<1>1. gap \in Nat
  BY DEF MarkInv, MarksOK, QueueInv, StreamTypes
<1>2. \A m \in markers : m \in Nat \X Nat /\ m[1] < m[2] /\ (gap # 0 => m[2] <= gap)
  BY DEF MarkInv, MarksOK
<1>3. CASE gap # 0 /\ w > gap
  <2>1. rows = markers \cup {<<gap, w>>}
    BY <1>3 DEF Marked
  <2> DEFINE new == <<gap, w>>
  <2>2. new \in Nat \X Nat /\ new[1] = gap /\ new[2] = w /\ new[1] < new[2]
    BY <1>1, <1>3
  <2> HIDE DEF new
  <2>3. rows = markers \cup {new}
    BY <2>1 DEF new
  <2>4. ASSUME NEW m \in rows, NEW n \in rows PROVE m = n \/ m[2] <= n[1] \/ n[2] <= m[1]
    <3>1. CASE m \in markers /\ n \in markers
      BY <3>1 DEF MarkInv, MarkersDisjoint
    <3>2. CASE m = new /\ n \in markers
      BY <1>2, <1>3, <2>2, <3>2
    <3>3. CASE m \in markers /\ n = new
      BY <1>2, <1>3, <2>2, <3>3
    <3> QED BY <2>3, <3>1, <3>2, <3>3
  <2>5. gap < w
    BY <1>1, <1>3
  <2> QED BY <1>2, <1>3, <2>1, <2>2, <2>3, <2>4, <2>5
<1>4. CASE ~(gap # 0 /\ w > gap)
  <2>1. rows = markers
    BY <1>4 DEF Marked
  <2> QED BY <1>2, <2>1 DEF MarkInv, MarkersDisjoint
<1> QED BY <1>3, <1>4

LEMMA MarksTaken == ASSUME MarkInv, StreamTypes, QueueInv, Takes PROVE MarkInv'
<1> DEFINE h == Head(frames)
<1>1. /\ pc = "recv" /\ pc' = "send" /\ last' = h /\ sent' = sent \cup {h} /\ turns' = turns
      /\ pc \in Connected /\ pc' \in Connected /\ pc' \notin {"labels", "over"}
  BY DEF Takes, Connected
<1>2. now \in Nat /\ t0 \in Nat /\ last \in Nat /\ Real \in Int
  BY DEF StreamTypes, Real
<1>3. h \in Nat /\ h # 0 /\ h = now - Real + 1
  <2>1. Head(frames) = now - Real + 1 /\ Head(frames) \in 1 .. now
    BY QueueTakes
  <2> QED BY <1>2, <2>1
<1>4. \A k \in sent : k \in Nat /\ k < h
  <2>1. \A k \in sent : k \in 1 .. now /\ k <= now - Real
    BY <1>1 DEF QueueInv, Streaming
  <2> QED BY <1>2, <1>3, <2>1
<1>5. \A m \in markers : m \in Nat \X Nat /\ m[1] < m[2] /\ m[2] \in sent
  BY <1>1 DEF MarkInv, MarksOK
<1> HIDE DEF h
<1>6. CASE t0 = 0
  <2>1. t0' = h /\ markers' = Marked(h) /\ gap' = 0 /\ turns = <<>>
    BY <1>1, <1>6 DEF Takes, h, MarkInv, HeardOK
  <2>2. PICK rows : rows = Marked(h)
    OBVIOUS
  <2>3. /\ \A m \in rows : m \in Nat \X Nat /\ m[1] < m[2] /\ (m \in markers \/ m[2] = h)
        /\ \A m, n \in rows : m = n \/ m[2] <= n[1] \/ n[2] <= m[1]
    BY <1>1, <1>3, <2>2, MarkedRows
  <2>4. markers' = rows
    BY <2>1, <2>2
  <2>5. ASSUME NEW m \in rows PROVE m[2] \in sent' /\ m[2] <= h
    BY <1>1, <1>3, <1>4, <1>5, <2>3
  <2>6. MarksOK'
    BY <2>1, <2>3, <2>4, <2>5 DEF MarksOK
  <2>7. HeardOK'
    <3>1. DOMAIN turns' = {}
      BY <1>1, <2>1
    <3>2. h <= h
      BY <1>3
    <3> QED BY <1>1, <1>3, <2>1, <2>4, <2>5, <3>1, <3>2 DEF HeardOK
  <2>8. MarkersDisjoint'
    BY <2>3, <2>4 DEF MarkersDisjoint
  <2> QED BY <2>6, <2>7, <2>8 DEF MarkInv
<1>7. CASE t0 # 0
  <2>1. UNCHANGED <<t0, markers, gap>>
    BY <1>7 DEF Takes
  <2>2. /\ gap = 0 /\ t0 \in sent /\ last \in sent /\ t0 <= last
        /\ \A m \in markers : m[2] <= t0
        /\ \A i \in DOMAIN turns : turns[i].start \in sent \cap (t0 .. last)
    BY <1>1, <1>7 DEF MarkInv, HeardOK
  <2>3. t0 <= h
    BY <1>2, <1>3, <1>4, <2>2
  <2>4. ASSUME NEW i \in DOMAIN turns' PROVE turns'[i].start \in sent' \cap (t0 .. h)
    BY <1>1, <1>2, <1>3, <1>4, <2>2
  <2>5. MarksOK'
    BY <1>1, <1>5, <2>1, <2>2 DEF MarksOK
  <2>6. HeardOK'
    BY <1>1, <1>7, <2>1, <2>2, <2>3, <2>4 DEF HeardOK
  <2>7. MarkersDisjoint'
    BY <2>1 DEF MarkInv, MarkersDisjoint
  <2> QED BY <2>5, <2>6, <2>7 DEF MarkInv
<1> QED BY <1>6, <1>7

LEMMA MarksClose == ASSUME MarkInv, StreamTypes, QueueInv, ClosesGap PROVE MarkInv'
<1>1. pc = "gap" /\ pc' = "labels" /\ markers' = Marked(now) /\ gap' = 0 /\ now \in Nat
  BY DEF ClosesGap, StreamTypes
<1>2. PICK rows : rows = Marked(now)
  OBVIOUS
<1>3. /\ \A m \in rows : m \in Nat \X Nat /\ m[1] < m[2]
      /\ \A m, n \in rows : m = n \/ m[2] <= n[1] \/ n[2] <= m[1]
  BY <1>1, <1>2, MarkedRows
<1>4. markers' = rows
  BY <1>1, <1>2
<1>5. MarksOK'
  BY <1>1, <1>3, <1>4 DEF MarksOK
<1>6. HeardOK'
  BY <1>1 DEF HeardOK, Connected
<1>7. MarkersDisjoint'
  BY <1>3, <1>4 DEF MarkersDisjoint
<1> QED BY <1>5, <1>6, <1>7 DEF MarkInv

(* What the vendor says adds no turn that starts before or after the audio of
   its connection. *)
LEMMA MarksRead ==
  ASSUME MarkInv, BookOK, StreamTypes, NEW r \in Turn, TurnStarts(r) \/ TurnGrows(r) \/ TurnCloses(r)
  PROVE  MarkInv'
<1>1. UNCHANGED <<gap, sent, markers, t0, last, pc>> /\ pc \in Connected /\ t0 # 0
  BY DEF TurnStarts, TurnGrows, TurnCloses, ReaderFrame, Hearing, gapVars, pathVars
<1>2. /\ gap = 0 /\ t0 \in sent /\ last \in sent /\ t0 <= last
      /\ \A m \in markers : m[2] <= t0
      /\ \A i \in DOMAIN turns : turns[i].start \in sent \cap (t0 .. last)
  BY <1>1 DEF MarkInv, HeardOK
<1>3. t0 \in Nat /\ last \in Nat /\ t0 \in sent \cap (t0 .. last) /\ last \in sent \cap (t0 .. last)
  BY <1>2 DEF StreamTypes
<1>4. ASSUME NEW start \in {t0, last}, NEW ts, ts = WithTurn(r, start), NEW i \in DOMAIN Kept(ts)
      PROVE  Kept(ts)[i].start \in sent \cap (t0 .. last)
  <2>1. /\ ts \in Seq(OpenTurn) /\ Len(ts) <= MaxOpenTurns + 1
        /\ \A k \in DOMAIN ts :
             (k \in DOMAIN turns /\ ts[k] = turns[k]) \/ ts[k].start = start
    BY <1>3, <1>4, WithBook
  <2>2. \A k \in DOMAIN ts : ts[k].start \in sent \cap (t0 .. last)
    BY <1>2, <1>3, <1>4, <2>1
  <2>3. CASE Len(ts) > MaxOpenTurns
    <3>1. Kept(ts) = Tail(ts) /\ ts # <<>>
      BY <2>1, <2>3, StreamAssumption DEF Kept
    <3>2. i + 1 \in DOMAIN ts /\ Kept(ts)[i] = ts[i + 1]
      BY <1>4, <2>1, <3>1
    <3> QED BY <2>2, <3>2
  <2>4. CASE ~(Len(ts) > MaxOpenTurns)
    BY <1>4, <2>2, <2>4 DEF Kept
  <2> QED BY <2>3, <2>4
<1>5. ASSUME NEW i \in DOMAIN turns' PROVE turns'[i].start \in sent \cap (t0 .. last)
  <2>1. CASE TurnStarts(r)
    BY <1>4, <1>5, <2>1 DEF TurnStarts
  <2>2. CASE TurnGrows(r)
    <3>1. PICK kept : /\ kept = Kept(WithTurn(r, last))
                      /\ DOMAIN turns' = DOMAIN kept
                      /\ \A k \in DOMAIN kept : turns'[k].start = kept[k].start
      <4> DEFINE ts == WithTurn(r, last)
      <4>0. PICK shows \in BOOLEAN :
              turns' = [k \in DOMAIN Kept(ts) |->
                          [Kept(ts)[k] EXCEPT !.shown = @ \/ (shows /\ Kept(ts)[k].ref = r)]]
        BY <2>2 DEF TurnGrows
      <4> HIDE DEF ts
      <4>1. PICK kept :
              /\ kept = Kept(ts)
              /\ turns' = [k \in DOMAIN kept |->
                            [kept[k] EXCEPT !.shown = @ \/ (shows /\ kept[k].ref = r)]]
        BY <4>0
      <4>2. kept \in Seq(OpenTurn)
        <5>1. WithTurn(r, last) \in Seq(OpenTurn) /\ Len(WithTurn(r, last)) <= MaxOpenTurns + 1
              /\ Distinct(WithTurn(r, last))
          BY <1>3, WithBook
        <5> QED BY <4>1, <5>1, KeptBook DEF ts
      <4>3. ASSUME NEW k \in DOMAIN kept PROVE turns'[k].start = kept[k].start
        <5>1. kept[k] \in OpenTurn
          BY <4>2
        <5> QED BY <4>1, <5>1 DEF OpenTurn
      <4> QED BY <4>1, <4>3 DEF ts
    <3> QED BY <1>4, <1>5, <3>1
  <2>3. CASE TurnCloses(r)
    <3>1. turns' = Without(r)
      BY <2>3 DEF TurnCloses
    <3>2. \E k \in DOMAIN turns : turns'[i] = turns[k]
      BY <1>5, <3>1, WithoutBook
    <3> QED BY <1>2, <3>2
  <2> QED BY <2>1, <2>2, <2>3
<1>6. MarksOK'
  BY <1>1 DEF MarkInv, MarksOK
<1>7. HeardOK'
  BY <1>1, <1>2, <1>5 DEF HeardOK
<1>8. MarkersDisjoint'
  BY <1>1 DEF MarkInv, MarkersDisjoint
<1> QED BY <1>6, <1>7, <1>8 DEF MarkInv

LEMMA MarksStep ==
  ASSUME MarkInv, QueueInv, StreamTypes, BookOK, [StreamNext]_streamVars
  PROVE  MarkInv'
<1> USE DEF gapVars
<1>1. CASE Captures \/ CaptureDone \/ VendorCloses
  BY <1>1, MarksMove DEF Captures, CaptureDone, VendorCloses, pathVars, connVars, feedVars
<1>2. CASE StreamWorks
  <2> USE DEF Connected
  <2>1. CASE Picks
    <3>1. pc = "pick" /\ pc' \in {"gap", "open"} /\ UNCHANGED <<gap, sent, markers>>
      BY <2>1 DEF Picks
    <3> QED BY <3>1, MarksMove
  <2>2. CASE OpenFails \/ OpenUnsupported
    <3>1. pc = "open" /\ pc' \in {"retire", "sleep", "pick"} /\ UNCHANGED <<gap, sent, markers>>
      BY <2>2 DEF OpenFails, OpenUnsupported, Attempted
    <3> QED BY <3>1, MarksMove
  <2>3. CASE Opened BY <2>3, MarksOpened
  <2>4. CASE Slept
    <3>1. pc = "sleep" /\ pc' \in {"gap", "open"} /\ UNCHANGED <<gap, sent, markers>>
      BY <2>4 DEF Slept
    <3> QED BY <3>1, MarksMove
  <2>5. CASE TakesDead \/ ConnectionLost BY <2>5, MarksLost
  <2>6. CASE Takes BY <2>6, MarksTaken
  <2>7. CASE Written \/ TakesStop \/ Finished
    <3>1. pc \in Connected /\ pc' \in Connected \cup {"teardown"}
          /\ UNCHANGED <<gap, sent, markers, t0, last, turns>>
      BY <2>7 DEF Written, TakesStop, Finished, connVars
    <3> QED BY <3>1, MarksMove
  <2>8. CASE TornDown \/ Retires \/ Alerted
    <3>1. pc \in {"teardown", "retire", "alert"} /\ pc' \in {"gap", "sleep", "retire", "alert", "pick"}
          /\ UNCHANGED <<gap, sent, markers>>
      BY <2>8 DEF TornDown, Retires, Alerted, Attempted
    <3> QED BY <3>1, MarksMove
  <2>9. CASE ClosesGap BY <2>9, MarksClose
  <2>10. CASE Labelled
    BY <2>10, MarksMove DEF Labelled
  <2> QED
    BY <1>2, <2>1, <2>2, <2>3, <2>4, <2>5, <2>6, <2>7, <2>8, <2>9, <2>10
    DEF StreamWorks, Connecting, Sending, Leaving
<1>3. CASE Reading BY <1>3, MarksRead DEF Reading
<1>4. CASE Cancelled
  <2>1. (pc = "labels" => pc' = "over") /\ pc # "over" /\ pc' \in {"gap", "over"}
        /\ UNCHANGED <<gap, sent, markers>>
    BY <1>4 DEF Cancelled, Streaming, Connected
  <2> QED BY <2>1, MarksMove DEF Connected
<1>5. CASE UNCHANGED streamVars
  BY <1>5, MarksMove DEF streamVars, pathVars, connVars
<1> QED BY <1>1, <1>2, <1>3, <1>4, <1>5 DEF StreamNext

-----------------------------------------------------------------------------
(* Every step keeps account of what was lost. *)

LEMMA FineStays ==
  ASSUME sent \subseteq sent', evicted \subseteq evicted', markers \subseteq markers'
  PROVE  \A k : Fine(k) => Fine(k)'
  BY DEF Fine, Covered

(* A gap stays accounted for wherever nothing is written or lost. *)
LEMMA GapStays ==
  ASSUME LossGap, UNCHANGED <<gap, sent, markers>>, evicted \subseteq evicted'
  PROVE  LossGap'
  BY FineStays DEF LossGap

(* Away from a connection there is nothing but the gap. *)
LEMMA LossAway ==
  ASSUME LossInv, CutLast, pc \in {"pick", "open", "sleep", "retire", "alert"},
         UNCHANGED <<gap, sent, markers, evicted>>
  PROVE  LossInv'
<1>1. Counting' => Counting
  BY DEF Counting, CutLast
<1>2. ~LossNone /\ ~LossLive
  BY DEF LossNone, LossLive
<1> QED BY <1>1, <1>2, GapStays DEF LossInv

LEMMA LossCapture == ASSUME LossInv, QueueInv, StreamTypes, MarkInv, Captures PROVE LossInv'
<1>1. /\ ~stopped /\ stopped' = stopped /\ now' = now + 1 /\ now \in Nat /\ last \in Nat
      /\ UNCHANGED <<pc, end, evicted, sent, gap, markers, t0, last>>
      /\ frames \in Seq(Nat) /\ Len(frames) \in Nat
  BY DEF Captures, StreamTypes, pathVars, gapVars
<1>2. Counting' => Counting
  BY <1>1 DEF Counting
<1>3. CASE LossGap
  BY <1>1, <1>3, GapStays DEF LossInv
<1>4. ~LossNone
  BY <1>1 DEF LossNone
<1>5. CASE LossLive
  <2>1. pc \in {"recv", "send"} /\ pc \in Streaming /\ t0 # 0 /\ gap = 0 /\ pc \in Connected
    BY <1>5 DEF LossLive, Streaming, Connected
  <2>2. Len(frames) <= QueueFrames /\ Real = Len(frames) /\ \A k \in sent : k <= now - Len(frames)
    BY <1>1, <2>1 DEF QueueInv, Real
  <2>3. last \in sent
    BY <2>1 DEF MarkInv, HeardOK
  <2>4. PICK fs : fs = Pushed(now + 1)
    OBVIOUS
  <2>5. frames' = fs
    BY <1>1, <2>1, <2>4 DEF Captures
  <2>6. PushedOn(now + 1, fs)
    <3>1. now + 1 \in Nat
      BY <1>1
    <3> QED BY <2>2, <2>4, <3>1, PushedQueue
  <2>7. Drop \in {0, 1} /\ (Drop = 1 => Len(frames) = QueueFrames /\ Len(frames) > 0)
        /\ QueueFrames \in Nat
    BY StreamAssumption DEF Drop
  <2>8. Real' = Len(frames) - Drop + 1
    BY <1>1, <2>5, <2>6 DEF Real, PushedOn
  <2>9. Drop = 1 => pc = "send" /\ stalled'
    <3> SUFFICES ASSUME Drop = 1 PROVE pc = "send" /\ stalled'
      OBVIOUS
    <3>1. Len(frames) = QueueFrames /\ ~(Len(frames) < QueueFrames)
      BY <1>1, <2>7
    <3>2. pc # "recv"
      BY <3>1 DEF Captures
    <3>3. stalled' = (stalled \/ Len(frames) = QueueFrames)
      BY <2>1 DEF Captures
    <3>4. stalled'
      BY <3>1, <3>3, Zenon
    <3> QED BY <2>1, <3>2, <3>4
  <2>10. ASSUME NEW j \in sent, NEW k \in j .. now + 1
         PROVE  Fine(k) \/ k > (now + 1) - Real' \/ (pc = "send" /\ stalled' /\ k > last)
    <3>1. j \in Nat /\ k \in Nat
      BY <1>1, <2>10 DEF QueueInv
    <3>2. CASE k = now + 1
      BY <1>1, <2>2, <2>7, <2>8, <3>2
    <3>3. CASE k \in j .. now
      <4>1. CASE Fine(k)
        BY <4>1
      <4>2. CASE k > now - Real
        <5>1. CASE Drop = 0
          BY <1>1, <2>2, <2>8, <3>1, <4>2, <5>1
        <5>2. CASE Drop = 1
          BY <1>1, <2>2, <2>3, <2>9, <3>1, <4>2, <5>2
        <5> QED BY <2>7, <5>1, <5>2
      <4>3. CASE pc = "send" /\ stalled /\ k > last
        <5>1. stalled'
          BY <2>1, <4>3 DEF Captures
        <5> QED BY <4>3, <5>1
      <4> QED BY <1>5, <3>3, <4>1, <4>2, <4>3 DEF LossLive
    <3> QED BY <1>1, <2>10, <3>1, <3>2, <3>3
  <2>11. \A k : Fine(k) => Fine(k)'
    BY <1>1, FineStays
  <2>12. LossLive'
    BY <1>1, <2>1, <2>10, <2>11 DEF LossLive
  <2> QED BY <2>12 DEF LossInv
<1> QED BY <1>2, <1>3, <1>4, <1>5 DEF LossInv

(* The sentinel may push out one frame, which the history knows. *)
LEMMA LossDone == ASSUME LossInv, QueueInv, StreamTypes, CaptureDone PROVE LossInv'
<1>1. /\ ~stopped /\ stopped' /\ UNCHANGED <<now, pc, end, sent, gap, markers, t0, last, stalled>>
      /\ now \in Nat /\ evicted = {} /\ frames \in Seq(Nat) /\ Len(frames) \in Nat
  BY DEF CaptureDone, StreamTypes, pathVars, connVars, gapVars, QueueInv
<1>2. (Counting' => Counting) /\ evicted \subseteq evicted'
  BY <1>1 DEF Counting
<1>3. CASE LossGap
  BY <1>1, <1>2, <1>3, GapStays DEF LossInv
<1>4. ~LossNone
  BY <1>1 DEF LossNone
<1>5. CASE LossLive
  <2>1. pc \in {"recv", "send"} /\ pc \in Streaming
    BY <1>5 DEF LossLive, Streaming, Connected
  <2>2. /\ Real' = Len(frames) - Drop /\ Real = Len(frames)
        /\ Drop = 1 => evicted' = {now - Len(frames) + 1}
    BY <2>1, QueueDone
  <2>3. Drop \in {0, 1}
    BY DEF Drop
  <2>4. \A k : Fine(k) => Fine(k)'
    BY <1>1, <1>2, FineStays
  <2>5. ASSUME NEW j \in sent, NEW k \in j .. now
        PROVE  Fine(k)' \/ k > now - Real' \/ (pc = "send" /\ stalled /\ k > last)
    <3>1. j \in Nat /\ k \in Nat
      BY <1>1, <2>5 DEF QueueInv
    <3>2. CASE k > now - Real
      <4>1. CASE Drop = 0
        BY <1>1, <2>2, <3>1, <3>2, <4>1
      <4>2. CASE Drop = 1
        <5>1. k > now - Real' \/ k = now - Len(frames) + 1
          BY <1>1, <2>2, <3>1, <3>2, <4>2
        <5>2. k = now - Len(frames) + 1 => k \in evicted'
          BY <2>2, <4>2
        <5> QED BY <5>1, <5>2 DEF Fine
      <4> QED BY <2>3, <4>1, <4>2
    <3>3. CASE ~(k > now - Real)
      BY <1>5, <2>4, <2>5, <3>3 DEF LossLive
    <3> QED BY <3>2, <3>3
  <2>6. LossLive'
    BY <1>1, <1>5, <2>5 DEF LossLive
  <2> QED BY <2>6 DEF LossInv
<1> QED BY <1>2, <1>3, <1>4, <1>5 DEF LossInv

(* A connection that is lost: everything behind its gap is accounted for. *)
LEMMA LossLost ==
  ASSUME LossInv, CutLast, QueueInv, StreamTypes, MarkInv, BookOK, TakesDead \/ ConnectionLost
  PROVE  LossInv'
<1>1. /\ pc \in {"recv", "send"} /\ pc \in Connected /\ pc \in Streaming
      /\ gap' = GapOf(t0, last) /\ UNCHANGED <<sent, markers, evicted>>
  BY DEF TakesDead, ConnectionLost, Connected, Streaming, feedVars
<1>2. PICK g : g = GapOf(t0, last)
  OBVIOUS
<1>3. gap' = g /\ (t0 = 0 => g = gap) /\ (t0 # 0 => g \in sent /\ g # 0 /\ g <= last)
  BY <1>1, <1>2, GapStart
<1>4. (Counting' => Counting) /\ ~LossNone
  BY <1>1 DEF Counting, CutLast, LossNone
<1>5. CASE t0 = 0
  <2>1. ~LossLive /\ gap' = gap
    BY <1>3, <1>5 DEF LossLive
  <2> QED BY <1>1, <1>4, <2>1, GapStays DEF LossInv
<1>6. CASE t0 # 0
  <2>1. gap = 0 /\ last \in sent
    BY <1>1, <1>6 DEF MarkInv, HeardOK
  <2>2. \A k \in sent : k \in 1 .. now /\ k <= now - Real
    BY <1>1 DEF QueueInv
  <2>3. now \in Nat /\ Real \in Int /\ last \in Nat /\ g \in Nat
    BY <1>3, <1>6, <2>2 DEF StreamTypes, Real
  <2>4. \A k : Fine(k) => Fine(k)'
    BY <1>1, FineStays
  <2>5. ASSUME LossLive, NEW j \in sent, NEW k \in j .. g - 1 PROVE Fine(k)
    <3>1. k \in j .. now /\ ~(k > now - Real) /\ ~(k > last)
      BY <1>3, <1>6, <2>1, <2>2, <2>3, <2>5
    <3> QED BY <2>5, <3>1 DEF LossLive
  <2>6. LossLive => LossGap'
    BY <1>1, <1>3, <1>6, <2>4, <2>5 DEF LossGap
  <2>7. ~LossGap
    BY <2>1 DEF LossGap
  <2> QED BY <1>4, <2>6, <2>7 DEF LossInv
<1> QED BY <1>5, <1>6

(* The first frame of a connection ends the gap; every other one was next in
   the queue. *)
LEMMA LossTakes ==
  ASSUME LossInv, CutLast, QueueInv, StreamTypes, MarkInv, Takes
  PROVE  LossInv'
<1> DEFINE h == Head(frames)
<1>1. /\ pc = "recv" /\ pc' = "send" /\ sent' = sent \cup {h} /\ pc \in Connected
      /\ pc \in Streaming /\ UNCHANGED <<now, stopped, evicted, end, stalled>>
  BY DEF Takes, Connected, Streaming
<1>2. /\ now \in Nat /\ Real \in Int /\ Real' = Real - 1 /\ h = now - Real + 1 /\ h \in 1 .. now
      /\ gap \in Nat
  <2>1. \A k \in sent : k \in Nat
    BY DEF QueueInv, StreamTypes
  <2>2. gap \in Nat
    BY <2>1 DEF MarkInv, MarksOK
  <2>3. Real' = Real - 1 /\ Head(frames) = now - Real + 1 /\ Head(frames) \in 1 .. now
    BY QueueTakes
  <2>4. now \in Nat /\ Real \in Int
    BY DEF StreamTypes, Real
  <2> QED BY <2>2, <2>3, <2>4
<1>3. \A k \in sent : k \in 1 .. now /\ k < h
  <2>1. \A k \in sent : k \in 1 .. now /\ k <= now - Real
    BY <1>1 DEF QueueInv
  <2> QED BY <1>2, <2>1
<1>4. end \notin {"cancelled", "torn"} /\ pc \notin {"labels", "over"}
  BY <1>1 DEF CutLast
<1>5. t0 = 0 => t0' = h /\ markers' = Marked(h) /\ gap' = 0
  BY DEF Takes
<1>6. t0 # 0 => UNCHANGED <<t0, markers, gap>> /\ gap = 0
  BY <1>1 DEF Takes, MarkInv, HeardOK
<1> HIDE DEF h
<1>7. t0' # 0 /\ gap' = 0
  BY <1>2, <1>5, <1>6
<1>8. ASSUME NEW j \in sent', NEW k \in j .. now PROVE Fine(k)' \/ k > now - Real'
  <2>1. j \in Nat /\ k \in Nat /\ k <= now
    BY <1>1, <1>2, <1>3, <1>8
  <2>2. CASE k > h
    BY <1>2, <2>1, <2>2
  <2>3. CASE k = h
    BY <1>1, <2>3 DEF Fine
  <2>4. CASE k < h
    <3>1. j \in sent /\ k \in j .. now
      BY <1>1, <1>2, <1>8, <2>1, <2>4
    <3>2. Counting /\ ~LossNone
      BY <1>1, <1>4, <3>1 DEF Counting, LossNone
    <3>3. CASE t0 = 0
      <4>1. LossGap /\ gap # 0
        BY <3>2, <3>3 DEF LossInv, LossLive, LossGap
      <4>2. gap \in sent /\ h > gap
        BY <1>2, <1>3, <4>1 DEF MarkInv, MarksOK
      <4>3. markers' = markers \cup {<<gap, h>>}
        BY <1>5, <3>3, <4>1, <4>2 DEF Marked
      <4>4. CASE k >= gap
        <5>1. <<gap, h>> \in markers' /\ <<gap, h>>[1] <= k /\ k <= <<gap, h>>[2]
          BY <1>2, <2>1, <2>4, <4>3, <4>4
        <5> QED BY <5>1 DEF Fine, Covered
      <4>5. CASE ~(k >= gap)
        <5>1. k \in j .. gap - 1
          BY <1>2, <2>1, <3>1, <4>5
        <5>2. Fine(k)
          BY <3>1, <4>1, <5>1 DEF LossGap
        <5> QED BY <1>1, <4>3, <5>2, FineStays
      <4> QED BY <4>4, <4>5
    <3>4. CASE t0 # 0
      <4>1. LossLive
        BY <1>6, <3>2, <3>4 DEF LossInv, LossGap
      <4>2. ~(k > now - Real) /\ pc # "send"
        BY <1>1, <1>2, <2>1, <2>4
      <4>3. Fine(k)
        BY <3>1, <4>1, <4>2 DEF LossLive
      <4> QED BY <1>1, <1>6, <3>4, <4>3, FineStays
    <3> QED BY <3>3, <3>4
  <2> QED BY <1>2, <2>1, <2>2, <2>3, <2>4
<1>9. LossLive'
  BY <1>1, <1>7, <1>8 DEF LossLive
<1> QED BY <1>9 DEF LossInv

(* The sentinel is taken when everything before it was. *)
LEMMA LossStop == ASSUME LossInv, CutLast, QueueInv, StreamTypes, TakesStop PROVE LossInv'
<1>1. /\ pc = "recv" /\ pc' \in {"finish", "teardown"}
      /\ UNCHANGED <<now, stopped, evicted, sent, gap, markers>>
  BY DEF TakesStop, gapVars
<1>2. frames' = <<>> /\ stopped /\ Real = 0 /\ now \in Nat
  BY QueueStop DEF StreamTypes
<1>3. (Counting' => Counting) /\ ~LossNone
  BY <1>1 DEF Counting, CutLast, LossNone
<1>4. \A k : Fine(k) => Fine(k)'
  BY <1>1, FineStays
<1>5. ASSUME LossLive, NEW j \in sent, NEW k \in j .. now PROVE Fine(k)
  <2>1. ~(k > now - Real) /\ pc # "send"
    BY <1>1, <1>2, <1>5 DEF QueueInv
  <2> QED BY <1>5, <2>1 DEF LossLive
<1>6. LossLive => LossNone'
  <2> SUFFICES ASSUME LossLive PROVE LossNone'
    OBVIOUS
  <2>1. gap' = 0 /\ sent' = sent /\ now' = now /\ stopped'
    BY <1>1, <1>2 DEF LossLive
  <2> QED BY <1>1, <1>2, <1>4, <1>5, <2>1 DEF LossNone
<1> QED BY <1>1, <1>3, <1>6, GapStays DEF LossInv

(* A write that got through left the queue as it was, so nothing is missing. *)
LEMMA LossWritten == ASSUME LossInv, Written PROVE LossInv'
<1>1. /\ pc = "send" /\ pc' = "recv" /\ ~stalled
      /\ UNCHANGED <<now, stopped, frames, evicted, sent, gap, markers, end, t0, last>>
  BY DEF Written, gapVars, feedVars, connVars
<1>2. (Counting' => Counting) /\ ~LossNone
  BY <1>1 DEF Counting, LossNone
<1>3. Real' = Real /\ \A k : Fine(k) => Fine(k)'
  BY <1>1, FineStays DEF Real
<1>4. ASSUME LossLive, NEW j \in sent, NEW k \in j .. now PROVE Fine(k) \/ k > now - Real
  BY <1>1, <1>4 DEF LossLive
<1>5. LossLive => LossLive'
  <2> SUFFICES ASSUME LossLive PROVE LossLive'
    OBVIOUS
  <2>1. gap' = 0 /\ t0' # 0
    BY <1>1 DEF LossLive
  <2> QED BY <1>1, <1>3, <1>4, <2>1 DEF LossLive
<1> QED BY <1>1, <1>2, <1>5, GapStays DEF LossInv

(* Nothing is written after the sentinel, and nothing is captured. *)
LEMMA LossFinishes ==
  ASSUME LossInv, CutLast, Finished \/ TornDown
  PROVE  LossInv'
<1>1. /\ pc \in {"finish", "teardown"}
      /\ UNCHANGED <<now, stopped, frames, evicted, sent, gap, markers>>
      /\ stopped => pc' \in {"teardown", "gap"}
  BY DEF Finished, TornDown, gapVars, feedVars
<1>2. (Counting' => Counting) /\ ~LossLive
  BY <1>1 DEF Counting, CutLast, LossLive
<1>3. \A k : Fine(k) => Fine(k)'
  BY <1>1, FineStays
<1>4. LossNone => LossNone'
  BY <1>1, <1>3 DEF LossNone
<1> QED BY <1>1, <1>2, <1>4, GapStays DEF LossInv

LEMMA LossRests ==
  ASSUME LossInv, UNCHANGED <<pc, end, now, stopped, frames, evicted, sent, gap, markers,
                              stalled, t0, last>>
  PROVE  LossInv'
<1>1. Real' = Real /\ \A k : Fine(k) => Fine(k)'
  BY FineStays DEF Real
<1>2. Counting' => Counting
  BY DEF Counting
<1>3. LossNone => LossNone'
  BY <1>1 DEF LossNone
<1>4. LossLive => LossLive'
  BY <1>1 DEF LossLive
<1> QED BY <1>2, <1>3, <1>4, GapStays DEF LossInv

LEMMA LossStep ==
  ASSUME LossInv, CutLast, QueueInv, StreamTypes, MarkInv, BookOK, [StreamNext]_streamVars
  PROVE  LossInv'
<1>1. CASE Captures BY <1>1, LossCapture
<1>2. CASE CaptureDone BY <1>2, LossDone
<1>3. CASE StreamWorks
  <2>1. CASE Picks
    <3>1. pc = "pick" /\ UNCHANGED <<gap, sent, markers, evicted>>
      BY <2>1 DEF Picks, gapVars
    <3> QED BY <3>1, LossAway
  <2>2. CASE Connecting
    <3>1. pc = "open" /\ UNCHANGED <<gap, sent, markers, evicted>>
      BY <2>2 DEF Connecting, OpenFails, OpenUnsupported, Opened, gapVars, feedVars
    <3> QED BY <3>1, LossAway
  <2>3. CASE Slept
    <3>1. pc = "sleep" /\ UNCHANGED <<gap, sent, markers, evicted>>
      BY <2>3 DEF Slept, gapVars, feedVars
    <3> QED BY <3>1, LossAway
  <2>4. CASE TakesDead \/ ConnectionLost BY <2>4, LossLost
  <2>5. CASE Takes BY <2>5, LossTakes
  <2>6. CASE Written BY <2>6, LossWritten
  <2>7. CASE TakesStop BY <2>7, LossStop
  <2>8. CASE Finished \/ TornDown BY <2>8, LossFinishes
  <2>9. CASE Retires \/ Alerted
    <3>1. pc \in {"retire", "alert"} /\ UNCHANGED <<gap, sent, markers, evicted>>
      BY <2>9 DEF Retires, Alerted, gapVars, feedVars
    <3> QED BY <3>1, LossAway
  <2>10. CASE ClosesGap \/ Labelled
    <3>1. pc' \in {"labels", "over"}
      BY <2>10 DEF ClosesGap, Labelled
    <3> QED BY <3>1 DEF LossInv, Counting
  <2> QED
    BY <1>3, <2>1, <2>2, <2>3, <2>4, <2>5, <2>6, <2>7, <2>8, <2>9, <2>10
    DEF StreamWorks, Sending, Leaving
<1>4. CASE Reading \/ VendorCloses
  BY <1>4, LossRests DEF Reading, TurnStarts, TurnGrows, TurnCloses, ReaderFrame, VendorCloses,
                         pathVars, gapVars, feedVars
<1>5. CASE Cancelled
  <2>1. end' \in {"cancelled", "torn"}
    BY <1>5 DEF Cancelled
  <2> QED BY <2>1 DEF LossInv, Counting
<1>6. CASE UNCHANGED streamVars
  BY <1>6, LossRests DEF streamVars, pathVars, connVars, gapVars, feedVars
<1> QED BY <1>1, <1>2, <1>3, <1>4, <1>5, <1>6 DEF StreamNext

LEMMA BooksInit == ASSUME Init PROVE QueueInv /\ MarkInv /\ LossInv
<1>1. StreamInit
  BY DEF Init
<1>2. frames = <<>> /\ Len(<<>>) = 0 /\ now = 0 /\ sent = {} /\ gap = 0 /\ markers = {} /\ pc = "pick"
      /\ evicted = {} /\ QueueFrames \in Nat
  BY <1>1, StreamAssumption DEF StreamInit
<1>3. QueueInv
  BY <1>2 DEF QueueInv, Streaming, Connected
<1>4. MarkInv
  BY <1>2 DEF MarkInv, MarksOK, HeardOK, Connected, MarkersDisjoint
<1>5. LossInv
  BY <1>2 DEF LossInv, Counting
<1> QED BY <1>3, <1>4, <1>5

(* The invariant of the stream, whole. *)
StreamInv == RowInv /\ CutLast /\ StreamTypes /\ QueueInv /\ MarkInv /\ LossInv

LEMMA StreamAlways == Spec => []StreamInv
<1>1. Init => StreamInv
  BY RowsInit, BooksInit DEF StreamInv
<1>2. StreamInv /\ [Next]_vars => StreamInv'
  <2> SUFFICES ASSUME StreamInv, [Next]_vars PROVE StreamInv'
    OBVIOUS
  <2>1. [StreamNext]_streamVars
    BY StreamSteps
  <2>2. BookOK
    BY DEF StreamInv, RowInv
  <2> QED BY <2>1, <2>2, RowsStep, CutStep, TypesStep, QueueStep, MarksStep, LossStep DEF StreamInv
<1> QED BY <1>1, <1>2, PTL DEF Spec

(* A half-typed row always belongs to a turn that is still open, and when the
   path is over there is none, save after a cancellation that met the
   teardown. *)
THEOREM EveryTurnAlwaysSettles == Spec => []EveryTurnSettles
<1>1. StreamInv => EveryTurnSettles
  <2> SUFFICES ASSUME RowInv, end # "torn" PROVE EveryTurnSettles
    BY DEF StreamInv, EveryTurnSettles
  <2>1. interim = Settled(turns)
    BY DEF RowInv, ShownAre
  <2>2. pc \in {"gap", "labels", "over"} => turns = <<>>
    BY DEF RowInv, BookOK, Connected
  <2>3. turns = <<>> => Settled(turns) = {}
    BY SettledNone
  <2> QED BY <2>1, <2>2, <2>3 DEF EveryTurnSettles
<1> QED BY <1>1, StreamAlways, PTL

(* A settled row stays settled: the vendor's late words never reopen it, and no
   connection or provider after it has a turn of its name. *)
THEOREM SettledAlwaysStays == Spec => SettledStays
<1>1. StreamInv /\ [Next]_vars => [final \subseteq final']_vars
  <2> SUFFICES ASSUME RowInv, StreamTypes, [Next]_vars PROVE final \subseteq final'
    BY DEF StreamInv
  <2>1. [StreamNext]_streamVars
    BY StreamSteps
  <2>2. CASE Reading BY <2>2, RowsStart, RowsGrow, RowsClose DEF Reading
  <2>3. CASE UNCHANGED streamVars BY <2>3 DEF streamVars, rowVars
  <2>4. CASE Captures \/ CaptureDone \/ VendorCloses \/ Cancelled
    BY <2>4 DEF Captures, CaptureDone, VendorCloses, Cancelled, SettleOpen, rowVars
  <2>5. CASE StreamWorks
    <3>1. CASE Picks \/ Connecting \/ Slept
      BY <3>1 DEF Picks, Connecting, OpenFails, OpenUnsupported, Opened, Slept, rowVars
    <3>2. CASE Sending
      BY <3>2 DEF Sending, TakesDead, Takes, Written, ConnectionLost, TakesStop, Finished, rowVars
    <3>3. CASE Leaving
      BY <3>3 DEF Leaving, TornDown, Retires, Alerted, ClosesGap, Labelled, SettleOpen, rowVars
    <3> QED BY <2>5, <3>1, <3>2, <3>3 DEF StreamWorks
  <2> QED BY <2>1, <2>2, <2>3, <2>4, <2>5 DEF StreamNext
<1>2. Spec => [][Next]_vars
  BY DEF Spec
<1> QED BY <1>1, <1>2, StreamAlways, PTL DEF SettledStays

(* No second is marked as lost twice, by however many connections or
   providers. *)
THEOREM MarkersAlwaysDisjoint == Spec => []MarkersDisjoint
<1>1. StreamInv => MarkersDisjoint
  BY DEF StreamInv, MarkInv
<1> QED BY <1>1, StreamAlways, PTL

(* When a path that was not cut closes its books, every frame since the first
   one that reached a vendor was written, is marked, or is the one the sentinel
   pushed out. *)
THEOREM LossesAreMarked == Spec => LostIsMarked
<1> DEFINE A == pc = "gap" /\ pc' = "labels" /\ end \notin {"cancelled", "torn"} =>
                  \A j \in sent : \A k \in j .. now : k \in sent \cup evicted \/ Covered(k, markers')
<1>1. StreamInv /\ [Next]_vars => [A]_vars
  <2> SUFFICES ASSUME StreamInv, [Next]_vars, pc = "gap", pc' = "labels",
                      end \notin {"cancelled", "torn"}, NEW j \in sent, NEW k \in j .. now
               PROVE  k \in sent \cup evicted \/ Covered(k, markers')
    OBVIOUS
  <2>1. ClosesGap
    <3>1. [StreamNext]_streamVars
      BY StreamSteps
    <3>2. ~(Captures \/ CaptureDone \/ Reading \/ VendorCloses \/ UNCHANGED streamVars)
      BY DEF Captures, CaptureDone, Reading, TurnStarts, TurnGrows, TurnCloses, ReaderFrame,
             VendorCloses, streamVars, pathVars
    <3>3. ~(Picks \/ Connecting \/ Slept \/ Sending \/ Cancelled)
      BY DEF Picks, Connecting, OpenFails, OpenUnsupported, Opened, Slept, Sending, TakesDead,
             Takes, Written, ConnectionLost, TakesStop, Finished, Cancelled
    <3>4. ~(TornDown \/ Retires \/ Alerted \/ Labelled)
      BY DEF TornDown, Retires, Alerted, Labelled
    <3> QED BY <3>1, <3>2, <3>3, <3>4 DEF StreamNext, StreamWorks, Leaving
  <2>2. markers' = Marked(now)
    BY <2>1 DEF ClosesGap
  <2>3. markers \subseteq markers'
    BY <2>2 DEF Marked
  <2>4. Fine(k) => k \in sent \cup evicted \/ Covered(k, markers')
    BY <2>3 DEF Fine, Covered
  <2>5. LossGap \/ LossNone
    BY DEF StreamInv, LossInv, Counting, LossLive
  <2>6. \A i \in sent : i \in Nat
    BY DEF StreamInv, QueueInv, StreamTypes
  <2>7. now \in Nat /\ j \in Nat /\ k \in Nat /\ k <= now
    BY <2>6 DEF StreamInv, StreamTypes
  <2>8. CASE LossNone
    BY <2>4, <2>8 DEF LossNone
  <2>9. CASE LossGap
    <3>1. gap # 0 /\ gap \in sent /\ gap \in Nat
      BY <2>6, <2>9 DEF LossGap, StreamInv, MarkInv, MarksOK
    <3>2. CASE k < gap
      <4>1. k \in j .. gap - 1
        BY <2>7, <3>1, <3>2
      <4> QED BY <2>4, <2>9, <4>1 DEF LossGap
    <3>3. CASE k >= gap /\ now > gap
      <4>1. <<gap, now>> \in markers'
        BY <2>2, <3>1, <3>3 DEF Marked
      <4>2. <<gap, now>>[1] <= k /\ k <= <<gap, now>>[2]
        BY <2>7, <3>3
      <4> QED BY <4>1, <4>2 DEF Covered
    <3>4. CASE k >= gap /\ ~(now > gap)
      BY <2>7, <3>1, <3>4
    <3> QED BY <2>7, <3>1, <3>2, <3>3, <3>4
  <2> QED BY <2>5, <2>8, <2>9
<1>2. Spec => [][Next]_vars
  BY DEF Spec
<1> QED BY <1>1, <1>2, StreamAlways, PTL DEF LostIsMarked

-----------------------------------------------------------------------------
(* The streak is what `degraded` remembers, save for a run that gave up, and
   the alerts balance. *)
Streaked == streak >= DegradedAfter

AlertInv ==
  /\ streak \in Nat /\ alerts \in Nat /\ recoveries \in Nat /\ degraded \in BOOLEAN
  /\ step \notin {"over", "exhausted"} => (degraded <=> Streaked)
  /\ OneAlertPerOutage

alertVars == <<step, streak, degraded, alerts, recoveries>>

LEMMA AlertUntouched == ASSUME AlertInv, UNCHANGED alertVars PROVE AlertInv'
  BY DEF AlertInv, alertVars, OneAlertPerOutage, Streaked

LEMMA AlertMoves ==
  ASSUME AlertInv, step \notin {"over", "exhausted", "alert"},
         step' \notin {"alert"}, UNCHANGED <<streak, degraded, alerts, recoveries>>
  PROVE  AlertInv'
  BY DEF AlertInv, OneAlertPerOutage, Streaked

(* An answer ends the streak, and the outage if there was one. *)
LEMMA AlertAnswers == ASSUME AlertInv, Answers PROVE AlertInv'
<1>1. DegradedAfter \in Nat /\ DegradedAfter > 0
  BY RouterAssumption
<1>2. step = "ask" /\ streak' = 0 /\ degraded' = FALSE /\ alerts' = alerts
      /\ step' \notin {"over", "exhausted", "alert"}
  BY DEF Answers
<1>3. ~Streaked'
  BY <1>1, <1>2 DEF Streaked
<1>4. recoveries' = alerts
  <2>1. CASE degraded
    BY <1>1, <1>2, <2>1 DEF AlertInv, OneAlertPerOutage, Streaked, Answers
  <2>2. CASE ~degraded
    BY <1>1, <1>2, <2>2 DEF AlertInv, OneAlertPerOutage, Streaked, Answers
  <2> QED BY <2>1, <2>2
<1> QED
  BY <1>1, <1>2, <1>3, <1>4 DEF AlertInv, OneAlertPerOutage, Streaked

LEMMA AlertGivesUp == ASSUME AlertInv, GivesUp PROVE AlertInv'
  BY DEF AlertInv, OneAlertPerOutage, Streaked, GivesUp

(* A drop alerts where the streak reaches the bound, and nowhere above it. *)
LEMMA AlertDrops == ASSUME AlertInv, Drops PROVE AlertInv'
<1>1. DegradedAfter \in Nat /\ DegradedAfter > 0
  BY RouterAssumption
<1>2. CASE streak + 1 = DegradedAfter
  BY <1>1, <1>2 DEF AlertInv, OneAlertPerOutage, Streaked, Drops
<1>3. CASE streak + 1 # DegradedAfter
  BY <1>1, <1>3 DEF AlertInv, OneAlertPerOutage, Streaked, Drops
<1> QED BY <1>2, <1>3

LEMMA AlertAlerts == ASSUME AlertInv, RouterAlerts PROVE AlertInv'
  BY DEF AlertInv, OneAlertPerOutage, Streaked, RouterAlerts

LEMMA AlertRouterWorks == ASSUME AlertInv, RouterWorks PROVE AlertInv'
<1>1. CASE Answers BY <1>1, AlertAnswers
<1>2. CASE Fails BY <1>2, AlertUntouched DEF Fails, alertVars
<1>3. CASE GivesUp BY <1>3, AlertGivesUp
<1>4. CASE Drops BY <1>4, AlertDrops
<1>5. CASE RouterAlerts BY <1>5, AlertAlerts
<1>6. CASE RouterPublishes BY <1>6, AlertMoves DEF RouterPublishes
<1> QED BY <1>1, <1>2, <1>3, <1>4, <1>5, <1>6 DEF RouterWorks

(* Over is over: nothing is claimed of a live task that ended. *)
LEMMA AlertOver ==
  ASSUME AlertInv, step' = "over", UNCHANGED <<streak, degraded, alerts, recoveries>>
  PROVE  AlertInv'
  BY DEF AlertInv, OneAlertPerOutage, Streaked

LEMMA AlertStep == ASSUME AlertInv, Next PROVE AlertInv'
<1>1. CASE UNCHANGED routerVars
  BY <1>1, AlertUntouched DEF routerVars, alertVars
<1>2. CASE HandsOff
  BY <1>2, AlertMoves DEF HandsOff, RouterBuilt
<1>3. CASE Pulls
  <2>1. CASE RouterEnds
    BY <2>1, AlertOver DEF RouterEnds
  <2>2. ASSUME NEW u, RouterPulls(u) PROVE AlertInv'
    BY <2>2, AlertMoves DEF RouterPulls
  <2> QED BY <1>3, <2>1, <2>2 DEF Pulls
<1>4. CASE Discards
  <2>1. CASE step' = "over"
    BY <1>4, <2>1, AlertOver DEF Discards
  <2>2. CASE UNCHANGED step
    BY <1>4, <2>2, AlertUntouched DEF Discards, alertVars
  <2> QED BY <1>4, <2>1, <2>2 DEF Discards
<1>5. CASE RouterStep
  BY <1>5, AlertRouterWorks DEF RouterStep
<1>6. CASE RouterCut
  BY <1>6, AlertOver DEF RouterCut, RouterCancelled
<1> QED
  BY <1>1, <1>2, <1>3, <1>4, <1>5, <1>6
  DEF Next, LiveTask, FrameCaptured, CaptureEnds, PathWorks, PathReads, PathCut, Ended, vars

(* A router outage alerts once and recovers once, whatever the providers, the
   capture and the stop do in between. *)
THEOREM OneAlertAlways == Spec => []OneAlertPerOutage
<1>1. Init => AlertInv
  <2> SUFFICES ASSUME Init PROVE AlertInv
    OBVIOUS
  <2>1. DegradedAfter \in Nat /\ DegradedAfter > 0
    BY RouterAssumption
  <2>2. streak = 0 /\ alerts = 0 /\ recoveries = 0 /\ degraded = FALSE /\ step = "unbuilt"
    BY DEF Init, RouterInit
  <2>3. ~Streaked
    BY <2>1, <2>2 DEF Streaked
  <2> QED BY <2>1, <2>2, <2>3 DEF AlertInv, OneAlertPerOutage, Streaked
<1>2. AlertInv /\ [Next]_vars => AlertInv'
  <2> SUFFICES ASSUME AlertInv, [Next]_vars PROVE AlertInv'
    OBVIOUS
  <2>1. CASE Next BY <2>1, AlertStep
  <2>2. CASE UNCHANGED vars
    BY <2>2, AlertUntouched DEF vars, routerVars, alertVars
  <2> QED BY <2>1, <2>2
<1>3. AlertInv => OneAlertPerOutage
  BY DEF AlertInv
<1> QED BY <1>1, <1>2, <1>3, PTL DEF Spec

-----------------------------------------------------------------------------
(* Nobody left out.  The pair is fixed when the router is built, of providers
   the stream knew; utterances wait in the order they were captured, each later
   than the one in hand; and of the pair, everybody is still to be asked for
   the one in hand, was asked, or had been retired before it came. *)

CallShaped == shaped \in {<<>>, <<Primary>>, <<Fallback>>}

PairOK ==
  /\ pair \in Seq(Providers) /\ Len(pair) <= 2
  /\ step = "unbuilt" => dropped = {}

WaitingOK ==
  /\ now <= MaxFrames /\ utt \in 0 .. now
  /\ offered \in Seq(Nat)
  /\ \A i \in DOMAIN offered : offered[i] <= now /\ (offered[i] # Done => offered[i] > utt)
  /\ \A i, j \in DOMAIN offered : i < j /\ offered[j] # Done => offered[i] < offered[j]

ToAsk(p) == \E i \in DOMAIN asking : asking[i] = p

AskedOK ==
  /\ asked \in [1 .. MaxUtts -> SUBSET Providers]
  /\ retiredAt \in [Providers -> Nat] /\ \A p \in Providers : retiredAt[p] <= utt
  /\ dropped \subseteq 1 .. utt
  /\ step = "ask" =>
       /\ utt # 0 /\ asking \in Seq(Range(pair))
       /\ \A p \in Range(pair) :
            /\ ToAsk(p) => retiredAt[p] \in {0, utt}
            /\ p \in asked[utt] \/ ToAsk(p) \/ retiredAt[p] \in 1 .. utt - 1

RouterInv == CallShaped /\ PairOK /\ WaitingOK /\ AskedOK /\ LostOnlyAfterAll

LEMMA CallShapedStep == ASSUME CallShaped, Untold, [Next]_vars PROVE CallShaped'
<1>1. [StreamNext]_streamVars
  BY StreamSteps
<1>2. CASE UNCHANGED shaped
  BY <1>2 DEF CallShaped
<1>3. CASE OpenUnsupported
  BY <1>3 DEF OpenUnsupported, CallShaped, Untold
<1>4. CASE Captures \/ CaptureDone \/ Reading \/ VendorCloses \/ Cancelled \/ UNCHANGED streamVars
  BY <1>2, <1>4 DEF Captures, CaptureDone, Reading, TurnStarts, TurnGrows, TurnCloses, ReaderFrame,
     VendorCloses, Cancelled, streamVars, pathVars
<1>5. CASE Picks \/ OpenFails \/ Opened \/ Slept \/ Sending \/ Leaving
  BY <1>2, <1>5 DEF Picks, OpenFails, Opened, Slept, Sending, TakesDead, Takes, Written,
     ConnectionLost, TakesStop, Finished, Leaving, TornDown, Retires, Alerted, ClosesGap, Labelled
<1> QED BY <1>1, <1>3, <1>4, <1>5 DEF StreamNext, StreamWorks, Connecting

(* The steps that leave the router and the queue alone, the microphone apart. *)
PathMoves == PathWorks \/ PathReads \/ PathCut \/ UNCHANGED vars

LEMMA PathKeeps == ASSUME PathMoves PROVE UNCHANGED <<routerVars, offered, now>>
<1>1. UNCHANGED <<routerVars, offered>>
  BY DEF PathMoves, PathWorks, PathReads, PathCut, vars
<1>2. UNCHANGED now
  BY DEF PathMoves, PathWorks, PathReads, PathCut, vars, streamVars, feedVars, StreamWorks, Reading,
     TurnStarts, TurnGrows, TurnCloses, ReaderFrame, VendorCloses, Cancelled, Picks, Connecting,
     OpenFails, OpenUnsupported, Opened, Slept, Sending, TakesDead, Takes, Written, ConnectionLost,
     TakesStop, Finished, Leaving, TornDown, Retires, Alerted, ClosesGap, Labelled
<1> QED BY <1>1, <1>2

(* What the queue holds after an offer: what it held, its oldest perhaps gone,
   and the newcomer. *)
LEMMA OfferShifts ==
  ASSUME offered \in Seq(Nat), NEW x \in Nat, Offer(x)
  PROVE  /\ offered' \in Seq(Nat)
         /\ \E d \in {0, 1} :
              /\ Len(offered') = Len(offered) - d + 1
              /\ \A i \in DOMAIN offered' :
                   \/ i = Len(offered') /\ offered'[i] = x
                   \/ i < Len(offered') /\ i + d \in DOMAIN offered /\ offered'[i] = offered[i + d]
<1>0. QueueMax \in Nat /\ QueueMax # 0 /\ Len(offered) \in Nat
  BY LiveAssumption
<1>1. CASE Len(offered) = QueueMax
  <2>1. offered' = Append(Tail(offered), x) /\ offered # <<>>
    BY <1>0, <1>1 DEF Offer
  <2>2. Tail(offered) \in Seq(Nat) /\ Len(Tail(offered)) = Len(offered) - 1
        /\ \A i \in 1 .. Len(offered) - 1 : Tail(offered)[i] = offered[i + 1]
    BY <2>1
  <2>3. Len(offered') = Len(offered) /\ offered' \in Seq(Nat)
        /\ offered'[Len(offered)] = x
        /\ \A i \in 1 .. Len(offered) - 1 : offered'[i] = offered[i + 1]
    BY <1>0, <2>1, <2>2
  <2>4. ASSUME NEW i \in DOMAIN offered'
        PROVE  \/ i = Len(offered') /\ offered'[i] = x
               \/ i < Len(offered') /\ i + 1 \in DOMAIN offered /\ offered'[i] = offered[i + 1]
    <3>1. i \in Nat /\ i >= 1 /\ i <= Len(offered) /\ Len(offered') = Len(offered)
      BY <1>0, <2>3
    <3>2. CASE i = Len(offered)
      BY <2>3, <3>1, <3>2
    <3>3. CASE i # Len(offered)
      <4>1. i \in 1 .. Len(offered) - 1 /\ i + 1 \in 1 .. Len(offered)
        BY <1>0, <3>1, <3>3
      <4> QED BY <2>3, <3>1, <3>3, <4>1
    <3> QED BY <3>2, <3>3
  <2>5. Len(offered') = Len(offered) - 1 + 1
    BY <1>0, <2>3
  <2> QED BY <2>3, <2>4, <2>5
<1>2. CASE Len(offered) # QueueMax
  <2>1. offered' = Append(offered, x)
    BY <1>2 DEF Offer
  <2>2. Len(offered') = Len(offered) + 1 /\ offered' \in Seq(Nat)
        /\ offered'[Len(offered) + 1] = x
        /\ \A i \in 1 .. Len(offered) : offered'[i] = offered[i]
    BY <1>0, <2>1
  <2>3. ASSUME NEW i \in DOMAIN offered'
        PROVE  \/ i = Len(offered') /\ offered'[i] = x
               \/ i < Len(offered') /\ i + 0 \in DOMAIN offered /\ offered'[i] = offered[i + 0]
    BY <1>0, <2>2
  <2>4. Len(offered') = Len(offered) - 0 + 1
    BY <1>0, <2>2
  <2> QED BY <2>2, <2>3, <2>4
<1> QED BY <1>1, <1>2

(* The newest utterance, or the sentinel, joins the queue. *)
LEMMA OfferWaits ==
  ASSUME WaitingOK, StreamTypes, NEW x \in Nat, Offer(x), UNCHANGED utt, now' \in Nat,
         now' <= MaxFrames, x <= now', now <= now', x # Done => x > now
  PROVE  WaitingOK'
<1>0. now \in Nat /\ offered \in Seq(Nat) /\ utt \in 0 .. now /\ MaxFrames \in Nat /\ Done = 0
  BY StreamAssumption DEF WaitingOK, StreamTypes, Done
<1>1. PICK d \in {0, 1} :
        /\ Len(offered') = Len(offered) - d + 1
        /\ \A i \in DOMAIN offered' :
             \/ i = Len(offered') /\ offered'[i] = x
             \/ i < Len(offered') /\ i + d \in DOMAIN offered /\ offered'[i] = offered[i + d]
  BY <1>0, OfferShifts
<1>2. offered' \in Seq(Nat) /\ utt' \in 0 .. now'
  BY <1>0, OfferShifts
<1>3. ASSUME NEW i \in DOMAIN offered
      PROVE  offered[i] \in Nat /\ offered[i] <= now /\ (offered[i] # Done => offered[i] > utt)
  BY <1>0 DEF WaitingOK
<1>4. ASSUME NEW i \in DOMAIN offered'
      PROVE  offered'[i] <= now' /\ (offered'[i] # Done => offered'[i] > utt)
  <2>1. CASE offered'[i] = x
    BY <1>0, <2>1
  <2>2. CASE i + d \in DOMAIN offered /\ offered'[i] = offered[i + d]
    BY <1>0, <1>3, <2>2
  <2> QED BY <1>1, <2>1, <2>2
<1>5. ASSUME NEW i \in DOMAIN offered', NEW j \in DOMAIN offered', i < j, offered'[j] # Done
      PROVE  offered'[i] < offered'[j]
  <2>0. i \in Nat /\ j \in Nat /\ d \in Nat /\ Len(offered') \in Nat /\ j <= Len(offered')
    BY <1>2
  <2>1. i < Len(offered') /\ i + d \in DOMAIN offered /\ offered'[i] = offered[i + d]
    BY <1>1, <1>5, <2>0
  <2>2. CASE offered'[j] = x
    BY <1>0, <1>3, <1>5, <2>1, <2>2
  <2>3. CASE j + d \in DOMAIN offered /\ offered'[j] = offered[j + d]
    <3>1. i + d < j + d
      BY <1>5, <2>0
    <3> QED BY <1>5, <2>1, <2>3, <3>1 DEF WaitingOK
  <2> QED BY <1>1, <2>2, <2>3
<1>6. \A i \in DOMAIN offered' : offered'[i] <= now' /\ (offered'[i] # Done => offered'[i] > utt')
  BY <1>4
<1>7. \A i, j \in DOMAIN offered' : i < j /\ offered'[j] # Done => offered'[i] < offered'[j]
  BY <1>5
<1> QED BY <1>2, <1>6, <1>7 DEF WaitingOK, Done

(* The oldest leaves it, to be discarded or to become the one in hand. *)
LEMMA TailWaits ==
  ASSUME WaitingOK, StreamTypes, offered # <<>>, offered' = Tail(offered), UNCHANGED now,
         \/ utt' = utt
         \/ Head(offered) # Done /\ utt' = Head(offered)
  PROVE  WaitingOK'
<1>0. now \in Nat /\ offered \in Seq(Nat) /\ utt \in 0 .. now /\ Done = 0 /\ Len(offered) \in Nat
  BY DEF WaitingOK, StreamTypes, Done
<1>1. /\ offered' \in Seq(Nat) /\ DOMAIN offered' = 1 .. Len(offered) - 1
      /\ Head(offered) = offered[1] /\ 1 \in DOMAIN offered
  BY <1>0
<1>2. ASSUME NEW i \in DOMAIN offered'
      PROVE  i \in Nat /\ i >= 1 /\ i + 1 \in DOMAIN offered /\ offered'[i] = offered[i + 1]
  BY <1>0, <1>1
<1>3. utt' \in 0 .. now'
  <2>1. offered[1] \in Nat /\ offered[1] <= now
    BY <1>0, <1>1 DEF WaitingOK
  <2> QED BY <1>0, <1>1, <2>1
<1>4. ASSUME NEW i \in DOMAIN offered'
      PROVE  offered'[i] <= now' /\ (offered'[i] # Done => offered'[i] > utt')
  <2>1. offered[i + 1] <= now /\ (offered[i + 1] # Done => offered[i + 1] > utt)
    BY <1>2 DEF WaitingOK
  <2>2. 1 < i + 1
    BY <1>2
  <2>3. offered[i + 1] # Done => offered[1] < offered[i + 1]
    BY <1>1, <1>2, <2>2 DEF WaitingOK
  <2> QED BY <1>1, <1>2, <2>1, <2>3
<1>5. ASSUME NEW i \in DOMAIN offered', NEW j \in DOMAIN offered', i < j, offered'[j] # Done
      PROVE  offered'[i] < offered'[j]
  <2>1. i + 1 < j + 1
    BY <1>2, <1>5
  <2> QED BY <1>2, <1>5, <2>1 DEF WaitingOK
<1>6. \A i \in DOMAIN offered' : offered'[i] <= now' /\ (offered'[i] # Done => offered'[i] > utt')
  BY <1>4
<1>7. \A i, j \in DOMAIN offered' : i < j /\ offered'[j] # Done => offered'[i] < offered'[j]
  BY <1>5
<1> QED BY <1>1, <1>3, <1>6, <1>7 DEF WaitingOK, Done

LEMMA WaitingStep == ASSUME WaitingOK, StreamTypes, [Next]_vars PROVE WaitingOK'
<1>0. now \in Nat /\ offered \in Seq(Nat) /\ utt \in 0 .. now /\ MaxFrames \in Nat /\ Done = 0
      /\ now <= MaxFrames
  BY StreamAssumption DEF WaitingOK, StreamTypes, Done
<1>1. CASE UNCHANGED <<now, offered, utt>>
  BY <1>1 DEF WaitingOK
<1>2. CASE FrameCaptured
  <2>1. now < MaxFrames /\ now' = now + 1 /\ UNCHANGED utt
    BY <1>2 DEF FrameCaptured, Captures, routerVars
  <2>2. CASE UNCHANGED offered
    BY <1>0, <2>1, <2>2 DEF WaitingOK
  <2>3. CASE Offer(now')
    <3>1. now + 1 \in Nat /\ now + 1 <= MaxFrames /\ now + 1 > now /\ Offer(now + 1)
      BY <1>0, <2>1, <2>3
    <3> QED BY <1>0, <2>1, <3>1, OfferWaits
  <2> QED BY <1>2, <2>2, <2>3 DEF FrameCaptured
<1>3. CASE CaptureEnds
  <2>1. UNCHANGED <<now, utt>> /\ Offer(Done) /\ Done \in Nat
    BY <1>0, <1>3 DEF CaptureEnds, CaptureDone, routerVars
  <2> QED BY <1>0, <2>1, OfferWaits
<1>4. CASE Pulls
  <2>1. offered # <<>> /\ offered' = Tail(offered) /\ UNCHANGED now
    BY <1>4 DEF Pulls, streamVars, feedVars
  <2>2. utt' = utt \/ (Head(offered) # Done /\ utt' = Head(offered))
    BY <1>4 DEF Pulls, RouterEnds, RouterPulls
  <2> QED BY <2>1, <2>2, TailWaits
<1>5. CASE Discards
  <2>1. offered # <<>> /\ offered' = Tail(offered) /\ UNCHANGED <<now, utt>>
    BY <1>5 DEF Discards, streamVars, feedVars
  <2> QED BY <2>1, TailWaits
<1>6. CASE PathMoves
  BY <1>1, <1>6, PathKeeps DEF routerVars
<1>7. CASE HandsOff \/ RouterStep \/ RouterCut \/ Ended
  <2>1. UNCHANGED <<now, offered>>
    BY <1>7 DEF HandsOff, RouterStep, RouterCut, Ended, vars, streamVars, feedVars
  <2>2. UNCHANGED utt
    BY <1>7 DEF HandsOff, RouterBuilt, RouterStep, RouterWorks, Answers, Fails, GivesUp, Drops,
       RouterAlerts, RouterPublishes, RouterCut, RouterCancelled, Ended, vars, routerVars
  <2> QED BY <1>1, <2>1, <2>2
<1> QED BY <1>2, <1>3, <1>4, <1>5, <1>6, <1>7 DEF Next, LiveTask, PathMoves

-----------------------------------------------------------------------------
(* The pair, and the candidates _viable() takes from it. *)

LEMMA HandoffPair == ASSUME CallShaped PROVE Handoff \in Seq(Providers) /\ Len(Handoff) <= 2
<1>1. Primary \in Providers /\ Fallback \in Providers
  BY LiveAssumption
<1>2. PICK rest \in {<<>>, <<Fallback>>} :
        Handoff = IF shaped # <<>> THEN shaped \o rest
                  ELSE IF shape[Fallback] = "call" THEN rest ELSE <<>>
  BY DEF Handoff
<1>0. ASSUME NEW p \in Providers PROVE <<p>> \in Seq(Providers) /\ Len(<<p>>) = 1
  OBVIOUS
<1>00. <<>> \in Seq(Providers) /\ Len(<<>>) = 0
  OBVIOUS
<1>3. rest \in Seq(Providers) /\ Len(rest) <= 1
  <2>1. CASE rest = <<>>
    BY <1>00, <2>1
  <2>2. CASE rest = <<Fallback>>
    BY <1>0, <1>1, <2>2
  <2> QED BY <1>2, <2>1, <2>2
<1>4. shaped \in Seq(Providers) /\ Len(shaped) <= 1
  <2>1. CASE shaped = <<>>
    BY <1>00, <2>1
  <2>2. CASE shaped = <<Primary>>
    BY <1>0, <1>1, <2>2
  <2>3. CASE shaped = <<Fallback>>
    BY <1>0, <1>1, <2>3
  <2> QED BY <2>1, <2>2, <2>3 DEF CallShaped
<1>5. shaped \o rest \in Seq(Providers) /\ Len(shaped \o rest) <= 2
  BY <1>3, <1>4
<1> QED BY <1>2, <1>3, <1>5

LEMMA PairStep == ASSUME PairOK, CallShaped, [Next]_vars PROVE PairOK'
<1>1. CASE UNCHANGED <<pair, step, dropped>>
  BY <1>1 DEF PairOK
<1>2. CASE UNCHANGED pair /\ step # "unbuilt" /\ step' # "unbuilt"
  BY <1>2 DEF PairOK
<1>3. CASE HandsOff
  BY <1>3, HandoffPair DEF PairOK, HandsOff, RouterBuilt
<1>4. CASE PathMoves \/ FrameCaptured \/ CaptureEnds \/ Ended
  BY <1>1, <1>4, PathKeeps DEF FrameCaptured, CaptureEnds, Ended, vars, routerVars
<1>5. CASE Pulls
  BY <1>2, <1>5 DEF Pulls, RouterEnds, RouterPulls
<1>6. CASE RouterStep
  BY <1>2, <1>6 DEF RouterStep, RouterWorks, Answers, Fails, GivesUp, Drops, RouterAlerts,
     RouterPublishes
<1>7. CASE Discards \/ RouterCut
  BY <1>7 DEF PairOK, Discards, RouterCut, RouterCancelled
<1> QED BY <1>3, <1>4, <1>5, <1>6, <1>7 DEF Next, LiveTask, PathMoves

LEMMA ViableAre ==
  ASSUME PairOK
  PROVE  /\ Viable \in Seq(Range(pair))
         /\ \A p \in Range(pair) :
              (\E i \in DOMAIN Viable : Viable[i] = p) <=> retiredAt[p] = 0
<1>0. Len(pair) \in 0 .. 2 /\ DOMAIN pair = 1 .. Len(pair)
  <2>1. pair \in Seq(Providers) /\ Len(pair) <= 2
    BY DEF PairOK
  <2>2. Len(pair) \in Nat /\ DOMAIN pair = 1 .. Len(pair)
    BY <2>1
  <2> QED BY <2>1, <2>2
<1>1. ASSUME NEW i \in {1, 2}
      PROVE  /\ Still(i) \in Seq(Range(pair)) /\ Len(Still(i)) \in {0, 1}
             /\ Len(Still(i)) = 1 => i \in DOMAIN pair /\ Still(i)[1] = pair[i] /\ retiredAt[pair[i]] = 0
             /\ i \in DOMAIN pair /\ retiredAt[pair[i]] = 0 => Len(Still(i)) = 1
  <2>1. CASE i \in DOMAIN pair /\ retiredAt[pair[i]] = 0
    <3>1. Still(i) = <<pair[i]>> /\ pair[i] \in Range(pair)
      BY <2>1 DEF Still, Range
    <3> QED BY <2>1, <3>1
  <2>2. CASE ~(i \in DOMAIN pair /\ retiredAt[pair[i]] = 0)
    <3>1. Still(i) = <<>>
      BY <2>2 DEF Still
    <3> QED BY <2>2, <3>1
  <2> QED BY <2>1, <2>2
<1>2. PICK a, b : a = Still(1) /\ b = Still(2)
  OBVIOUS
<1>3. /\ a \in Seq(Range(pair)) /\ Len(a) \in {0, 1}
      /\ Len(a) = 1 => 1 \in DOMAIN pair /\ a[1] = pair[1] /\ retiredAt[pair[1]] = 0
      /\ 1 \in DOMAIN pair /\ retiredAt[pair[1]] = 0 => Len(a) = 1
  BY <1>1, <1>2
<1>4. /\ b \in Seq(Range(pair)) /\ Len(b) \in {0, 1}
      /\ Len(b) = 1 => 2 \in DOMAIN pair /\ b[1] = pair[2] /\ retiredAt[pair[2]] = 0
      /\ 2 \in DOMAIN pair /\ retiredAt[pair[2]] = 0 => Len(b) = 1
  BY <1>1, <1>2
<1>5. Viable = a \o b
  BY <1>2 DEF Viable
<1>6. /\ a \o b \in Seq(Range(pair)) /\ Len(a \o b) = Len(a) + Len(b)
      /\ \A i \in 1 .. Len(a) + Len(b) :
           (a \o b)[i] = IF i <= Len(a) THEN a[i] ELSE b[i - Len(a)]
  BY <1>3, <1>4
<1>7. ASSUME NEW p \in Range(pair), NEW i \in DOMAIN (a \o b), (a \o b)[i] = p
      PROVE  retiredAt[p] = 0
  <2>1. i \in 1 .. Len(a) + Len(b)
    BY <1>6, <1>7
  <2>2. CASE i <= Len(a)
    <3>1. i = 1 /\ Len(a) = 1
      <4>1. i \in Int /\ i >= 1 /\ (Len(a) = 0 \/ Len(a) = 1)
        BY <1>3, <2>1
      <4>2. CASE Len(a) = 0
        <5>1. i <= 0
          BY <2>2, <4>2
        <5> QED BY <4>1, <5>1
      <4>3. CASE Len(a) = 1
        <5>1. i <= 1
          BY <2>2, <4>3
        <5> QED BY <4>1, <4>3, <5>1
      <4> QED BY <4>1, <4>2, <4>3
    <3> QED BY <1>3, <1>6, <1>7, <2>1, <3>1
  <2>3. CASE i > Len(a)
    <3>1. i - Len(a) = 1 /\ Len(b) = 1 /\ (a \o b)[i] = b[i - Len(a)]
      BY <1>3, <1>4, <1>6, <2>1, <2>3
    <3> QED BY <1>4, <1>7, <3>1
  <2> QED BY <1>3, <2>1, <2>2, <2>3
<1>8. ASSUME NEW p \in Range(pair), retiredAt[p] = 0
      PROVE  \E i \in DOMAIN (a \o b) : (a \o b)[i] = p
  <2>1. PICK n \in DOMAIN pair : pair[n] = p
    BY DEF Range
  <2>2. n = 1 \/ n = 2
    BY <1>0
  <2>3. CASE n = 1
    <3>1. Len(a) = 1 /\ a[1] = p
      BY <1>3, <1>8, <2>1, <2>3
    <3>2. 1 \in 1 .. Len(a) + Len(b) /\ (a \o b)[1] = p
      BY <1>4, <1>6, <3>1
    <3> QED BY <1>6, <3>2
  <2>4. CASE n = 2
    <3>1. Len(b) = 1 /\ b[1] = p
      BY <1>4, <1>8, <2>1, <2>4
    <3>2. Len(a) + 1 \in 1 .. Len(a) + Len(b) /\ (a \o b)[Len(a) + 1] = p
      <4>1. Len(a) + 1 \in 1 .. Len(a) + Len(b) /\ ~(Len(a) + 1 <= Len(a)) /\ Len(a) + 1 - Len(a) = 1
        BY <1>3, <3>1
      <4> QED BY <1>6, <3>1, <4>1
    <3> QED BY <1>6, <3>2
  <2> QED BY <2>2, <2>3, <2>4
<1> QED BY <1>5, <1>6, <1>7, <1>8

-----------------------------------------------------------------------------
(* Who was asked. *)

(* A step that asks nobody anything. *)
LEMMA AskedQuiet ==
  ASSUME AskedOK, UNCHANGED <<pair, utt, asking, asked, retiredAt, dropped>>,
         step' = "ask" => step = "ask"
  PROVE  AskedOK'
<1>1. ASSUME NEW p PROVE ToAsk(p)' <=> ToAsk(p)
  BY DEF ToAsk
<1> QED BY <1>1 DEF AskedOK

(* The next utterance: everybody who is still viable is to be asked. *)
LEMMA AskedPulls ==
  ASSUME AskedOK, PairOK, WaitingOK, StreamTypes, Pulls
  PROVE  AskedOK'
<1>1. CASE RouterEnds
  BY <1>1, AskedQuiet DEF RouterEnds
<1>2. CASE Head(offered) # Done /\ RouterPulls(Head(offered))
  <2>1. /\ UNCHANGED <<pair, asked, retiredAt, dropped>> /\ asking' = Viable
        /\ utt' = Head(offered)
    BY <1>2 DEF RouterPulls
  <2>2. utt \in Nat /\ utt' \in Nat /\ utt' > utt
    <3>1. offered \in Seq(Nat) /\ offered # <<>> /\ now \in Nat /\ utt \in 0 .. now
      BY DEF WaitingOK, StreamTypes, Pulls
    <3>2. 1 \in DOMAIN offered /\ Head(offered) = offered[1] /\ offered[1] \in Nat
      BY <3>1
    <3>3. offered[1] > utt
      BY <1>2, <3>2 DEF WaitingOK
    <3> QED BY <2>1, <3>1, <3>2, <3>3
  <2>3. ASSUME NEW p \in Range(pair) PROVE p \in Providers
    BY DEF PairOK, Range
  <2>4. ASSUME NEW p \in Providers PROVE retiredAt[p] \in Nat /\ retiredAt[p] <= utt
    BY DEF AskedOK
  <2>5. ASSUME NEW p \in Range(pair) PROVE ToAsk(p)' <=> retiredAt[p] = 0
    <3>1. ToAsk(p)' <=> \E i \in DOMAIN Viable : Viable[i] = p
      BY <2>1 DEF ToAsk
    <3> QED BY <3>1, ViableAre
  <2>6. \A p \in Range(pair)' :
          /\ ToAsk(p)' => retiredAt'[p] \in {0, utt'}
          /\ p \in asked'[utt'] \/ ToAsk(p)' \/ retiredAt'[p] \in 1 .. utt' - 1
    <3> SUFFICES ASSUME NEW p \in Range(pair)
                 PROVE  /\ ToAsk(p)' => retiredAt[p] = 0
                        /\ ToAsk(p)' \/ retiredAt[p] \in 1 .. utt' - 1
      BY <2>1
    <3>1. retiredAt[p] \in Nat /\ retiredAt[p] <= utt
      BY <2>3, <2>4
    <3> QED BY <2>2, <2>5, <3>1
  <2>7. asking' \in Seq(Range(pair)')
    BY <2>1, ViableAre
  <2>8. /\ asked' \in [1 .. MaxUtts -> SUBSET Providers]
        /\ retiredAt' \in [Providers -> Nat] /\ \A p \in Providers : retiredAt'[p] <= utt'
        /\ dropped' \subseteq 1 .. utt' /\ utt' # 0
    <3>1. asked' \in [1 .. MaxUtts -> SUBSET Providers] /\ retiredAt' \in [Providers -> Nat]
      BY <2>1 DEF AskedOK
    <3>2. ASSUME NEW p \in Providers PROVE retiredAt'[p] <= utt'
      BY <2>1, <2>2, <2>4
    <3>3. dropped' \subseteq 1 .. utt' /\ utt' # 0
      BY <2>1, <2>2 DEF AskedOK
    <3> QED BY <3>1, <3>2, <3>3
  <2> QED BY <2>6, <2>7, <2>8 DEF AskedOK
<1> QED BY <1>1, <1>2 DEF Pulls

(* What every answer and every failure starts from. *)
LEMMA AskedOf ==
  ASSUME AskedOK, WaitingOK, StreamTypes, PairOK, step = "ask"
  PROVE  /\ utt \in 1 .. MaxUtts /\ utt \in Nat /\ asked[utt] \subseteq Providers
         /\ asking \in Seq(Range(pair)) /\ Range(pair) \subseteq Providers
<1>1. Range(pair) \subseteq Providers
  BY DEF PairOK, Range
<1>2. utt \in Nat /\ utt # 0 /\ utt <= MaxUtts /\ MaxUtts \in Nat
  <2>1. now \in Nat /\ now <= MaxFrames /\ utt \in 0 .. now
    BY DEF StreamTypes, WaitingOK
  <2>2. MaxFrames \in Nat /\ MaxUtts \in Nat /\ MaxFrames <= MaxUtts
    BY StreamAssumption, RouterAssumption, LiveAssumption
  <2>3. utt # 0
    BY DEF AskedOK
  <2> QED BY <2>1, <2>2, <2>3
<1>3. utt \in 1 .. MaxUtts
  BY <1>2
<1>4. asked[utt] \subseteq Providers /\ asking \in Seq(Range(pair))
  BY <1>3 DEF AskedOK
<1> QED BY <1>1, <1>2, <1>3, <1>4

(* Asking somebody: whoever was asked before still was. *)
LEMMA AskedGrows ==
  ASSUME AskedOK, WaitingOK, StreamTypes, PairOK, step = "ask", asking # <<>>,
         asked' = [asked EXCEPT ![utt] = @ \cup {Head(asking)}]
  PROVE  /\ asked' \in [1 .. MaxUtts -> SUBSET Providers]
         /\ Head(asking) \in Range(pair) /\ Head(asking) \in asked'[utt]
         /\ \A u \in 1 .. MaxUtts : asked[u] \subseteq asked'[u]
<1>1. /\ utt \in 1 .. MaxUtts /\ asked[utt] \subseteq Providers
      /\ asking \in Seq(Range(pair)) /\ Range(pair) \subseteq Providers
  BY AskedOf
<1>2. Head(asking) \in Range(pair)
  BY <1>1
<1>3. asked \in [1 .. MaxUtts -> SUBSET Providers]
  BY DEF AskedOK
<1> QED BY <1>1, <1>2, <1>3

LEMMA AskedFails ==
  ASSUME AskedOK, WaitingOK, StreamTypes, PairOK, LostOnlyAfterAll, Fails
  PROVE  AskedOK' /\ LostOnlyAfterAll'
<1> DEFINE h == Head(asking)
<1>1. /\ step = "ask" /\ asking # <<>> /\ asking' = Tail(asking)
      /\ UNCHANGED <<pair, step, utt, dropped>>
      /\ asked' = [asked EXCEPT ![utt] = @ \cup {h}]
      /\ retiredAt' = retiredAt \/ retiredAt' = [retiredAt EXCEPT ![h] = utt]
  BY DEF Fails
<1>2. /\ utt \in Nat /\ utt \in 1 .. MaxUtts /\ asking \in Seq(Range(pair))
      /\ Range(pair) \subseteq Providers
  BY <1>1, AskedOf
<1>3. /\ asked' \in [1 .. MaxUtts -> SUBSET Providers] /\ h \in Range(pair) /\ h \in asked'[utt]
      /\ \A u \in 1 .. MaxUtts : asked[u] \subseteq asked'[u]
  BY <1>1, AskedGrows
<1>4. /\ retiredAt \in [Providers -> Nat] /\ \A p \in Providers : retiredAt[p] <= utt
      /\ dropped \subseteq 1 .. utt
  BY DEF AskedOK
<1>5. /\ retiredAt' \in [Providers -> Nat]
      /\ \A p \in Providers : retiredAt'[p] = retiredAt[p] \/ (p = h /\ retiredAt'[p] = utt)
  BY <1>1, <1>2, <1>3, <1>4
<1>6. ASSUME NEW p \in Range(pair)
      PROVE  /\ ToAsk(p)' => ToAsk(p)
             /\ ToAsk(p) => p = h \/ ToAsk(p)'
  <2>1. /\ DOMAIN asking = 1 .. Len(asking) /\ Len(asking) \in Nat /\ h = asking[1]
        /\ DOMAIN asking' = 1 .. Len(asking) - 1
        /\ \A i \in 1 .. Len(asking) - 1 : asking'[i] = asking[i + 1]
    BY <1>1, <1>2
  <2>2. ASSUME NEW i \in DOMAIN asking', asking'[i] = p PROVE ToAsk(p)
    <3>1. i + 1 \in DOMAIN asking /\ asking[i + 1] = p
      BY <2>1, <2>2
    <3> QED BY <3>1 DEF ToAsk
  <2>3. ASSUME NEW i \in DOMAIN asking, asking[i] = p, p # h PROVE ToAsk(p)'
    <3>1. i \in Nat /\ i # 1 /\ i >= 1 /\ i <= Len(asking)
      BY <2>1, <2>3
    <3>2. i - 1 \in 1 .. Len(asking) - 1 /\ (i - 1) + 1 = i
      BY <2>1, <3>1
    <3>3. asking'[i - 1] = p
      BY <2>1, <2>3, <3>2
    <3> QED BY <2>1, <3>2, <3>3 DEF ToAsk
  <2> QED BY <2>2, <2>3 DEF ToAsk
<1>7. ASSUME NEW p \in Range(pair)
      PROVE  /\ ToAsk(p) => retiredAt[p] \in {0, utt}
             /\ p \in asked[utt] \/ ToAsk(p) \/ retiredAt[p] \in 1 .. utt - 1
             /\ p \in Providers
  BY <1>1, <1>2 DEF AskedOK
<1>8. ASSUME NEW p \in Range(pair), retiredAt[p] \in 1 .. utt - 1
      PROVE  retiredAt'[p] = retiredAt[p] \/ p \in asked'[utt]
  BY <1>3, <1>5, <1>7
<1>9. ASSUME NEW p \in Range(pair)
      PROVE  /\ ToAsk(p)' => retiredAt'[p] \in {0, utt}
             /\ p \in asked'[utt] \/ ToAsk(p)' \/ retiredAt'[p] \in 1 .. utt - 1
  BY <1>2, <1>3, <1>5, <1>6, <1>7, <1>8
<1>10. AskedOK'
  <2>1. asking' \in Seq(Range(pair))
    BY <1>1, <1>2
  <2>2. \A p \in Providers : retiredAt'[p] <= utt
    BY <1>2, <1>4, <1>5
  <2>3. utt # 0
    BY <1>2
  <2>4. \A p \in Range(pair)' :
          /\ ToAsk(p)' => retiredAt'[p] \in {0, utt'}
          /\ p \in asked'[utt'] \/ ToAsk(p)' \/ retiredAt'[p] \in 1 .. utt' - 1
    BY <1>1, <1>9
  <2>5. asking' \in Seq(Range(pair)') /\ \A p \in Providers : retiredAt'[p] <= utt'
    BY <1>1, <2>1, <2>2
  <2> QED BY <1>1, <1>3, <1>4, <1>5, <2>3, <2>4, <2>5 DEF AskedOK
<1>11. LostOnlyAfterAll'
  <2> SUFFICES ASSUME NEW u \in dropped, NEW p \in Range(pair)
               PROVE  p \in asked'[u] \/ retiredAt'[p] \in 1 .. u - 1
    BY <1>1 DEF LostOnlyAfterAll
  <2>1. u \in 1 .. utt /\ u \in 1 .. MaxUtts
    <3>1. u \in 1 .. utt /\ MaxUtts \in Nat /\ utt <= MaxUtts
      BY <1>2, <1>4, RouterAssumption
    <3> QED BY <1>2, <3>1
  <2>2. p \in asked[u] \/ retiredAt[p] \in 1 .. u - 1
    BY DEF LostOnlyAfterAll
  <2>3. CASE p \in asked[u]
    BY <1>3, <2>1, <2>3
  <2>4. CASE retiredAt[p] \in 1 .. u - 1 /\ retiredAt'[p] = retiredAt[p]
    BY <2>4
  <2>5. CASE retiredAt[p] \in 1 .. u - 1 /\ p = h
    <3>1. ToAsk(p)
      <4>1. 1 \in DOMAIN asking /\ asking[1] = h
        BY <1>1, <1>2
      <4> QED BY <2>5, <4>1 DEF ToAsk
    <3>2. retiredAt[p] = 0 \/ retiredAt[p] = utt
      BY <1>7, <3>1
    <3> QED BY <1>2, <2>1, <2>5, <3>2
  <2> QED BY <1>5, <1>7, <2>2, <2>3, <2>4, <2>5
<1> QED BY <1>10, <1>11

LEMMA AskedAnswers ==
  ASSUME AskedOK, WaitingOK, StreamTypes, PairOK, LostOnlyAfterAll, Answers
  PROVE  AskedOK' /\ LostOnlyAfterAll'
<1>1. /\ step = "ask" /\ asking # <<>> /\ step' # "ask"
      /\ UNCHANGED <<pair, utt, retiredAt, dropped>>
      /\ asked' = [asked EXCEPT ![utt] = @ \cup {Head(asking)}]
  BY DEF Answers
<1>2. utt \in Nat /\ utt \in 1 .. MaxUtts
  BY <1>1, AskedOf
<1>3. /\ asked' \in [1 .. MaxUtts -> SUBSET Providers]
      /\ \A u \in 1 .. MaxUtts : asked[u] \subseteq asked'[u]
  BY <1>1, AskedGrows
<1>4. AskedOK'
  BY <1>1, <1>3 DEF AskedOK
<1>5. \A u \in dropped : u \in 1 .. MaxUtts
  <2>1. dropped \subseteq 1 .. utt /\ MaxUtts \in Nat /\ utt <= MaxUtts
    BY <1>2, RouterAssumption DEF AskedOK
  <2> QED BY <1>2, <2>1
<1>6. LostOnlyAfterAll'
  BY <1>1, <1>3, <1>5 DEF LostOnlyAfterAll
<1> QED BY <1>4, <1>6

(* An utterance is dropped when nobody is left to ask. *)
LEMMA AskedDrops ==
  ASSUME AskedOK, WaitingOK, StreamTypes, PairOK, LostOnlyAfterAll, Drops
  PROVE  AskedOK' /\ LostOnlyAfterAll'
<1>1. /\ step = "ask" /\ asking = <<>> /\ step' # "ask" /\ dropped' = dropped \cup {utt}
      /\ UNCHANGED <<pair, utt, asked, retiredAt>>
  BY DEF Drops
<1>2. utt \in Nat /\ utt \in 1 .. MaxUtts
  BY <1>1, AskedOf
<1>3. ASSUME NEW p \in Range(pair) PROVE p \in asked[utt] \/ retiredAt[p] \in 1 .. utt - 1
  <2>1. ~ToAsk(p)
    BY <1>1 DEF ToAsk
  <2> QED BY <1>1, <2>1 DEF AskedOK
<1>4. dropped' \subseteq 1 .. utt
  BY <1>1, <1>2 DEF AskedOK
<1>5. AskedOK'
  BY <1>1, <1>4 DEF AskedOK
<1>6. LostOnlyAfterAll'
  BY <1>1, <1>3 DEF LostOnlyAfterAll
<1> QED BY <1>5, <1>6

LEMMA AskedStep ==
  ASSUME AskedOK, WaitingOK, StreamTypes, PairOK, LostOnlyAfterAll, [Next]_vars
  PROVE  AskedOK' /\ LostOnlyAfterAll'
<1>1. CASE Fails BY <1>1, AskedFails
<1>2. CASE Answers BY <1>2, AskedAnswers
<1>3. CASE Drops BY <1>3, AskedDrops
<1>4. ASSUME UNCHANGED <<pair, asked, retiredAt, dropped>> PROVE LostOnlyAfterAll'
  BY <1>4 DEF LostOnlyAfterAll
<1>5. CASE Pulls
  <2>1. UNCHANGED <<pair, asked, retiredAt, dropped>>
    BY <1>5 DEF Pulls, RouterEnds, RouterPulls
  <2> QED BY <1>4, <1>5, <2>1, AskedPulls
<1>6. CASE UNCHANGED <<pair, utt, asking, asked, retiredAt, dropped>> /\ (step' = "ask" => step = "ask")
  BY <1>4, <1>6, AskedQuiet
<1>7. CASE GivesUp \/ RouterAlerts \/ RouterPublishes
  BY <1>6, <1>7 DEF GivesUp, RouterAlerts, RouterPublishes
<1>8. CASE Discards \/ RouterCut
  BY <1>6, <1>8 DEF Discards, RouterCut, RouterCancelled
<1>9. CASE PathMoves \/ FrameCaptured \/ CaptureEnds \/ Ended
  BY <1>6, <1>9, PathKeeps DEF FrameCaptured, CaptureEnds, Ended, vars, routerVars
<1>10. CASE HandsOff
  <2>1. /\ UNCHANGED <<utt, asking, asked, retiredAt, dropped>> /\ step' # "ask"
        /\ step = "unbuilt"
    BY <1>10 DEF HandsOff, RouterBuilt
  <2>2. dropped = {}
    BY <2>1 DEF PairOK
  <2> QED BY <2>1, <2>2 DEF AskedOK, LostOnlyAfterAll
<1> QED
  BY <1>1, <1>2, <1>3, <1>5, <1>7, <1>8, <1>9, <1>10
  DEF Next, LiveTask, PathMoves, RouterStep, RouterWorks

(* Nobody is left out: an utterance the router gives up was asked of the
   primary and of the fallback, whatever they answered to others before and
   whichever of them the stream left, unless an earlier one had retired
   them. *)
THEOREM LostAlwaysAfterAll == Spec => []LostOnlyAfterAll
<1>1. Init => RouterInv
  <2> SUFFICES ASSUME Init PROVE RouterInv
    OBVIOUS
  <2>1. /\ shaped = <<>> /\ pair = <<>> /\ step = "unbuilt" /\ utt = 0 /\ now = 0 /\ offered = <<>>
        /\ dropped = {} /\ asked = [u \in 1 .. MaxUtts |-> {}]
        /\ retiredAt = [p \in Providers |-> 0] /\ MaxFrames \in Nat
    BY StreamAssumption DEF Init, StreamInit, RouterInit
  <2>2. CallShaped /\ PairOK
    BY <2>1 DEF CallShaped, PairOK
  <2>3. WaitingOK
    BY <2>1 DEF WaitingOK
  <2>4. AskedOK
    BY <2>1 DEF AskedOK
  <2>5. LostOnlyAfterAll
    BY <2>1 DEF LostOnlyAfterAll
  <2> QED BY <2>2, <2>3, <2>4, <2>5 DEF RouterInv
<1>2. RouterInv /\ StreamInv /\ [Next]_vars => RouterInv'
  <2> SUFFICES ASSUME RouterInv, StreamInv, [Next]_vars PROVE RouterInv'
    OBVIOUS
  <2>1. Untold /\ StreamTypes
    BY DEF StreamInv, RowInv
  <2> QED BY <2>1, CallShapedStep, PairStep, WaitingStep, AskedStep DEF RouterInv
<1>3. RouterInv => LostOnlyAfterAll
  BY DEF RouterInv
<1> QED BY <1>1, <1>2, <1>3, StreamAlways, PTL DEF Spec
=============================================================================
