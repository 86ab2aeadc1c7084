---------------------------- MODULE SocketProofs ----------------------------
(***************************************************************************)
(* Theorems about sockets: those the connectors open to their vendors,     *)
(* which are opened without a leak, write what the service settled and are *)
(* left between two turns, for any number of connects and turns; those of  *)
(* the dashboard's panes, for every length of the log's ring and of a      *)
(* subscriber's queue; and the calls that answer one utterance each.       *)
(***************************************************************************)
EXTENDS ServiceProps, TurnProofs, FiniteSetTheorems

(* Every step of the sum is a step of the machine the behaviour is of. *)
LEMMA MachineStays == [Next]_vars => machine' = machine
  BY DEF Next, vars, ConnectorNext, StreamNext, HandshakeStep, CallStep, BatchStep, RoomNext

-----------------------------------------------------------------------------
(* The sockets of one connector.  Between calls the open one is the stored one,
   within a call the one in hand; and a second attempt has learnt something. *)
Params == {"keyterm", "labels", "resumption", "prompt", "required", "model"}

HandshakeType ==
  [vendor : HS!Vendors, refuses : SUBSET Params, pc : {"idle", "closing", "connect", "answer"},
   attempt : {0, 1, 2}, next : Nat \ {0}, open : SUBSET Nat, closing : SUBSET Nat, cur : Nat,
   stored : Nat, dropped : SUBSET Params,
   outcome : {"none", "open", "closed", "failed", "unsupported", "cancelled"},
   luck : BOOLEAN, learnt : BOOLEAN]

HandCore(h) ==
  /\ h \in HandshakeType
  /\ \A s \in h.open \cup h.closing \cup {h.cur, h.stored} : s < h.next
  /\ h.refuses \subseteq HS!Optional[h.vendor] \cup {"required", "model"}
  /\ h.open \ h.closing = {h.cur, h.stored} \ {0}
  /\ h.attempt = 2 => h.learnt

HandBooks(h) ==
  /\ h.outcome = "failed" /\ h.luck =>
       h.learnt \/ "required" \in h.refuses \/ (h.vendor = "xai" /\ "model" \in h.refuses)
  /\ h.outcome = "unsupported" => "model" \in h.refuses

HandshakeGood(h) ==
  /\ HandCore(h) /\ HandBooks(h)
  /\ h.pc = "idle" => h.cur = 0
  /\ h.pc # "idle" => h.stored = 0 /\ h.attempt \in {1, 2} /\ h.outcome = "none"
  /\ h.pc \in {"closing", "connect"} => h.cur = 0

LEMMA Optionals ==
  ASSUME NEW v \in HS!Vendors
  PROVE  /\ HS!Optional[v] \subseteq Params \ {"required", "model"}
         /\ v = "xai" => HS!Optional[v] = {}
  <1>1. HS!Optional[v] = CASE v \in {"deepgram", "assemblyai"} -> {"keyterm", "labels"}
                           [] v = "gemini" -> {"resumption"}
                           [] v = "openai" -> {"prompt"}
                           [] v = "xai"    -> {}
    BY DEF HS!Optional
  <1>2. CASE v \in {"deepgram", "assemblyai"}
    BY <1>1, <1>2 DEF Params
  <1>3. CASE v = "gemini"
    BY <1>1, <1>3 DEF Params
  <1>4. CASE v = "openai"
    BY <1>1, <1>4 DEF Params
  <1>5. CASE v = "xai"
    BY <1>1, <1>5
  <1> QED BY <1>2, <1>3, <1>4, <1>5 DEF HS!Vendors

(* A call that is over has let go of the socket in hand. *)
LEMMA Lets ==
  ASSUME NEW h, HandCore(h), NEW s \in {h.cur, h.stored}, NEW g, g = HS!Drops(h, s)
  PROVE  /\ g \in HandshakeType /\ g.open \ g.closing = {h.cur, h.stored} \ {0, s}
         /\ (\A x \in g.open \cup g.closing : x < h.next)
         /\ g.vendor = h.vendor /\ g.refuses = h.refuses /\ g.pc = h.pc /\ g.attempt = h.attempt
         /\ g.next = h.next /\ g.open = h.open /\ g.cur = h.cur /\ g.stored = h.stored
         /\ g.dropped = h.dropped /\ g.outcome = h.outcome /\ g.luck = h.luck /\ g.learnt = h.learnt
  <1>1. h \in HandshakeType /\ h.open \ h.closing = {h.cur, h.stored} \ {0} /\ s \in Nat /\ s < h.next
        /\ \A x \in h.open \cup h.closing : x < h.next
    BY DEF HandCore, HandshakeType
  <1>2. CASE s = 0
    BY <1>1, <1>2 DEF HS!Drops
  <1>3. CASE s # 0
    <2> DEFINE closing == h.closing \cup {s}
    <2>1. g = [h EXCEPT !.closing = closing]
      BY <1>3 DEF HS!Drops
    <2>2. closing \subseteq Nat
      BY <1>1 DEF HandshakeType
    <2>3. closing = h.closing \cup {s}
      OBVIOUS
    <2> HIDE DEF closing
    <2>4. /\ g.vendor = h.vendor /\ g.refuses = h.refuses /\ g.pc = h.pc /\ g.attempt = h.attempt
          /\ g.next = h.next /\ g.open = h.open /\ g.cur = h.cur /\ g.stored = h.stored
          /\ g.dropped = h.dropped /\ g.outcome = h.outcome /\ g.luck = h.luck
          /\ g.learnt = h.learnt /\ g.closing = closing
      BY <1>1, <2>1 DEF HandshakeType
    <2>5. g \in HandshakeType
      BY <1>1, <2>1, <2>2 DEF HandshakeType
    <2>6. g.open \ g.closing = {h.cur, h.stored} \ {0, s}
      BY <1>1, <2>3, <2>4
    <2>7. \A x \in g.open \cup g.closing : x < h.next
      BY <1>1, <2>3, <2>4
    <2> QED BY <2>4, <2>5, <2>6, <2>7
  <1> QED BY <1>2, <1>3

LEMMA Overs ==
  ASSUME NEW h, HandCore(h), h.stored = 0, NEW o \in {"failed", "unsupported", "cancelled"},
         NEW g, g = HS!Over(h, o)
  PROVE  /\ HandCore(g) /\ g.pc = "idle" /\ g.cur = 0 /\ g.outcome = o /\ g.luck = h.luck
         /\ g.learnt = h.learnt /\ g.refuses = h.refuses /\ g.vendor = h.vendor /\ g.stored = 0
  <1> DEFINE d == HS!Drops(h, h.cur)
  <1>1. g = [d EXCEPT !.pc = "idle", !.cur = 0, !.outcome = o]
    BY DEF HS!Over
  <1>2. d = HS!Drops(h, h.cur)
    OBVIOUS
  <1> HIDE DEF d
  <1>3. /\ d \in HandshakeType /\ d.open \ d.closing = {h.cur, h.stored} \ {0, h.cur}
        /\ (\A x \in d.open \cup d.closing : x < h.next)
        /\ d.vendor = h.vendor /\ d.refuses = h.refuses /\ d.attempt = h.attempt
        /\ d.next = h.next /\ d.stored = h.stored /\ d.luck = h.luck /\ d.learnt = h.learnt
    BY <1>2, Lets
  <1>4. /\ g.pc = "idle" /\ g.cur = 0 /\ g.outcome = o /\ g.vendor = d.vendor /\ g.refuses = d.refuses
        /\ g.attempt = d.attempt /\ g.next = d.next /\ g.stored = d.stored /\ g.luck = d.luck
        /\ g.learnt = d.learnt /\ g.open = d.open /\ g.closing = d.closing
    BY <1>1, <1>3 DEF HandshakeType
  <1>5. g \in HandshakeType
    BY <1>1, <1>3 DEF HandshakeType
  <1>6. d.next \in Nat \ {0}
    BY <1>3 DEF HandshakeType
  <1>7. (\A x \in g.open \cup g.closing \cup {g.cur, g.stored} : x < g.next)
        /\ g.open \ g.closing = {g.cur, g.stored} \ {0}
    BY <1>3, <1>4, <1>6
  <1> QED BY <1>3, <1>4, <1>5, <1>7 DEF HandCore

LEMMA Unlucky ==
  ASSUME NEW o, HandCore(o), NEW g, g = [o EXCEPT !.luck = FALSE]
  PROVE  HandCore(g) /\ g.pc = o.pc /\ g.cur = o.cur /\ g.outcome = o.outcome /\ ~g.luck
  <1>1. o \in HandshakeType
    BY DEF HandCore
  <1>2. /\ g.vendor = o.vendor /\ g.refuses = o.refuses /\ g.pc = o.pc /\ g.attempt = o.attempt
        /\ g.next = o.next /\ g.open = o.open /\ g.cur = o.cur /\ g.stored = o.stored
        /\ g.closing = o.closing /\ g.outcome = o.outcome /\ g.luck = FALSE /\ g.learnt = o.learnt
    BY <1>1 DEF HandshakeType
  <1>3. g \in HandshakeType
    BY <1>1 DEF HandshakeType
  <1> QED BY <1>2, <1>3 DEF HandCore

LEMMA HandshakeOpens == ASSUME HandshakeGood(hs), HS!OpenStream PROVE HandshakeGood(hs')
  <1> DEFINE h == hs
             d == HS!Drops(h, h.stored)
             g == hs'
  <1>1. g = [d EXCEPT !.pc = "closing", !.stored = 0, !.attempt = 1, !.outcome = "none",
                      !.luck = TRUE, !.learnt = FALSE]
    BY DEF HS!OpenStream
  <1>2. d = HS!Drops(h, h.stored) /\ HandCore(h) /\ h.cur = 0
    BY DEF HS!OpenStream, HandshakeGood
  <1> HIDE DEF h, d, g
  <1>3. /\ d \in HandshakeType /\ d.open \ d.closing = {} /\ d.cur = 0
        /\ (\A x \in d.open \cup d.closing : x < h.next)
        /\ d.vendor = h.vendor /\ d.refuses = h.refuses /\ d.next = h.next
    <2>1. {h.cur, h.stored} \ {0, h.stored} = {}
      BY <1>2
    <2> QED BY <1>2, <2>1, Lets
  <1>4. /\ g.pc = "closing" /\ g.stored = 0 /\ g.attempt = 1 /\ g.outcome = "none"
        /\ g.cur = d.cur /\ g.vendor = d.vendor /\ g.refuses = d.refuses
        /\ g.next = d.next /\ g.open = d.open /\ g.closing = d.closing
    BY <1>1, <1>3 DEF HandshakeType
  <1>5. g \in HandshakeType
    <2> DEFINE e == [d EXCEPT !.pc = "closing", !.stored = 0, !.attempt = 1]
    <2>1. e \in HandshakeType
      BY <1>3 DEF HandshakeType
    <2>2. g = [e EXCEPT !.outcome = "none", !.luck = TRUE, !.learnt = FALSE]
      BY <1>1, <1>3 DEF HandshakeType
    <2> HIDE DEF e
    <2> QED BY <2>1, <2>2 DEF HandshakeType
  <1>6. d.next \in Nat \ {0}
    BY <1>3 DEF HandshakeType
  <1>7. (\A x \in g.open \cup g.closing \cup {g.cur, g.stored} : x < g.next)
        /\ g.open \ g.closing = {g.cur, g.stored} \ {0}
    BY <1>3, <1>4, <1>6
  <1>8. HandCore(g) /\ HandBooks(g)
    BY <1>2, <1>3, <1>4, <1>5, <1>7 DEF HandCore, HandBooks
  <1>9. HandshakeGood(g)
    BY <1>3, <1>4, <1>8 DEF HandshakeGood
  <1> QED BY <1>9 DEF g

LEMMA HandshakeCloses == ASSUME HandshakeGood(hs), HS!CloseStream PROVE HandshakeGood(hs')
  <1> DEFINE h == hs
             d == HS!Drops(h, h.stored)
             g == hs'
  <1>1. g = [d EXCEPT !.stored = 0, !.outcome = "closed"]
    BY DEF HS!CloseStream
  <1>2. d = HS!Drops(h, h.stored) /\ HandCore(h) /\ h.cur = 0 /\ h.pc = "idle"
    BY DEF HS!CloseStream, HandshakeGood
  <1> HIDE DEF h, d, g
  <1>3. /\ d \in HandshakeType /\ d.open \ d.closing = {} /\ d.cur = 0 /\ d.pc = "idle"
        /\ (\A x \in d.open \cup d.closing : x < h.next)
        /\ d.vendor = h.vendor /\ d.refuses = h.refuses /\ d.next = h.next
        /\ d.attempt = h.attempt /\ d.learnt = h.learnt
    <2>1. {h.cur, h.stored} \ {0, h.stored} = {}
      BY <1>2
    <2> QED BY <1>2, <2>1, Lets
  <1>4. /\ g.pc = "idle" /\ g.stored = 0 /\ g.outcome = "closed" /\ g.attempt = d.attempt
        /\ g.cur = d.cur /\ g.vendor = d.vendor /\ g.refuses = d.refuses /\ g.learnt = d.learnt
        /\ g.next = d.next /\ g.open = d.open /\ g.closing = d.closing
    BY <1>1, <1>3 DEF HandshakeType
  <1>5. g \in HandshakeType
    BY <1>1, <1>3 DEF HandshakeType
  <1>6. d.next \in Nat \ {0}
    BY <1>3 DEF HandshakeType
  <1>7. (\A x \in g.open \cup g.closing \cup {g.cur, g.stored} : x < g.next)
        /\ g.open \ g.closing = {g.cur, g.stored} \ {0}
    BY <1>3, <1>4, <1>6
  <1>8. HandCore(g) /\ HandBooks(g)
    BY <1>2, <1>3, <1>4, <1>5, <1>7 DEF HandCore, HandBooks
  <1>9. HandshakeGood(g)
    BY <1>3, <1>4, <1>8 DEF HandshakeGood
  <1> QED BY <1>9 DEF g

LEMMA HandshakeForgets == ASSUME HandshakeGood(hs), HS!SocketGone PROVE HandshakeGood(hs')
  <1> DEFINE h == hs
             g == hs'
  <1>1. PICK s \in h.closing : g = [h EXCEPT !.open = h.open \ {s}, !.closing = h.closing \ {s}]
    BY DEF HS!SocketGone
  <1> HIDE DEF h, g
  <1>2. HandshakeGood(h) /\ HandCore(h) /\ h \in HandshakeType
    BY DEF h, HandshakeGood, HandCore
  <1> DEFINE open == h.open \ {s}
             closing == h.closing \ {s}
  <1>3. open \subseteq Nat /\ closing \subseteq Nat /\ open \ closing = h.open \ h.closing
        /\ open \cup closing \subseteq h.open \cup h.closing
    BY <1>1, <1>2 DEF HandshakeType
  <1>4. g = [h EXCEPT !.open = open, !.closing = closing]
    BY <1>1
  <1> HIDE DEF open, closing
  <1>5. /\ g.vendor = h.vendor /\ g.refuses = h.refuses /\ g.pc = h.pc /\ g.attempt = h.attempt
        /\ g.next = h.next /\ g.open = open /\ g.cur = h.cur /\ g.stored = h.stored
        /\ g.closing = closing /\ g.outcome = h.outcome /\ g.luck = h.luck /\ g.learnt = h.learnt
    BY <1>2, <1>4 DEF HandshakeType
  <1>6. g \in HandshakeType
    BY <1>2, <1>3, <1>4 DEF HandshakeType
  <1>7. HandCore(g)
    BY <1>2, <1>3, <1>5, <1>6 DEF HandCore
  <1>8. HandshakeGood(g)
    BY <1>2, <1>5, <1>7 DEF HandshakeGood, HandBooks
  <1> QED BY <1>8 DEF g

LEMMA HandshakeWaits == ASSUME HandshakeGood(hs), HS!Closed PROVE HandshakeGood(hs')
  <1> DEFINE h == hs
             g == hs'
  <1>1. g = [h EXCEPT !.pc = "connect"] /\ h.pc = "closing"
    BY DEF HS!Closed
  <1>2. HandshakeGood(h) /\ HandCore(h) /\ h \in HandshakeType
    BY DEF HandshakeGood, HandCore
  <1> HIDE DEF h, g
  <1>3. /\ g.vendor = h.vendor /\ g.refuses = h.refuses /\ g.pc = "connect" /\ g.attempt = h.attempt
        /\ g.next = h.next /\ g.open = h.open /\ g.cur = h.cur /\ g.stored = h.stored
        /\ g.closing = h.closing /\ g.outcome = h.outcome /\ g.luck = h.luck /\ g.learnt = h.learnt
    BY <1>1, <1>2 DEF HandshakeType
  <1>4. g \in HandshakeType
    BY <1>1, <1>2 DEF HandshakeType
  <1>5. HandCore(g) /\ HandBooks(g)
    BY <1>2, <1>3, <1>4 DEF HandCore, HandBooks, HandshakeGood
  <1>6. HandshakeGood(g)
    BY <1>1, <1>2, <1>3, <1>5 DEF HandshakeGood
  <1> QED BY <1>6 DEF g

LEMMA HandshakeCancels == ASSUME HandshakeGood(hs), HS!Cancel PROVE HandshakeGood(hs')
  <1> DEFINE h == hs
             o == HS!Over(h, "cancelled")
             g == hs'
  <1>1. g = [o EXCEPT !.luck = FALSE] /\ HandCore(h) /\ h.stored = 0
    BY DEF HS!Cancel, HandshakeGood
  <1>2. o = HS!Over(h, "cancelled")
    OBVIOUS
  <1> HIDE DEF h, o, g
  <1>3. HandCore(o) /\ o.pc = "idle" /\ o.cur = 0 /\ o.outcome = "cancelled"
    BY <1>1, <1>2, Overs
  <1>4. HandshakeGood(g)
    BY <1>1, <1>3, Unlucky DEF HandBooks, HandshakeGood
  <1> QED BY <1>4 DEF g

LEMMA Raises ==
  ASSUME NEW h, HandCore(h), h.stored = 0, NEW g, g = HS!Raised(h)
  PROVE  HandshakeGood(g)
  <1> DEFINE o == HS!Over(h, "failed")
  <1>1. g = [o EXCEPT !.luck = FALSE] /\ o = HS!Over(h, "failed")
    BY DEF HS!Raised
  <1> HIDE DEF o
  <1>2. HandCore(o) /\ o.pc = "idle" /\ o.cur = 0 /\ o.outcome = "failed"
    BY <1>1, Overs
  <1> QED BY <1>1, <1>2, Unlucky DEF HandBooks, HandshakeGood

LEMMA Accepts ==
  ASSUME NEW h, HandCore(h), h.stored = 0, NEW g, g = HS!Accepted(h)
  PROVE  HandshakeGood(g)
  <1>1. h \in HandshakeType /\ h.cur \in Nat
    BY DEF HandCore, HandshakeType
  <1> DEFINE cur == h.cur
  <1>2. g = [h EXCEPT !.pc = "idle", !.cur = 0, !.stored = cur, !.outcome = "open"]
    BY DEF HS!Accepted
  <1>3. cur \in Nat /\ cur = h.cur
    BY <1>1
  <1> HIDE DEF cur
  <1>4. /\ g.vendor = h.vendor /\ g.refuses = h.refuses /\ g.pc = "idle" /\ g.attempt = h.attempt
        /\ g.next = h.next /\ g.open = h.open /\ g.cur = 0 /\ g.stored = cur
        /\ g.closing = h.closing /\ g.outcome = "open" /\ g.luck = h.luck /\ g.learnt = h.learnt
    BY <1>1, <1>2 DEF HandshakeType
  <1>5. g \in HandshakeType
    BY <1>1, <1>2, <1>3 DEF HandshakeType
  <1>6. HandCore(g)
    BY <1>3, <1>4, <1>5 DEF HandCore
  <1> QED BY <1>4, <1>6 DEF HandBooks, HandshakeGood

(* A refusal: of the model, of something a session can go without, or not. *)
LEMMA Refuses ==
  ASSUME NEW h, HandCore(h), h.stored = 0, h.attempt \in {1, 2}, h.outcome = "none",
         h.pc = "answer" \/ h.vendor # "openai", NEW q \in HS!Refusals(h),
         NEW g, g = HS!Refused(h, q)
  PROVE  HandshakeGood(g)
  <1> DEFINE dropped == h.dropped \cup {q}
             learnt == [h EXCEPT !.dropped = dropped, !.learnt = TRUE]
  <1>1. h \in HandshakeType /\ h.vendor \in HS!Vendors
    BY DEF HandCore, HandshakeType
  <1>2. HS!Optional[h.vendor] \subseteq Params \ {"required", "model"}
        /\ (h.vendor = "xai" => HS!Optional[h.vendor] = {})
    BY <1>1, Optionals
  <1>3. q \in h.refuses /\ q \in HS!Optional[h.vendor] \cup {"required", "model"}
    BY DEF HS!Refusals, HS!Sends, HandCore
  <1>4. g = HS!Over(h, "failed") =>
          /\ HandCore(g) /\ g.pc = "idle" /\ g.cur = 0 /\ g.outcome = "failed"
          /\ g.learnt = h.learnt /\ g.refuses = h.refuses /\ g.vendor = h.vendor
    BY Overs
  <1>5. /\ HandCore(learnt) /\ learnt.stored = 0 /\ learnt.cur = h.cur /\ learnt.pc = h.pc
        /\ learnt.attempt = h.attempt /\ learnt.outcome = "none" /\ learnt.learnt
    <2>1. dropped \subseteq Params
      BY <1>1, <1>2, <1>3 DEF HandshakeType, Params
    <2> HIDE DEF dropped
    <2>2. learnt \in HandshakeType
      BY <1>1, <2>1 DEF HandshakeType
    <2>3. /\ learnt.vendor = h.vendor /\ learnt.refuses = h.refuses /\ learnt.pc = h.pc
          /\ learnt.attempt = h.attempt /\ learnt.next = h.next /\ learnt.open = h.open
          /\ learnt.cur = h.cur /\ learnt.stored = h.stored /\ learnt.closing = h.closing
          /\ learnt.outcome = h.outcome /\ learnt.learnt = TRUE
      BY <1>1 DEF HandshakeType
    <2> HIDE DEF learnt
    <2> QED BY <2>2, <2>3 DEF HandCore
  <1>6. CASE q = "model" /\ h.vendor # "xai"
    <2>0. q \notin HS!Optional[h.vendor]
      BY <1>2, <1>6
    <2>1. g = HS!Over(h, "unsupported")
      BY <1>6, <2>0 DEF HS!Refused
    <2>2. HandCore(g) /\ g.pc = "idle" /\ g.cur = 0 /\ g.outcome = "unsupported" /\ g.refuses = h.refuses
      BY <2>1, Overs
    <2> QED BY <1>3, <1>6, <2>2 DEF HandBooks, HandshakeGood
  <1>7. CASE q \notin HS!Optional[h.vendor] /\ ~(q = "model" /\ h.vendor # "xai")
    <2>1. g = HS!Over(h, "failed")
      BY <1>7 DEF HS!Refused
    <2>2. "required" \in h.refuses \/ (h.vendor = "xai" /\ "model" \in h.refuses)
      BY <1>3, <1>7
    <2> QED BY <1>4, <2>1, <2>2 DEF HandBooks, HandshakeGood
  <1>8. CASE q \in HS!Optional[h.vendor]
    <2>0. q # "model"
      BY <1>2, <1>8
    <2>1. CASE h.vendor \in {"deepgram", "assemblyai"} /\ h.attempt = 1
      <3> DEFINE d == HS!Drops(learnt, h.cur)
      <3>1. g = [d EXCEPT !.cur = 0, !.attempt = 2, !.pc = "closing"]
        BY <1>8, <2>0, <2>1 DEF HS!Refused
      <3> HIDE DEF learnt
      <3>2. d = HS!Drops(learnt, learnt.cur)
        BY <1>5
      <3> HIDE DEF d
      <3>3. /\ d \in HandshakeType /\ d.open \ d.closing = {learnt.cur, learnt.stored} \ {0, learnt.cur}
            /\ (\A x \in d.open \cup d.closing : x < learnt.next)
            /\ d.vendor = learnt.vendor /\ d.refuses = learnt.refuses /\ d.next = learnt.next
            /\ d.stored = 0 /\ d.outcome = "none" /\ d.learnt
        BY <1>5, <3>2, Lets
      <3>4. /\ g.pc = "closing" /\ g.stored = d.stored /\ g.attempt = 2 /\ g.outcome = d.outcome
            /\ g.cur = 0 /\ g.vendor = d.vendor /\ g.refuses = d.refuses /\ g.learnt = d.learnt
            /\ g.next = d.next /\ g.open = d.open /\ g.closing = d.closing
        BY <3>1, <3>3 DEF HandshakeType
      <3>5. g \in HandshakeType
        BY <3>1, <3>3 DEF HandshakeType
      <3>6. d.next \in Nat \ {0}
        BY <3>3 DEF HandshakeType
      <3>7. (\A x \in g.open \cup g.closing \cup {g.cur, g.stored} : x < g.next)
            /\ g.open \ g.closing = {g.cur, g.stored} \ {0}
        BY <1>5, <3>3, <3>4, <3>6
      <3>8. HandCore(g)
        BY <1>5, <3>3, <3>4, <3>5, <3>7 DEF HandCore
      <3> QED BY <3>3, <3>4, <3>8 DEF HandBooks, HandshakeGood
    <2>2. CASE h.vendor = "gemini"
      <3>1. g = HS!Over(learnt, "failed")
        BY <1>8, <2>0, <2>2 DEF HS!Refused
      <3> HIDE DEF learnt
      <3>2. HandCore(g) /\ g.pc = "idle" /\ g.cur = 0 /\ g.outcome = "failed" /\ g.learnt = learnt.learnt
        <4>1. HandCore(learnt) /\ learnt.stored = 0
          BY <1>5
        <4> QED BY ONLY <3>1, <4>1, Overs
      <3> QED BY <1>5, <3>2 DEF HandBooks, HandshakeGood
    <2>3. CASE h.vendor = "openai"
      <3>1. g = learnt
        BY <1>8, <2>0, <2>3 DEF HS!Refused
      <3> HIDE DEF learnt
      <3> QED BY <1>5, <2>3, <3>1 DEF HandBooks, HandshakeGood
    <2>4. CASE h.vendor \notin {"gemini", "openai"}
               /\ ~(h.vendor \in {"deepgram", "assemblyai"} /\ h.attempt = 1)
      <3>1. g = HS!Over(h, "failed")
        BY <1>8, <2>0, <2>4 DEF HS!Refused
      <3>2. h.attempt = 2
        BY <1>1, <1>2, <1>8, <2>4 DEF HS!Vendors
      <3>3. h.learnt
        BY <3>2 DEF HandCore
      <3> QED BY <1>4, <3>1, <3>3 DEF HandBooks, HandshakeGood
    <2> QED BY <2>1, <2>2, <2>3, <2>4
  <1> QED BY <1>6, <1>7, <1>8

LEMMA HandshakeAnswers == ASSUME HandshakeGood(hs), HS!Answer PROVE HandshakeGood(hs')
  <1>1. HandCore(hs) /\ hs.stored = 0 /\ hs.attempt \in {1, 2} /\ hs.outcome = "none" /\ hs.pc = "answer"
    BY DEF HS!Answer, HandshakeGood
  <1>2. CASE hs' = HS!Accepted(hs)
    BY <1>1, <1>2, Accepts
  <1>3. ASSUME NEW q \in HS!Refusals(hs), hs' = HS!Refused(hs, q) PROVE HandshakeGood(hs')
    BY <1>1, <1>3, Refuses
  <1>4. CASE hs' = HS!Raised(hs)
    BY <1>1, <1>4, Raises
  <1> QED BY <1>2, <1>3, <1>4 DEF HS!Answer

(* A connect takes a number; only when it is answered is there a socket. *)
LEMMA HandshakeConnects == ASSUME HandshakeGood(hs), HS!Connect PROVE HandshakeGood(hs')
  <1> DEFINE h == hs
             g == hs'
             n == h.next
             open == h.open \cup {n}
             up == [h EXCEPT !.next = n + 1, !.open = open, !.cur = n, !.pc = "answer"]
             down == [h EXCEPT !.next = n + 1]
  <1>1. \/ g = HS!Raised(down)
        \/ h.vendor = "deepgram" /\ g = HS!Accepted(up)
        \/ h.vendor = "deepgram" /\ \E q \in HS!Refusals(h) : g = HS!Refused(down, q)
        \/ g = up
    BY DEF HS!Connect
  <1>2. HandshakeGood(h) /\ HandCore(h) /\ h \in HandshakeType /\ h.stored = 0 /\ h.cur = 0
        /\ h.attempt \in {1, 2} /\ h.outcome = "none"
    BY DEF HS!Connect, HandshakeGood, HandCore
  <1> HIDE DEF h, g
  <1>3. n = h.next /\ n \in Nat \ {0} /\ n + 1 \in Nat \ {0} /\ n \notin h.open \cup h.closing
        /\ open \subseteq Nat /\ open = h.open \cup {n}
        /\ \A x \in h.open \cup h.closing \cup {0} : x \in Nat /\ x < n
    BY <1>2 DEF HandCore, HandshakeType
  <1> HIDE DEF n, open
  <1>4. HandCore(down) /\ down.stored = 0 /\ down.attempt \in {1, 2} /\ down.outcome = "none"
        /\ down.vendor = h.vendor /\ HS!Refusals(down) = HS!Refusals(h)
    <2> DEFINE m == n + 1
    <2>1. m \in Nat \ {0} /\ n < m /\ (\A x \in h.open \cup h.closing \cup {0} : x < m)
          /\ down = [h EXCEPT !.next = m]
      BY <1>3
    <2> HIDE DEF m, down
    <2>2. /\ down.vendor = h.vendor /\ down.refuses = h.refuses /\ down.pc = h.pc
          /\ down.attempt = h.attempt /\ down.next = m /\ down.open = h.open /\ down.cur = h.cur
          /\ down.stored = h.stored /\ down.closing = h.closing /\ down.dropped = h.dropped
          /\ down.outcome = h.outcome /\ down.learnt = h.learnt
      BY <1>2, <2>1 DEF HandshakeType
    <2>3. down \in HandshakeType
      BY <1>2, <2>1 DEF HandshakeType
    <2>4. HandCore(down)
      BY <1>2, <2>1, <2>2, <2>3 DEF HandCore
    <2> QED BY <1>2, <2>2, <2>4 DEF HS!Refusals, HS!Sends
  <1>5. HandCore(up) /\ up.stored = 0 /\ up.attempt \in {1, 2} /\ up.outcome = "none" /\ up.pc = "answer"
    <2> DEFINE m == n + 1
    <2>1. m \in Nat \ {0} /\ n < m /\ (\A x \in h.open \cup h.closing \cup {0} : x < m)
          /\ up = [h EXCEPT !.next = m, !.open = open, !.cur = n, !.pc = "answer"]
      BY <1>3
    <2> HIDE DEF m, up
    <2>2. /\ up.vendor = h.vendor /\ up.refuses = h.refuses /\ up.pc = "answer"
          /\ up.attempt = h.attempt /\ up.next = m /\ up.open = open /\ up.cur = n
          /\ up.stored = h.stored /\ up.closing = h.closing /\ up.outcome = h.outcome
          /\ up.learnt = h.learnt
      BY <1>2, <2>1 DEF HandshakeType
    <2>3. up \in HandshakeType
      <3> DEFINE e == [h EXCEPT !.next = m, !.open = open]
      <3>1. e \in HandshakeType
        BY <1>2, <1>3, <2>1 DEF HandshakeType
      <3>2. up = [e EXCEPT !.cur = n, !.pc = "answer"]
        BY <1>2, <2>1 DEF HandshakeType
      <3> HIDE DEF e
      <3> QED BY <1>3, <3>1, <3>2 DEF HandshakeType
    <2>4. up.open \ up.closing = {up.cur, up.stored} \ {0}
      <3>1. h.open \ h.closing = {}
        BY <1>2 DEF HandCore
      <3> QED BY <1>2, <1>3, <2>2, <3>1
    <2>5. \A x \in up.open \cup up.closing \cup {up.cur, up.stored} : x < up.next
      BY <1>2, <1>3, <2>1, <2>2
    <2>6. HandCore(up)
      BY <1>2, <2>2, <2>3, <2>4, <2>5 DEF HandCore
    <2> QED BY <1>2, <2>2, <2>6
  <1> HIDE DEF up, down
  <1>6. HandshakeGood(g)
    <2>1. CASE g = HS!Raised(down)
      BY <1>4, <2>1, Raises
    <2>2. CASE g = HS!Accepted(up)
      BY <1>5, <2>2, Accepts
    <2>3. ASSUME NEW q \in HS!Refusals(h), g = HS!Refused(down, q), h.vendor = "deepgram"
          PROVE  HandshakeGood(g)
      BY <1>4, <2>3, Refuses
    <2>4. CASE g = up
      BY <1>5, <2>4 DEF HandBooks, HandshakeGood
    <2> QED BY <1>1, <2>1, <2>2, <2>3, <2>4
  <1> QED BY <1>6 DEF g

HandshakeInv == machine = "handshake" => HandshakeGood(hs)

LEMMA HandshakeInitially == Init => HandshakeInv
  <1> SUFFICES ASSUME Init, machine = "handshake" PROVE HandshakeGood(hs)
    BY DEF HandshakeInv
  <1>1. HS!HandshakeInit
    BY DEF Init, RoomInit, ConnectorInit, StreamInit
  <1>2. PICK v \in HS!Vendors : \E refuses \in SUBSET (HS!Optional[v] \cup {"required", "model"}) :
          hs = [vendor |-> v, refuses |-> refuses, pc |-> "idle", attempt |-> 0, next |-> 1,
                open |-> {}, closing |-> {}, cur |-> 0, stored |-> 0, dropped |-> {},
                outcome |-> "none", luck |-> TRUE, learnt |-> FALSE]
    BY <1>1 DEF HS!HandshakeInit
  <1>3. PICK refuses \in SUBSET (HS!Optional[v] \cup {"required", "model"}) :
          hs = [vendor |-> v, refuses |-> refuses, pc |-> "idle", attempt |-> 0, next |-> 1,
                open |-> {}, closing |-> {}, cur |-> 0, stored |-> 0, dropped |-> {},
                outcome |-> "none", luck |-> TRUE, learnt |-> FALSE]
    BY <1>2
  <1>4. refuses \subseteq Params
    BY <1>3, Optionals DEF Params
  <1>5. hs \in HandshakeType
    BY <1>3, <1>4 DEF HandshakeType
  <1>6. /\ hs.pc = "idle" /\ hs.attempt = 0 /\ hs.next = 1 /\ hs.open = {} /\ hs.closing = {}
        /\ hs.cur = 0 /\ hs.stored = 0 /\ hs.outcome = "none" /\ hs.vendor = v /\ hs.refuses = refuses
    BY <1>3
  <1>7. HandCore(hs)
    BY <1>3, <1>5, <1>6 DEF HandCore
  <1> QED BY <1>6, <1>7 DEF HandBooks, HandshakeGood

LEMMA HandshakeKeeps == HandshakeInv /\ [Next]_vars => HandshakeInv'
  <1> SUFFICES ASSUME HandshakeInv, [Next]_vars, machine = "handshake" PROVE HandshakeGood(hs')
    BY MachineStays DEF HandshakeInv
  <1>1. HandshakeGood(hs)
    BY DEF HandshakeInv
  <1>2. HS!HandshakeNext \/ UNCHANGED hs
    BY DEF Next, vars, ConnectorNext, StreamNext, HandshakeStep, CallStep, BatchStep, RoomNext, connectorVars
  <1>3. CASE UNCHANGED hs
    BY <1>1, <1>3
  <1>4. CASE HS!HandshakeNext
    BY <1>1, <1>4, HandshakeOpens, HandshakeCloses, HandshakeForgets, HandshakeWaits,
       HandshakeConnects, HandshakeAnswers, HandshakeCancels DEF HS!HandshakeNext
  <1> QED BY <1>2, <1>3, <1>4

(* A connector holds one socket: those not being closed are at most one, and
   between two calls exactly the stored one, whatever refuses, fails or
   interrupts an open; and an open refused over something a session can go
   without has taught the connector to leave it out (open_stream, close_stream,
   close_socket, _drop_refused): for any number of connects. *)
THEOREM OpeningsKeepBooks == Spec => []OpeningKeepsBooks
  <1>1. HandshakeInv => OpeningKeepsBooks
    <2> SUFFICES ASSUME HandshakeInv PROVE OpeningKeepsBooks
      OBVIOUS
    <2>1. machine = "handshake" => HandCore(hs) /\ HandBooks(hs) /\ HandshakeGood(hs)
      BY DEF HandshakeInv, HandshakeGood
    <2>2. OneLiveSocket
      <3> SUFFICES ASSUME machine = "handshake"
                   PROVE  /\ Cardinality(hs.open \ hs.closing) <= 1
                          /\ hs.pc = "idle" => hs.open \ hs.closing = {hs.stored} \ {0}
        BY DEF OneLiveSocket
      <3>1. hs.open \ hs.closing = {hs.cur, hs.stored} \ {0}
        BY <2>1 DEF HandCore
      <3>2. hs.cur = 0 \/ hs.stored = 0
        BY <2>1 DEF HandshakeGood
      <3>3. hs.open \ hs.closing = {} \/ \E x : hs.open \ hs.closing = {x}
        BY <3>1, <3>2
      <3>4. Cardinality({}) = 0 /\ \A x : Cardinality({x}) = 1
        BY FS_EmptySet, FS_Singleton
      <3>5. Cardinality(hs.open \ hs.closing) = 0 \/ Cardinality(hs.open \ hs.closing) = 1
        BY <3>3, <3>4
      <3>6. hs.pc = "idle" => hs.cur = 0
        BY <2>1 DEF HandshakeGood
      <3> QED BY <3>1, <3>5, <3>6
    <2>3. RefusalTeaches
      BY <2>1 DEF RefusalTeaches, HandBooks
    <2> QED BY <2>2, <2>3 DEF OpeningKeepsBooks
  <1> QED BY HandshakeInitially, HandshakeKeeps, <1>1, PTL DEF Spec

-----------------------------------------------------------------------------
(* Leaving between two turns.  What a reader knows is what the vendor is at: of
   Gemini, it is owed the text of any turn that was shown and not settled; of
   AssemblyAI, a turn is open for it exactly when one is being heard. *)
GeminiOwes ==
  /\ {"owes", "goAway"} \subseteq DOMAIN conn /\ {"shown", "final", "done"} \subseteq DOMAIN svc
  /\ ended = "no" /\ GL!MidTurn => conn.owes = TRUE
  /\ ended = "left" => ~GL!MidTurn

AssemblyKnows ==
  /\ "turnOpen" \in DOMAIN conn /\ {"heard", "resent"} \subseteq DOMAIN svc
  /\ conn.turnOpen \in BOOLEAN /\ svc.heard = conn.turnOpen
  /\ svc.resent \in BOOLEAN /\ (svc.heard => svc.resent)
  /\ ended = "left" => ~svc.heard
  /\ ended = "cut" => svc.heard

LeavingInv ==
  /\ machine = "gemini" => GeminiOwes
  /\ machine = "assemblyai" => AssemblyKnows

LEMMA GeminiStep == ASSUME GeminiOwes, GL!Next PROVE GeminiOwes'
  <1>0. /\ {"owes", "goAway"} \subseteq DOMAIN conn /\ {"shown", "final", "done"} \subseteq DOMAIN svc
        /\ ended = "no" /\ GL!MidTurn => conn.owes = TRUE
        /\ ended = "left" => ~GL!MidTurn
    BY DEF GeminiOwes
  <1>1. CASE GL!Interim
    <2> DEFINE c == conn'
    <2>1. ended = "no" /\ c = GL!Revise(conn, <<-(IF svc.done THEN GL!ComingTurn ELSE svc).turn>>).conn
      BY <1>1 DEF GL!Interim, GL!Hears
    <2>2. {"owes", "goAway"} \subseteq DOMAIN c /\ c.owes = TRUE
      BY <1>0, <2>1 DEF GL!Revise, GL!NextTurn
    <2>3. {"shown", "final", "done"} \subseteq DOMAIN svc'
      BY <1>0, <1>1 DEF GL!Interim, GL!ComingTurn
    <2>4. ended' = ended
      BY <1>1, <2>1, <2>2 DEF GL!Interim, GL!Hears
    <2> QED BY <2>1, <2>2, <2>3, <2>4 DEF GeminiOwes
  <1>2. CASE GL!Finalizes
    <2>1. {"shown", "final", "done"} \subseteq DOMAIN svc' /\ svc'.final = TRUE
      BY <1>0, <1>2 DEF GL!Finalizes, GL!ComingTurn
    <2>2. PICK n : conn' = GL!Settle(conn, <<n>>).conn
      BY <1>2 DEF GL!Finalizes, GL!Hears
    <2>3. {"owes", "goAway"} \subseteq DOMAIN conn'
      BY <1>0, <2>2 DEF GL!Settle, GL!NextTurn
    <2> QED BY <2>1, <2>3 DEF GeminiOwes, GL!MidTurn
  <1>3. CASE GL!Completes
    <2>1. {"shown", "final", "done"} \subseteq DOMAIN svc' /\ svc'.done = TRUE
      BY <1>0, <1>3 DEF GL!Completes
    <2>2. conn' = GL!CloseTurn(conn).conn
      BY <1>3 DEF GL!Completes, GL!Hears
    <2>3. {"owes", "goAway"} \subseteq DOMAIN conn'
      BY <1>0, <2>2 DEF GL!CloseTurn
    <2> QED BY <2>1, <2>3 DEF GeminiOwes, GL!MidTurn
  <1>4. CASE GL!GoesAway
    <2>1. conn' = [conn EXCEPT !.goAway = TRUE] /\ svc' = svc /\ ended = "no"
          /\ (ended' = "left" \/ ended' = ended)
      BY <1>4 DEF GL!GoesAway, GL!Hears
    <2>2. {"owes", "goAway"} \subseteq DOMAIN conn' /\ conn'.owes = conn.owes
      BY <1>0, <2>1
    <2>3. ended' = "left" => ~conn'.owes
      BY <1>4, <2>1 DEF GL!GoesAway, GL!Hears
    <2> QED BY <1>0, <2>1, <2>2, <2>3 DEF GeminiOwes, GL!MidTurn
  <1>5. CASE GL!Deadline \/ GL!Hangup
    BY <1>0, <1>5 DEF GL!Deadline, GL!Hangup, GeminiOwes, GL!MidTurn
  <1> QED BY <1>1, <1>2, <1>3, <1>4, <1>5 DEF GL!Next

LEMMA AssemblyStep == ASSUME AssemblyKnows, AA!Next PROVE AssemblyKnows'
  <1>0. /\ "turnOpen" \in DOMAIN conn /\ {"heard", "resent"} \subseteq DOMAIN svc
        /\ conn.turnOpen \in BOOLEAN /\ svc.heard = conn.turnOpen
        /\ svc.resent \in BOOLEAN /\ (svc.heard => svc.resent)
        /\ ended = "left" => ~svc.heard
        /\ ended = "cut" => svc.heard
    BY DEF AssemblyKnows
  <1>1. CASE AA!SpeechStarted
    <2>1. /\ conn' = [conn EXCEPT !.turnOpen = TRUE] /\ ended = "no" /\ ended' = ended
          /\ svc' = [svc EXCEPT !.heard = TRUE, !.resent = TRUE]
      BY <1>1 DEF AA!SpeechStarted, AA!Hears
    <2> QED BY <1>0, <2>1 DEF AssemblyKnows
  <1>2. CASE AA!TurnGrows
    <2>1. /\ conn'.turnOpen = TRUE /\ "turnOpen" \in DOMAIN conn' /\ ended = "no" /\ ended' = ended
          /\ svc' = [svc EXCEPT !.heard = TRUE, !.resent = TRUE]
      BY <1>2 DEF AA!TurnGrows, AA!HearsTurn, AA!Hears
    <2> QED BY <1>0, <2>1 DEF AssemblyKnows
  <1>3. CASE AA!TurnEnds
    <2>1. /\ conn'.turnOpen = FALSE /\ "turnOpen" \in DOMAIN conn' /\ ended = "no" /\ ended' = ended
          /\ svc' = [svc EXCEPT !.turn = svc.turn + 1, !.heard = FALSE, !.resent = FALSE]
      BY <1>3 DEF AA!TurnEnds, AA!HearsTurn, AA!Hears
    <2> QED BY <1>0, <2>1 DEF AssemblyKnows
  <1>4. CASE AA!TurnFormatted
    <2>1. /\ conn'.turnOpen = FALSE /\ "turnOpen" \in DOMAIN conn' /\ ended = "no" /\ ended' = ended
          /\ ~svc.resent /\ svc' = [svc EXCEPT !.resent = TRUE]
      BY <1>4 DEF AA!TurnFormatted, AA!HearsTurn, AA!Hears
    <2> QED BY <1>0, <2>1 DEF AssemblyKnows
  <1>5. CASE AA!Terminates
    <2>1. UNCHANGED <<conn, ended>> /\ svc' = [svc EXCEPT !.mic = "terminated"]
      BY <1>5 DEF AA!Terminates
    <2> QED BY <1>0, <2>1 DEF AssemblyKnows
  <1>6. CASE AA!SpeakerRevision
    <2>1. UNCHANGED <<conn, ended>> /\ svc' = [svc EXCEPT !.label = 1, !.resent = TRUE]
      BY <1>6 DEF AA!SpeakerRevision, AA!Hears
    <2> QED BY <1>0, <2>1 DEF AssemblyKnows
  <1>7. CASE AA!Stops
    BY <1>0, <1>7 DEF AA!Stops, AssemblyKnows
  <1>8. CASE AA!CapNears
    <2>1. UNCHANGED <<conn, ended>> /\ svc' = [svc EXCEPT !.cap = "due"]
      BY <1>8 DEF AA!CapNears
    <2> QED BY <1>0, <2>1 DEF AssemblyKnows
  <1>9. CASE AA!Leaves
    BY <1>0, <1>9 DEF AA!Leaves, AA!Expiring, AssemblyKnows
  <1>10. CASE AA!ServerCuts
    BY <1>0, <1>10 DEF AA!ServerCuts, AA!Expiring, AssemblyKnows
  <1> QED BY <1>1, <1>2, <1>3, <1>4, <1>5, <1>6, <1>7, <1>8, <1>9, <1>10 DEF AA!Next

LEMMA LeavingInitially == Init => LeavingInv
  <1>1. ASSUME Init, machine = "gemini" PROVE GeminiOwes
    <2>1. GL!Init
      BY <1>1 DEF Init, RoomInit, ConnectorInit, StreamInit
    <2> QED BY <2>1 DEF GL!Init, GeminiOwes, GL!MidTurn
  <1>2. ASSUME Init, machine = "assemblyai" PROVE AssemblyKnows
    <2>1. AA!Init
      BY <1>2 DEF Init, RoomInit, ConnectorInit, StreamInit
    <2> QED BY <2>1 DEF AA!Init, AssemblyKnows
  <1> QED BY <1>1, <1>2 DEF LeavingInv

LEMMA LeavingStep == LeavingInv /\ [Next]_vars => LeavingInv'
  <1> SUFFICES ASSUME LeavingInv, [Next]_vars PROVE LeavingInv'
    OBVIOUS
  <1>0. machine' = machine
    BY MachineStays
  <1>1. ASSUME machine = "gemini" PROVE GeminiOwes'
    <2>1. GL!Next \/ UNCHANGED streamVars
      BY <1>1 DEF Next, vars, ConnectorNext, StreamNext, HandshakeStep, CallStep, BatchStep, RoomNext, connectorVars
    <2>2. GeminiOwes
      BY <1>1 DEF LeavingInv
    <2>3. CASE UNCHANGED streamVars
      BY <2>2, <2>3 DEF streamVars, GeminiOwes, GL!MidTurn
    <2> QED BY <2>1, <2>2, <2>3, GeminiStep
  <1>2. ASSUME machine = "assemblyai" PROVE AssemblyKnows'
    <2>1. AA!Next \/ UNCHANGED streamVars
      BY <1>2 DEF Next, vars, ConnectorNext, StreamNext, HandshakeStep, CallStep, BatchStep, RoomNext, connectorVars
    <2>2. AssemblyKnows
      BY <1>2 DEF LeavingInv
    <2>3. CASE UNCHANGED streamVars
      BY <2>2, <2>3 DEF streamVars, AssemblyKnows
    <2> QED BY <2>1, <2>2, <2>3, AssemblyStep
  <1> QED BY <1>0, <1>1, <1>2 DEF LeavingInv

(* A reader that leaves by its own choice before the vendor's cap leaves no turn
   half told, and the cap itself is met only in the middle of a turn (signals,
   _frames): for any number of turns. *)
THEOREM ReadersLeaveBetweenTurns == Spec => []LeavesBetweenTurns
  <1>1. LeavingInv => LeavesBetweenTurns
    BY DEF LeavingInv, GeminiOwes, AssemblyKnows, LeavesBetweenTurns, AA!MidTurn
  <1> QED BY LeavingInitially, LeavingStep, <1>1, PTL DEF Spec

-----------------------------------------------------------------------------
(* The panes of the dashboard.  What makes the story whole is an order: what a
   pane was sent is older than what it is still to be replayed, that is no newer
   than the last line of the ring it took, and what waits in its queue is newer
   than all it was sent, unless the ring had it too. *)
Line == [seq : Nat, of : FE!Shows \cup {0}, job : BOOLEAN]

FeedType ==
  [kind : {FE!Logs, FE!LiveView, FE!Asked}, at : {"off", "joins", "replays", "streams"},
   view : FE!Shows \cup {0}, seq : Nat, ring : Seq(Line), queue : Seq(Line),
   history : Seq(Line), last : Nat, sent : Seq(Line), lost : SUBSET Line, due : SUBSET Line,
   still : BOOLEAN]

Rising(s) == \A i, j \in DOMAIN s : i < j => s[i].seq < s[j].seq

LinesOf(f) == ToSet(f.ring) \cup ToSet(f.queue) \cup ToSet(f.history) \cup ToSet(f.sent) \cup f.lost

(* Written while the pane was joining: the ring it took had the line. *)
InRing(f, l) == f.kind = FE!Logs /\ l.seq <= f.last

FeedGood(f) ==
  /\ f \in FeedType
  /\ Rising(f.ring) /\ Rising(f.queue) /\ Rising(f.history) /\ Rising(f.sent)
  /\ f.last <= f.seq /\ \A l \in LinesOf(f) : l.seq <= f.seq
  /\ \A l \in ToSet(f.history) : l.seq <= f.last
  /\ \A s \in ToSet(f.sent), l \in ToSet(f.history) : s.seq < l.seq
  /\ \A s \in ToSet(f.sent), l \in ToSet(f.queue) : s.seq < l.seq \/ InRing(f, l)
  /\ \A x \in f.lost, l \in ToSet(f.queue) : x.seq < l.seq
  /\ \A l \in f.due : l.seq <= f.last \/ l \in ToSet(f.sent) \cup ToSet(f.queue) \cup f.lost
  /\ f.at = "off" => /\ f.queue = <<>> /\ f.history = <<>> /\ f.sent = <<>>
                     /\ f.lost = {} /\ f.due = {} /\ f.last = 0
  /\ f.at = "streams" => f.history = <<>>
  /\ f.at = "joins" => f.history = <<>> /\ f.sent = <<>> /\ f.last = 0
  /\ f.kind # FE!Logs => f.ring = <<>> /\ f.at \notin {"joins", "replays"}
  /\ f.at \in {"replays", "streams"} /\ f.still =>
       \A l \in ToSet(f.ring) : l.seq <= f.last /\ FE!Keeps(f, l) =>
                                  l \in ToSet(f.sent) \cup ToSet(f.history)

LEMMA AppendsLine ==
  ASSUME NEW s \in Seq(Line), NEW l \in Line
  PROVE  /\ Append(s, l) \in Seq(Line) /\ ToSet(Append(s, l)) = ToSet(s) \cup {l}
         /\ Append(s, l) # <<>>
         /\ Rising(s) /\ (\A m \in ToSet(s) : m.seq < l.seq) => Rising(Append(s, l))
  <1>1. /\ Append(s, l) \in Seq(Line) /\ Len(s) \in Nat /\ DOMAIN s = 1..Len(s)
        /\ DOMAIN Append(s, l) = 1..(Len(s) + 1) /\ Append(s, l)[Len(s) + 1] = l
        /\ \A i \in 1..Len(s) : Append(s, l)[i] = s[i]
    OBVIOUS
  <1>2. ToSet(Append(s, l)) = ToSet(s) \cup {l}
    <2>1. \A i \in 1..(Len(s) + 1) : i = Len(s) + 1 \/ i \in 1..Len(s)
      BY <1>1
    <2> QED BY <1>1, <2>1 DEF ToSet
  <1>3. ASSUME Rising(s), \A m \in ToSet(s) : m.seq < l.seq PROVE Rising(Append(s, l))
    <2>1. \A i \in 1..Len(s) : s[i].seq < l.seq
      BY <1>1, <1>3 DEF ToSet
    <2>2. \A i, j \in 1..(Len(s) + 1) : i < j => i \in 1..Len(s) /\ (j \in 1..Len(s) \/ j = Len(s) + 1)
      BY <1>1
    <2> QED BY <1>1, <1>3, <2>1, <2>2 DEF Rising
  <1>4. Append(s, l) # <<>>
    BY <1>1
  <1> QED BY <1>1, <1>2, <1>3, <1>4

LEMMA TakesLine ==
  ASSUME NEW s \in Seq(Line), s # <<>>
  PROVE  /\ Tail(s) \in Seq(Line) /\ Head(s) \in Line /\ ToSet(s) = ToSet(Tail(s)) \cup {Head(s)}
         /\ Rising(s) => Rising(Tail(s)) /\ \A l \in ToSet(Tail(s)) : Head(s).seq < l.seq
  <1>1. /\ Tail(s) \in Seq(Line) /\ Len(s) \in Nat \ {0} /\ DOMAIN s = 1..Len(s)
        /\ DOMAIN Tail(s) = 1..(Len(s) - 1) /\ Head(s) = s[1]
        /\ \A i \in 1..(Len(s) - 1) : Tail(s)[i] = s[i + 1]
    OBVIOUS
  <1>2. ToSet(s) = ToSet(Tail(s)) \cup {Head(s)}
    <2>1. \A i \in 1..Len(s) : i = 1 \/ (i - 1 \in 1..(Len(s) - 1) /\ (i - 1) + 1 = i)
      BY <1>1
    <2>2. \A i \in 1..(Len(s) - 1) : i + 1 \in 1..Len(s)
      BY <1>1
    <2>3. 1 \in 1..Len(s)
      BY <1>1
    <2>4. ASSUME NEW x \in ToSet(s) PROVE x \in ToSet(Tail(s)) \cup {Head(s)}
      <3>1. PICK i \in 1..Len(s) : x = s[i]
        BY <1>1 DEF ToSet
      <3>2. CASE i = 1
        BY <1>1, <3>1, <3>2
      <3>3. CASE i # 1
        <4>1. i - 1 \in DOMAIN Tail(s) /\ Tail(s)[i - 1] = s[i]
          BY <1>1, <2>1, <3>1, <3>3
        <4> QED BY <3>1, <4>1 DEF ToSet
      <3> QED BY <3>2, <3>3
    <2>5. \A x : x \in ToSet(Tail(s)) \cup {Head(s)} => x \in ToSet(s)
      BY <1>1, <2>2, <2>3 DEF ToSet
    <2> QED BY <2>4, <2>5
  <1>3. ASSUME Rising(s) PROVE Rising(Tail(s)) /\ \A l \in ToSet(Tail(s)) : Head(s).seq < l.seq
    <2>1. \A i, j \in 1..(Len(s) - 1) : i < j => i + 1 \in 1..Len(s) /\ j + 1 \in 1..Len(s) /\ i + 1 < j + 1
      BY <1>1
    <2>2. \A i \in 1..(Len(s) - 1) : i + 1 \in 1..Len(s) /\ 1 \in 1..Len(s) /\ 1 < i + 1
      BY <1>1
    <2>3. Rising(Tail(s))
      BY <1>1, <1>3, <2>1 DEF Rising
    <2>4. \A i \in 1..(Len(s) - 1) : Head(s).seq < Tail(s)[i].seq
      BY <1>1, <1>3, <2>2 DEF Rising
    <2> QED BY <1>1, <2>3, <2>4 DEF ToSet
  <1>4. Head(s) \in Line
    BY <1>1
  <1> QED BY <1>1, <1>2, <1>3, <1>4

LEMMA NoLines == ToSet(<<>>) = {} /\ Rising(<<>>) /\ <<>> \in Seq(Line)
  BY DEF ToSet, Rising

LEMMA SameSets == \A s : FE!ToSet(s) = ToSet(s)
  BY DEF FE!ToSet, ToSet

LEMMA LinesAreLines ==
  ASSUME NEW f \in FeedType
  PROVE  \A l \in LinesOf(f) : l \in Line /\ l.seq \in Nat
  <1>1. ASSUME NEW s \in Seq(Line) PROVE \A l \in ToSet(s) : l \in Line
    BY DEF ToSet
  <1>2. /\ f.ring \in Seq(Line) /\ f.queue \in Seq(Line) /\ f.history \in Seq(Line)
        /\ f.sent \in Seq(Line) /\ f.lost \subseteq Line
    BY DEF FeedType
  <1>3. \A l \in LinesOf(f) : l \in Line
    BY <1>1, <1>2 DEF LinesOf
  <1>4. \A l \in Line : l.seq \in Nat
    BY DEF Line
  <1> QED BY <1>3, <1>4

(* A line that is published is newer than any. *)
LEMMA FeedNumbers ==
  ASSUME NEW f, FeedGood(f), NEW g, g = [f EXCEPT !.seq = f.seq + 1]
  PROVE  FeedGood(g) /\ LinesOf(g) = LinesOf(f) /\ (\A l \in LinesOf(f) : l.seq < g.seq)
         /\ f.last < g.seq /\ f.last = g.last
  <1>1. f \in FeedType
    BY DEF FeedGood
  <1>0. f.seq \in Nat /\ f.seq + 1 \in Nat
    BY <1>1 DEF FeedType
  <1>2. /\ g \in FeedType /\ g.seq = f.seq + 1 /\ g.kind = f.kind /\ g.at = f.at /\ g.view = f.view
        /\ g.ring = f.ring /\ g.queue = f.queue /\ g.history = f.history /\ g.last = f.last
        /\ g.sent = f.sent /\ g.lost = f.lost /\ g.due = f.due /\ g.still = f.still
    <2> DEFINE n == f.seq + 1
    <2>1. n \in Nat /\ g = [f EXCEPT !.seq = n]
      BY <1>0
    <2> HIDE DEF n
    <2>2. /\ g.seq = n /\ g.kind = f.kind /\ g.at = f.at /\ g.view = f.view
          /\ g.ring = f.ring /\ g.queue = f.queue /\ g.history = f.history /\ g.last = f.last
          /\ g.sent = f.sent /\ g.lost = f.lost /\ g.due = f.due /\ g.still = f.still
      BY <1>1, <2>1 DEF FeedType
    <2>3. g \in FeedType
      BY <1>1, <2>1 DEF FeedType
    <2> QED BY <2>2, <2>3 DEF n
  <1>3. LinesOf(g) = LinesOf(f)
    BY <1>2 DEF LinesOf
  <1>4. \A l \in LinesOf(f) : l \in Line /\ l.seq \in Nat
    BY <1>1, LinesAreLines
  <1>5. f.seq \in Nat /\ f.last \in Nat /\ f.last <= f.seq /\ \A l \in LinesOf(f) : l.seq <= f.seq
    BY <1>1 DEF FeedType, FeedGood
  <1>6. f.last < g.seq /\ \A l \in LinesOf(f) : l.seq < g.seq
    BY <1>2, <1>4, <1>5
  <1>7. g.last <= g.seq /\ \A l \in LinesOf(g) : l.seq <= g.seq
    BY <1>2, <1>3, <1>4, <1>5, <1>6
  <1>8. \A l : (FE!Keeps(g, l) <=> FE!Keeps(f, l)) /\ (InRing(g, l) <=> InRing(f, l))
    BY <1>2 DEF FE!Keeps, InRing
  <1> QED BY <1>2, <1>3, <1>6, <1>7, <1>8 DEF FeedGood

LEMMA FeedRings ==
  ASSUME NEW f, FeedGood(f), NEW line \in Line, line.seq = f.seq, f.last < f.seq,
         \A l \in LinesOf(f) : l.seq < f.seq,
         NEW g, g = FE!Ringed(f, line)
  PROVE  /\ FeedGood(g) /\ g.seq = f.seq /\ g.queue = f.queue /\ g.at = f.at /\ g.last = f.last
         /\ g.sent = f.sent /\ g.history = f.history /\ g.lost = f.lost /\ g.due = f.due
         /\ g.kind = f.kind /\ g.view = f.view
  <1>1. f \in FeedType /\ f.ring \in Seq(Line)
    BY DEF FeedGood, FeedType
  <1>2. CASE f.kind # FE!Logs
    BY <1>2 DEF FE!Ringed
  <1>3. CASE f.kind = FE!Logs
    <2> DEFINE longer == Append(f.ring, line)
               ring == IF Len(longer) > RingMax THEN Tail(longer) ELSE longer
    <2>1. g = [f EXCEPT !.ring = ring]
      BY <1>3 DEF FE!Ringed
    <2>2. /\ longer \in Seq(Line) /\ longer # <<>> /\ ToSet(longer) = ToSet(f.ring) \cup {line}
          /\ Rising(longer)
      <3>1. \A m \in ToSet(f.ring) : m.seq < line.seq
        BY DEF LinesOf
      <3> HIDE DEF longer
      <3> QED BY <1>1, <3>1, AppendsLine DEF FeedGood, longer
    <2> HIDE DEF longer
    <2>3. ring \in Seq(Line) /\ Rising(ring) /\ ToSet(ring) \subseteq ToSet(f.ring) \cup {line}
      BY <2>2, TakesLine
    <2> HIDE DEF ring
    <2>4. /\ g \in FeedType /\ g.seq = f.seq /\ g.kind = f.kind /\ g.at = f.at /\ g.view = f.view
          /\ g.ring = ring /\ g.queue = f.queue /\ g.history = f.history /\ g.last = f.last
          /\ g.sent = f.sent /\ g.lost = f.lost /\ g.due = f.due /\ g.still = f.still
      BY <1>1, <2>1, <2>3 DEF FeedType
    <2>5. LinesOf(g) \subseteq LinesOf(f) \cup {line}
      BY <2>3, <2>4 DEF LinesOf
    <2>6. line.seq \in Nat /\ \A l \in LinesOf(g) : l.seq <= g.seq
      BY <2>4, <2>5 DEF FeedGood, Line
    <2>7. \A l : (FE!Keeps(g, l) <=> FE!Keeps(f, l)) /\ (InRing(g, l) <=> InRing(f, l))
      BY <2>4 DEF FE!Keeps, InRing
    <2>8. ~(line.seq <= g.last)
      BY <1>1, <2>4, <2>6 DEF FeedType
    <2>9. g.at \in {"replays", "streams"} /\ g.still =>
            \A l \in ToSet(g.ring) : l.seq <= g.last /\ FE!Keeps(g, l) =>
                                       l \in ToSet(g.sent) \cup ToSet(g.history)
      BY <2>3, <2>4, <2>7, <2>8 DEF FeedGood
    <2> QED BY <1>3, <2>3, <2>4, <2>6, <2>7, <2>9 DEF FeedGood
  <1> QED BY <1>2, <1>3

(* The filter is met, and the queue of a pane gains the line, and may lose its
   oldest. *)
LEMMA FeedOffers ==
  ASSUME NEW f, FeedGood(f), NEW line \in Line, line.seq = f.seq, f.last < f.seq,
         \A l \in ToSet(f.queue) \cup ToSet(f.history) \cup ToSet(f.sent) \cup f.lost :
           l.seq < f.seq,
         NEW g, g = FE!Offered(f, line)
  PROVE  FeedGood(g)
  <1>1. CASE f.at = "off" \/ ~FE!Keeps(f, line)
    BY <1>1 DEF FE!Offered
  <1>2. CASE ~(f.at = "off" \/ ~FE!Keeps(f, line))
    <2> DEFINE kept == IF Len(f.queue) >= PaneMax THEN Tail(f.queue) ELSE f.queue
               pushed == ToSet(f.queue) \ ToSet(kept)
               queue == Append(kept, line)
               lost == f.lost \cup pushed
               due == f.due \cup {line}
    <2>0. f \in FeedType /\ f.queue \in Seq(Line) /\ f.lost \subseteq Line /\ f.due \subseteq Line
      BY DEF FeedGood, FeedType
    <2>1. /\ kept \in Seq(Line) /\ Rising(kept) /\ ToSet(kept) \subseteq ToSet(f.queue)
          /\ \A x \in pushed, l \in ToSet(kept) : x.seq < l.seq
      <3>1. CASE Len(f.queue) >= PaneMax
        <4>1. f.queue # <<>>
          BY <2>0, <3>1, PaneAssumption
        <4>2. /\ Tail(f.queue) \in Seq(Line)
              /\ ToSet(f.queue) = ToSet(Tail(f.queue)) \cup {Head(f.queue)}
              /\ Rising(Tail(f.queue))
              /\ \A l \in ToSet(Tail(f.queue)) : Head(f.queue).seq < l.seq
          BY <2>0, <4>1, TakesLine DEF FeedGood
        <4>3. kept = Tail(f.queue)
          BY <3>1
        <4> QED BY <4>2, <4>3
      <3>2. CASE ~(Len(f.queue) >= PaneMax)
        <4>1. kept = f.queue /\ pushed = {}
          BY <3>2
        <4> QED BY <2>0, <4>1 DEF FeedGood
      <3> QED BY <3>1, <3>2
    <2>2. pushed \subseteq ToSet(f.queue) /\ ToSet(f.queue) = ToSet(kept) \cup pushed
      BY <2>1
    <2>3. g = [f EXCEPT !.queue = queue, !.lost = lost, !.due = due]
      BY <1>2, <2>0, SameSets DEF FE!Offered, FE!Queues, FeedType
    <2> HIDE DEF kept, pushed
    <2>4. \A l \in ToSet(kept) : l.seq < line.seq
      BY <2>1
    <2>5. queue \in Seq(Line) /\ queue # <<>> /\ Rising(queue) /\ ToSet(queue) = ToSet(kept) \cup {line}
      BY <2>1, <2>4, AppendsLine
    <2>6. lost \subseteq Line /\ due \subseteq Line
      BY <2>0, <2>2, LinesAreLines DEF LinesOf
    <2> HIDE DEF queue, lost, due
    <2>7. /\ g \in FeedType /\ g.seq = f.seq /\ g.kind = f.kind /\ g.at = f.at /\ g.view = f.view
          /\ g.ring = f.ring /\ g.queue = queue /\ g.history = f.history /\ g.last = f.last
          /\ g.sent = f.sent /\ g.lost = lost /\ g.due = due /\ g.still = f.still
      BY <2>0, <2>3, <2>5, <2>6 DEF FeedType
    <2>8. lost = f.lost \cup pushed /\ due = f.due \cup {line}
      BY DEF lost, due
    <2>9. LinesOf(g) \subseteq LinesOf(f) \cup {line}
      BY <2>1, <2>2, <2>5, <2>7, <2>8 DEF LinesOf
    <2>10. g.last <= g.seq /\ \A l \in LinesOf(g) : l.seq <= g.seq
      <3>1. f.seq \in Nat
        BY <2>0 DEF FeedType
      <3> QED BY <2>7, <2>9, <3>1 DEF FeedGood
    <2>11. \A s \in ToSet(g.sent), l \in ToSet(g.history) : s.seq < l.seq
      BY <2>7 DEF FeedGood
    <2>12. \A s \in ToSet(g.sent), l \in ToSet(g.queue) : s.seq < l.seq \/ InRing(g, l)
      BY <2>1, <2>5, <2>7 DEF FeedGood, InRing
    <2>13. \A x \in g.lost, l \in ToSet(g.queue) : x.seq < l.seq
      BY <2>1, <2>2, <2>5, <2>7, <2>8 DEF FeedGood
    <2>14. \A l \in g.due : l.seq <= g.last \/ l \in ToSet(g.sent) \cup ToSet(g.queue) \cup g.lost
      BY <2>2, <2>5, <2>7, <2>8 DEF FeedGood
    <2>15. \A l : FE!Keeps(g, l) <=> FE!Keeps(f, l)
      BY <2>7 DEF FE!Keeps
    <2>16. g.at \in {"replays", "streams"} /\ g.still =>
             \A l \in ToSet(g.ring) : l.seq <= g.last /\ FE!Keeps(g, l) =>
                                        l \in ToSet(g.sent) \cup ToSet(g.history)
      BY <2>7, <2>15 DEF FeedGood
    <2> QED BY <1>2, <2>5, <2>7, <2>10, <2>11, <2>12, <2>13, <2>14, <2>16 DEF FeedGood
  <1> QED BY <1>1, <1>2

LEMMA FeedPublishes ==
  ASSUME FeedGood(feed), FE!Publishes
  PROVE  FeedGood(feed')
  <1>1. PICK of \in FE!Shows \cup {0}, job \in BOOLEAN :
          feed' = FE!Offered(FE!Ringed([feed EXCEPT !.seq = feed.seq + 1],
                                       [seq |-> feed.seq + 1, of |-> of, job |-> job /\ of # 0]),
                             [seq |-> feed.seq + 1, of |-> of, job |-> job /\ of # 0])
    BY DEF FE!Publishes
  <1> DEFINE line == [seq |-> feed.seq + 1, of |-> of, job |-> job /\ of # 0]
             counted == [feed EXCEPT !.seq = feed.seq + 1]
             ringed == FE!Ringed(counted, line)
  <1>2. feed.seq + 1 \in Nat /\ counted.seq = feed.seq + 1
    BY DEF FeedGood, FeedType
  <1>3. line \in Line /\ line.seq = counted.seq
    BY <1>2 DEF Line
  <1>4. feed' = FE!Offered(ringed, line)
    BY <1>1
  <1> HIDE DEF line
  <1>5. /\ FeedGood(counted) /\ (\A l \in LinesOf(counted) : l.seq < counted.seq)
        /\ counted.last < counted.seq
    <2>1. counted = [feed EXCEPT !.seq = feed.seq + 1]
      OBVIOUS
    <2> HIDE DEF counted
    <2> QED BY <2>1, FeedNumbers
  <1> HIDE DEF counted
  <1>6. ringed = FE!Ringed(counted, line)
    OBVIOUS
  <1> HIDE DEF ringed
  <1>7. /\ FeedGood(ringed) /\ ringed.seq = counted.seq /\ ringed.queue = counted.queue
        /\ ringed.last = counted.last /\ ringed.sent = counted.sent
        /\ ringed.history = counted.history /\ ringed.lost = counted.lost
    BY <1>3, <1>5, <1>6, FeedRings
  <1>8. \A l \in ToSet(ringed.queue) \cup ToSet(ringed.history) \cup ToSet(ringed.sent) \cup ringed.lost :
          l.seq < ringed.seq
    BY <1>5, <1>7 DEF LinesOf
  <1> QED BY <1>3, <1>4, <1>5, <1>7, <1>8, FeedOffers

LEMMA FeedViewChanges ==
  ASSUME FeedGood(feed), FE!ViewChanges
  PROVE  FeedGood(feed')
  <1>1. PICK view \in FE!Shows \cup {0} : feed' = [feed EXCEPT !.view = view, !.still = FALSE]
    BY DEF FE!ViewChanges
  <1> DEFINE f == feed
             g == feed'
  <1>2. f \in FeedType /\ g = [f EXCEPT !.view = view, !.still = FALSE] /\ FeedGood(f)
    BY <1>1 DEF FeedGood
  <1> HIDE DEF f, g
  <1>3. /\ g.seq = f.seq /\ g.kind = f.kind /\ g.at = f.at
        /\ g.ring = f.ring /\ g.queue = f.queue /\ g.history = f.history /\ g.last = f.last
        /\ g.sent = f.sent /\ g.lost = f.lost /\ g.due = f.due /\ ~g.still
    BY <1>2 DEF FeedType
  <1>4. g \in FeedType
    BY <1>2 DEF FeedType
  <1>5. LinesOf(g) = LinesOf(f) /\ \A l : InRing(g, l) <=> InRing(f, l)
    BY <1>3 DEF LinesOf, InRing
  <1>6. FeedGood(g)
    BY <1>2, <1>3, <1>4, <1>5 DEF FeedGood
  <1> QED BY <1>6 DEF g

LEMMA FeedConnects ==
  ASSUME FeedGood(feed), FE!Connects
  PROVE  FeedGood(feed')
  <1> DEFINE f == feed
             g == feed'
             at == IF f.kind = FE!Logs THEN "joins" ELSE "streams"
  <1>1. f \in FeedType /\ FeedGood(f) /\ f.at = "off" /\ g = [f EXCEPT !.at = at, !.still = TRUE]
    BY DEF FE!Connects, FeedGood
  <1>2. at \in {"joins", "streams"} /\ (at = "joins" <=> f.kind = FE!Logs)
    OBVIOUS
  <1> HIDE DEF f, g, at
  <1>3. /\ g.at = at /\ g.history = f.history /\ g.last = f.last
        /\ g.seq = f.seq /\ g.kind = f.kind /\ g.view = f.view /\ g.ring = f.ring
        /\ g.queue = f.queue /\ g.sent = f.sent /\ g.lost = f.lost /\ g.due = f.due
    BY <1>1 DEF FeedType
  <1>4. g \in FeedType
    BY <1>1, <1>2 DEF FeedType
  <1>5. /\ f.queue = <<>> /\ f.history = <<>> /\ f.sent = <<>> /\ f.lost = {} /\ f.due = {}
        /\ f.last = 0 /\ (f.kind # FE!Logs => f.ring = <<>>)
    BY <1>1 DEF FeedGood
  <1>6. LinesOf(g) = LinesOf(f)
    BY <1>3 DEF LinesOf
  <1>7. FeedGood(g)
    BY <1>1, <1>2, <1>3, <1>4, <1>5, <1>6, NoLines DEF FeedGood
  <1> QED BY <1>7 DEF g

(* The ring that is taken is behind whatever comes after it. *)
LEMMA FeedTakesRing ==
  ASSUME FeedGood(feed), FE!TakesRing
  PROVE  FeedGood(feed')
  <1> DEFINE f == feed
             g == feed'
             last == IF f.ring = <<>> THEN 0 ELSE f.ring[Len(f.ring)].seq
  <1>1. f \in FeedType /\ FeedGood(f) /\ f.at = "joins"
        /\ g = [f EXCEPT !.at = "replays", !.history = f.ring, !.last = last]
    BY DEF FE!TakesRing, FE!Last, FeedGood
  <1> HIDE DEF f, g
  <1>3. f.seq \in Nat /\ f.ring \in Seq(Line)
    BY <1>1 DEF FeedType
  <1>4. last \in Nat /\ last <= f.seq /\ (\A l \in ToSet(f.ring) : l.seq <= last)
    <2>1. CASE f.ring = <<>>
      <3>1. last = 0 /\ ToSet(f.ring) = {}
        BY <2>1, NoLines
      <3> QED BY <1>3, <3>1
    <2>2. CASE f.ring # <<>>
      <3>1. /\ Len(f.ring) \in Nat \ {0} /\ DOMAIN f.ring = 1..Len(f.ring)
            /\ Len(f.ring) \in DOMAIN f.ring /\ last = f.ring[Len(f.ring)].seq
            /\ \A i \in DOMAIN f.ring : f.ring[i] \in Line /\ f.ring[i].seq \in Nat
        <4>1. /\ Len(f.ring) \in Nat \ {0} /\ DOMAIN f.ring = 1..Len(f.ring)
              /\ Len(f.ring) \in DOMAIN f.ring
              /\ \A i \in DOMAIN f.ring : f.ring[i] \in Line
          BY <1>3, <2>2
        <4>2. \A l \in Line : l.seq \in Nat
          BY DEF Line
        <4>3. last = f.ring[Len(f.ring)].seq
          BY <2>2
        <4> QED BY <4>1, <4>2, <4>3
      <3>2. \A i \in DOMAIN f.ring : f.ring[i].seq <= last
        <4>1. TAKE i \in DOMAIN f.ring
        <4>2. i = Len(f.ring) \/ i < Len(f.ring)
          BY <3>1
        <4>3. i < Len(f.ring) => f.ring[i].seq < f.ring[Len(f.ring)].seq
          BY <1>1, <3>1 DEF FeedGood, Rising
        <4> QED BY <3>1, <4>2, <4>3
      <3>3. last <= f.seq
        BY <1>1, <3>1 DEF FeedGood, LinesOf, ToSet
      <3> QED BY <3>1, <3>2, <3>3 DEF ToSet
    <2> QED BY <2>1, <2>2
  <1> HIDE DEF last
  <1>5. /\ g.at = "replays" /\ g.history = f.ring /\ g.last = last
        /\ g.seq = f.seq /\ g.kind = f.kind /\ g.view = f.view /\ g.ring = f.ring
        /\ g.queue = f.queue /\ g.sent = f.sent /\ g.lost = f.lost /\ g.due = f.due
    BY <1>1 DEF FeedType
  <1>6. g \in FeedType
    <2> DEFINE e == [f EXCEPT !.at = "replays"]
    <2>1. e \in FeedType
      BY <1>1 DEF FeedType
    <2>2. g = [e EXCEPT !.history = f.ring, !.last = last]
      BY <1>1 DEF FeedType
    <2> HIDE DEF e
    <2> QED BY <1>3, <1>4, <2>1, <2>2 DEF FeedType
  <1>7. f.sent = <<>> /\ f.last = 0 /\ Rising(f.ring) /\ f.kind = FE!Logs
    BY <1>1 DEF FeedGood
  <1>8. ToSet(g.sent) = {} /\ Rising(g.sent)
    BY <1>5, <1>7, NoLines
  <1>9. LinesOf(g) \subseteq LinesOf(f)
    BY <1>5 DEF LinesOf
  <1>10. \A l \in LinesOf(g) : l.seq <= g.seq
    BY <1>1, <1>5, <1>9 DEF FeedGood
  <1>11. \A l \in g.due : l.seq <= g.last \/ l \in ToSet(g.sent) \cup ToSet(g.queue) \cup g.lost
    <2>1. TAKE l \in g.due
    <2>5. l \in f.due /\ f.due \subseteq Line
      BY <1>1, <1>5, <2>1 DEF FeedType
    <2>2. l.seq \in Nat
      BY <2>5 DEF Line
    <2>3. l.seq <= f.last \/ l \in ToSet(f.sent) \cup ToSet(f.queue) \cup f.lost
      BY <1>1, <2>5 DEF FeedGood
    <2>4. l.seq <= f.last => l.seq <= last
      BY <1>4, <1>7, <2>2
    <2> QED BY <1>5, <2>3, <2>4
  <1>12. FeedGood(g)
    BY <1>1, <1>4, <1>5, <1>6, <1>7, <1>8, <1>10, <1>11 DEF FeedGood
  <1> QED BY <1>12 DEF g

LEMMA FeedReplays ==
  ASSUME FeedGood(feed), FE!Replays
  PROVE  FeedGood(feed')
  <1> DEFINE f == feed
             g == feed'
             tail == Tail(f.history)
             head == Head(f.history)
             sent == IF FE!Keeps(f, head) THEN Append(f.sent, head) ELSE f.sent
  <1>1. f \in FeedType /\ FeedGood(f) /\ f.at = "replays" /\ f.kind = FE!Logs
        /\ f.history \in Seq(Line) /\ f.sent \in Seq(Line)
    BY DEF FE!Replays, FeedGood, FeedType
  <1>2. CASE f.history = <<>>
    <2>1. g = [f EXCEPT !.at = "streams"]
      BY <1>2 DEF FE!Replays
    <2>6. f \in FeedType
      BY <1>1
    <2> HIDE DEF f, g
    <2>2. /\ g.seq = f.seq /\ g.kind = f.kind /\ g.at = "streams" /\ g.view = f.view
          /\ g.ring = f.ring /\ g.queue = f.queue /\ g.history = f.history /\ g.last = f.last
          /\ g.sent = f.sent /\ g.lost = f.lost /\ g.due = f.due /\ g.still = f.still
      BY <2>1, <2>6 DEF FeedType
    <2>3. g \in FeedType
      BY <1>1, <2>1 DEF FeedType
    <2>4. /\ LinesOf(g) = LinesOf(f)
          /\ \A l : (FE!Keeps(g, l) <=> FE!Keeps(f, l)) /\ (InRing(g, l) <=> InRing(f, l))
      BY <2>2 DEF LinesOf, FE!Keeps, InRing
    <2>5. FeedGood(g)
      BY <1>1, <1>2, <2>2, <2>3, <2>4 DEF FeedGood
    <2> QED BY <2>5 DEF g
  <1>3. CASE f.history # <<>>
    <2>1. g = [f EXCEPT !.history = tail, !.sent = sent]
      BY <1>3 DEF FE!Replays
    <2>2. sent = (IF FE!Keeps(f, head) THEN Append(f.sent, head) ELSE f.sent)
      OBVIOUS
    <2>3. /\ tail \in Seq(Line) /\ head \in Line /\ ToSet(f.history) = ToSet(tail) \cup {head}
          /\ Rising(tail) /\ \A l \in ToSet(tail) : head.seq < l.seq
      BY <1>1, <1>3, TakesLine DEF FeedGood
    <2> HIDE DEF f, g, tail, head, sent
    <2>4. \A m \in ToSet(f.sent) : m.seq < head.seq
      BY <1>1, <2>3 DEF FeedGood
    <2>5. /\ sent \in Seq(Line) /\ Rising(sent) /\ ToSet(f.sent) \subseteq ToSet(sent)
          /\ ToSet(sent) \subseteq ToSet(f.sent) \cup {head}
          /\ FE!Keeps(f, head) => head \in ToSet(sent)
      <3>1. /\ Append(f.sent, head) \in Seq(Line) /\ Rising(Append(f.sent, head))
            /\ ToSet(Append(f.sent, head)) = ToSet(f.sent) \cup {head}
        BY <1>1, <2>3, <2>4, AppendsLine DEF FeedGood
      <3> QED BY <1>1, <2>2, <3>1 DEF FeedGood
    <2>6. /\ g.seq = f.seq /\ g.kind = f.kind /\ g.at = f.at /\ g.view = f.view
          /\ g.ring = f.ring /\ g.queue = f.queue /\ g.history = tail /\ g.last = f.last
          /\ g.sent = sent /\ g.lost = f.lost /\ g.due = f.due /\ g.still = f.still
      BY <1>1, <2>1 DEF FeedType
    <2>7. g \in FeedType
      <3>1. f \in FeedType /\ g = [f EXCEPT !.history = tail, !.sent = sent]
            /\ tail \in Seq(Line) /\ sent \in Seq(Line)
        BY <1>1, <2>1, <2>3, <2>5
      <3>2. [f EXCEPT !.history = tail] \in FeedType
        BY <3>1 DEF FeedType
      <3> DEFINE e == [f EXCEPT !.history = tail]
      <3>3. g = [e EXCEPT !.sent = sent]
        BY <3>1 DEF FeedType
      <3>4. e \in FeedType
        BY <3>2
      <3> HIDE DEF e
      <3> QED BY ONLY <3>1, <3>3, <3>4 DEF FeedType
    <2>8. LinesOf(g) \subseteq LinesOf(f) /\ \A l : FE!Keeps(g, l) <=> FE!Keeps(f, l)
      BY <2>3, <2>5, <2>6 DEF LinesOf, FE!Keeps
    <2>9. f.last \in Nat /\ head.seq \in Nat /\ head.seq <= f.last
          /\ \A l \in ToSet(f.queue) : l.seq \in Nat
      BY <1>1, <2>3, LinesAreLines DEF FeedGood, FeedType, LinesOf, Line
    <2>10. \A l \in ToSet(f.queue) : head.seq < l.seq \/ l.seq <= f.last
      BY <2>9
    <2>11. /\ \A s \in ToSet(g.sent), l \in ToSet(g.history) : s.seq < l.seq
           /\ \A s \in ToSet(g.sent), l \in ToSet(g.queue) : s.seq < l.seq \/ InRing(g, l)
      BY <1>1, <2>3, <2>5, <2>6, <2>10 DEF FeedGood, InRing
    <2>12. \A l \in g.due : l.seq <= g.last \/ l \in ToSet(g.sent) \cup ToSet(g.queue) \cup g.lost
      BY <1>1, <2>5, <2>6 DEF FeedGood
    <2>13. g.at \in {"replays", "streams"} /\ g.still =>
             \A l \in ToSet(g.ring) : l.seq <= g.last /\ FE!Keeps(g, l) =>
                                        l \in ToSet(g.sent) \cup ToSet(g.history)
      BY <1>1, <2>3, <2>5, <2>6, <2>8 DEF FeedGood
    <2>14. FeedGood(g)
      BY <1>1, <2>3, <2>5, <2>6, <2>7, <2>8, <2>11, <2>12, <2>13 DEF FeedGood
    <2> QED BY <2>14 DEF g
  <1> QED BY <1>2, <1>3

(* What waits is newer than all that was sent, but for what the ring had, which
   is passed over. *)
LEMMA FeedStreams ==
  ASSUME FeedGood(feed), FE!Streams
  PROVE  FeedGood(feed')
  <1> DEFINE f == feed
             g == feed'
             tail == Tail(f.queue)
             head == Head(f.queue)
             sent == IF InRing(f, head) THEN f.sent ELSE Append(f.sent, head)
  <1>1. f \in FeedType /\ FeedGood(f) /\ f.at = "streams" /\ f.history = <<>> /\ f.queue # <<>>
        /\ f.queue \in Seq(Line) /\ f.sent \in Seq(Line) /\ f.last \in Nat
    BY DEF FE!Streams, FeedGood, FeedType
  <1>2. /\ tail \in Seq(Line) /\ head \in Line /\ ToSet(f.queue) = ToSet(tail) \cup {head}
        /\ Rising(tail) /\ \A l \in ToSet(tail) : head.seq < l.seq
    BY <1>1, TakesLine DEF FeedGood
  <1>3. g = [f EXCEPT !.queue = tail, !.sent = sent]
    BY DEF FE!Streams, InRing
  <1>4. sent = (IF InRing(f, head) THEN f.sent ELSE Append(f.sent, head))
    OBVIOUS
  <1> HIDE DEF f, g, tail, head, sent
  <1>5. ~InRing(f, head) => \A m \in ToSet(f.sent) : m.seq < head.seq
    BY <1>1, <1>2 DEF FeedGood
  <1>6. /\ sent \in Seq(Line) /\ Rising(sent) /\ ToSet(f.sent) \subseteq ToSet(sent)
        /\ ToSet(sent) \subseteq ToSet(f.sent) \cup {head}
        /\ head \in ToSet(sent) \/ head.seq <= f.last
    <2>1. CASE InRing(f, head)
      BY <1>1, <1>4, <2>1 DEF FeedGood, InRing
    <2>2. CASE ~InRing(f, head)
      BY <1>1, <1>2, <1>4, <1>5, <2>2, AppendsLine DEF FeedGood
    <2> QED BY <2>1, <2>2
  <1>7. /\ g.seq = f.seq /\ g.kind = f.kind /\ g.at = f.at /\ g.view = f.view
        /\ g.ring = f.ring /\ g.queue = tail /\ g.history = f.history /\ g.last = f.last
        /\ g.sent = sent /\ g.lost = f.lost /\ g.due = f.due /\ g.still = f.still
    BY <1>1, <1>3 DEF FeedType
  <1>8. g \in FeedType
    <2> DEFINE e == [f EXCEPT !.queue = tail]
    <2>1. e \in FeedType
      BY <1>1, <1>2 DEF FeedType
    <2>2. g = [e EXCEPT !.sent = sent]
      BY <1>1, <1>3 DEF FeedType
    <2> HIDE DEF e
    <2> QED BY <1>6, <2>1, <2>2 DEF FeedType
  <1>9. /\ LinesOf(g) \subseteq LinesOf(f)
        /\ \A l : (FE!Keeps(g, l) <=> FE!Keeps(f, l)) /\ (InRing(g, l) <=> InRing(f, l))
    BY <1>2, <1>6, <1>7 DEF LinesOf, FE!Keeps, InRing
  <1>10. /\ \A s \in ToSet(g.sent), l \in ToSet(g.history) : s.seq < l.seq
         /\ \A s \in ToSet(g.sent), l \in ToSet(g.queue) : s.seq < l.seq \/ InRing(g, l)
    BY <1>1, <1>2, <1>6, <1>7, <1>9, NoLines DEF FeedGood
  <1>11. \A l \in g.due : l.seq <= g.last \/ l \in ToSet(g.sent) \cup ToSet(g.queue) \cup g.lost
    BY <1>1, <1>2, <1>6, <1>7 DEF FeedGood
  <1>12. g.at \in {"replays", "streams"} /\ g.still =>
           \A l \in ToSet(g.ring) : l.seq <= g.last /\ FE!Keeps(g, l) =>
                                      l \in ToSet(g.sent) \cup ToSet(g.history)
    BY <1>1, <1>6, <1>7, <1>9 DEF FeedGood
  <1>13. FeedGood(g)
    BY <1>1, <1>2, <1>6, <1>7, <1>8, <1>9, <1>10, <1>11, <1>12 DEF FeedGood
  <1> QED BY <1>13 DEF g

LEMMA FeedDisconnects ==
  ASSUME FeedGood(feed), FE!Disconnects
  PROVE  FeedGood(feed')
  <1> DEFINE f == feed
             g == feed'
  <1>1. f \in FeedType /\ FeedGood(f)
        /\ g = [f EXCEPT !.at = "off", !.queue = <<>>, !.history = <<>>, !.last = 0,
                         !.sent = <<>>, !.lost = {}, !.due = {}]
    BY DEF FE!Disconnects, FeedGood
  <1> HIDE DEF f, g
  <1>2. /\ g.at = "off" /\ g.queue = <<>> /\ g.history = <<>> /\ g.last = 0 /\ g.sent = <<>>
        /\ g.lost = {} /\ g.due = {} /\ g.ring = f.ring /\ g.seq = f.seq /\ g.kind = f.kind
    BY <1>1 DEF FeedType
  <1>3. g \in FeedType
    <2> DEFINE d == [f EXCEPT !.at = "off", !.queue = <<>>, !.history = <<>>]
               e == [d EXCEPT !.last = 0, !.sent = <<>>]
    <2>1. f \in FeedType /\ <<>> \in Seq(Line) /\ 0 \in Nat
      BY <1>1
    <2>2. d \in FeedType
      BY <2>1 DEF FeedType
    <2>3. g = [e EXCEPT !.lost = {}, !.due = {}]
      BY <1>1 DEF FeedType
    <2> HIDE DEF d
    <2>4. e \in FeedType
      BY <2>1, <2>2 DEF FeedType
    <2> HIDE DEF e
    <2> QED BY <2>3, <2>4 DEF FeedType
  <1>4. LinesOf(g) \subseteq LinesOf(f)
    BY <1>2, NoLines DEF LinesOf
  <1>5. f.seq \in Nat
    BY <1>1 DEF FeedType
  <1>6. FeedGood(g)
    BY <1>1, <1>2, <1>3, <1>4, <1>5, NoLines DEF FeedGood
  <1> QED BY <1>6 DEF g

FeedInv == machine = "feeds" => FeedGood(feed)

LEMMA FeedInitially == Init => FeedInv
  <1> SUFFICES ASSUME Init, machine = "feeds" PROVE FeedGood(feed)
    BY DEF FeedInv
  <1>1. FE!FeedInit
    BY DEF Init, RoomInit, ConnectorInit, StreamInit
  <1>2. PICK kind \in {FE!Logs, FE!LiveView, FE!Asked} :
          feed = [kind |-> kind, at |-> "off", view |-> 0, seq |-> 0, ring |-> <<>>,
                  queue |-> <<>>, history |-> <<>>, last |-> 0, sent |-> <<>>, lost |-> {},
                  due |-> {}, still |-> TRUE]
    BY <1>1 DEF FE!FeedInit
  <1>3. feed \in FeedType
    BY <1>2, NoLines DEF FeedType
  <1>4. /\ feed.at = "off" /\ feed.seq = 0 /\ feed.last = 0 /\ feed.ring = <<>> /\ feed.queue = <<>>
        /\ feed.history = <<>> /\ feed.sent = <<>> /\ feed.lost = {} /\ feed.due = {}
    BY <1>2
  <1>5. LinesOf(feed) = {}
    BY <1>4, NoLines DEF LinesOf
  <1> QED BY <1>3, <1>4, <1>5, NoLines DEF FeedGood

LEMMA FeedStep == FeedInv /\ [Next]_vars => FeedInv'
  <1> SUFFICES ASSUME FeedInv, [Next]_vars, machine = "feeds" PROVE FeedInv'
    BY MachineStays DEF FeedInv
  <1>0. FeedGood(feed) /\ machine' = machine
    BY MachineStays DEF FeedInv
  <1>1. FE!FeedNext \/ UNCHANGED feed
    BY DEF Next, vars, ConnectorNext, StreamNext, HandshakeStep, CallStep, BatchStep, RoomNext, roomVars
  <1>2. FeedGood(feed')
    <2>1. CASE UNCHANGED feed
      BY <1>0, <2>1
    <2>2. CASE FE!FeedNext
      BY <1>0, <2>2, FeedPublishes, FeedViewChanges, FeedConnects, FeedTakesRing, FeedReplays,
         FeedStreams, FeedDisconnects DEF FE!FeedNext
    <2> QED BY <1>1, <2>1, <2>2
  <1> QED BY <1>2 DEF FeedInv

(* A pane is given its lines once, in order, the one that is in both the ring and
   its queue included: whatever was on show when it was written, after the ring
   was taken, has been sent, waits, or was pushed out by something newer, so a
   slow pane still ends with the last line; and what the ring held when it was
   taken, of a view that has stayed, it has been replayed (EventBus, LogBroadcaster,
   logs_ws, transcript_ws): for every length of the ring and of the queue. *)
THEOREM PanesTellStory == Spec => []PaneTellsStory
  <1>1. FeedInv => PaneTellsStory
    <2> SUFFICES ASSUME FeedInv, machine = "feeds" PROVE PaneTellsStory
      BY DEF PaneTellsStory
    <2>1. FeedGood(feed)
      BY DEF FeedInv
    <2>2. feed.at = "streams" => ToSet(feed.history) = {}
      BY <2>1, NoLines DEF FeedGood
    <2>3. \A i \in DOMAIN feed.queue : feed.queue[i] \in ToSet(feed.queue)
      BY DEF ToSet
    <2>4. \A i \in DOMAIN feed.ring : feed.ring[i] \in ToSet(feed.ring)
      BY DEF ToSet
    <2>5. \A i, j \in DOMAIN feed.sent : i < j => feed.sent[i].seq < feed.sent[j].seq
      BY <2>1 DEF FeedGood, Rising
    <2>6. \A line \in feed.lost : \A i \in DOMAIN feed.queue : line.seq < feed.queue[i].seq
      BY <2>1, <2>3 DEF FeedGood
    <2>7. feed.at = "streams" /\ feed.still =>
            \A i \in DOMAIN feed.ring :
              feed.ring[i].seq <= feed.last /\ FE!Keeps(feed, feed.ring[i]) =>
                feed.ring[i] \in ToSet(feed.sent)
      BY <2>1, <2>2, <2>4 DEF FeedGood
    <2>8. \A line \in feed.due : feed.last < line.seq =>
            line \in ToSet(feed.sent) \cup ToSet(feed.queue) \cup feed.lost
      <3>1. TAKE line \in feed.due
      <3>2. line.seq \in Nat /\ feed.last \in Nat
        BY <2>1 DEF FeedGood, FeedType, Line
      <3> QED BY <2>1, <3>2 DEF FeedGood
    <2> QED BY <2>5, <2>6, <2>7, <2>8 DEF PaneTellsStory
  <1> QED BY FeedInitially, FeedStep, <1>1, PTL DEF Spec

-----------------------------------------------------------------------------
(* One behaviour is of one vendor, or of no stream at all. *)
Vendors == {"openai", "assemblyai", "gemini", "deepgram", "xai"}

TurnsInv ==
  /\ machine = "openai" => OpenAIKnows
  /\ machine = "assemblyai" => AssemblyAIKnows
  /\ machine = "gemini" => GeminiKnows
  /\ machine = "deepgram" => DeepgramKnows
  /\ machine = "xai" => XaiKnows
  /\ machine \notin Vendors => ended = Off

LEMMA TurnsInitially == Init => TurnsInv
<1> SUFFICES ASSUME Init PROVE TurnsInv
  OBVIOUS
<1>1. machine = "openai" => OA!Init
  BY DEF Init, RoomInit, ConnectorInit, StreamInit
<1>2. machine = "assemblyai" => AA!Init
  BY DEF Init, RoomInit, ConnectorInit, StreamInit
<1>3. machine = "gemini" => GL!Init
  BY DEF Init, RoomInit, ConnectorInit, StreamInit
<1>4. machine = "deepgram" => DG!Init
  BY DEF Init, RoomInit, ConnectorInit, StreamInit
<1>5. machine = "xai" => XA!Init
  BY DEF Init, RoomInit, ConnectorInit, StreamInit
<1>6. machine \notin Vendors => ended = Off
  <2>1. machine \notin Vendors => ~StreamInit
    BY DEF StreamInit, Vendors
  <2>2. Init => StreamInit \/ StreamsOff
    BY DEF Init, ConnectorInit, ConnectorsOff, EarlierOff
  <2> QED BY <2>1, <2>2 DEF StreamsOff
<1> QED BY <1>1, <1>2, <1>3, <1>4, <1>5, <1>6, OpenAIKnowsAtFirst, AssemblyAIKnowsAtFirst,
           GeminiKnowsAtFirst, DeepgramKnowsAtFirst, XaiKnowsAtFirst DEF TurnsInv

(* Only a step of the vendor itself touches its stream. *)
LEMMA StreamSteps ==
  ASSUME [Next]_vars
  PROVE  /\ machine = "openai" => OA!Next \/ UNCHANGED streamVars
         /\ machine = "assemblyai" => AA!Next \/ UNCHANGED streamVars
         /\ machine = "gemini" => GL!Next \/ UNCHANGED streamVars
         /\ machine = "deepgram" => DG!Next \/ UNCHANGED streamVars
         /\ machine = "xai" => XA!Next \/ UNCHANGED streamVars
         /\ machine \notin Vendors => UNCHANGED streamVars
<1>1. StreamNext \/ UNCHANGED streamVars
  BY DEF Next, vars, connectorVars, ConnectorNext, HandshakeStep, CallStep, BatchStep, RoomNext
<1> QED BY <1>1 DEF StreamNext, Vendors

LEMMA StutterKeeps ==
  ASSUME UNCHANGED streamVars
  PROVE  /\ OpenAIKnows => OpenAIKnows'
         /\ AssemblyAIKnows => AssemblyAIKnows'
         /\ GeminiKnows => GeminiKnows'
         /\ DeepgramKnows => DeepgramKnows'
         /\ XaiKnows => XaiKnows'
<1>0. conn' = conn /\ svc' = svc /\ said' = said /\ book' = book /\ ended' = ended
  BY DEF streamVars
<1>1. OpenAIKnows => OpenAIKnows'
  BY <1>0 DEF OpenAIKnows, OpenAIItems, OpenAIBooks, AllSettled
<1>2. AssemblyAIKnows => AssemblyAIKnows'
  BY <1>0 DEF AssemblyAIKnows, AssemblyAITurns, AssemblyAIBooks, AllSettled
<1>3. GeminiKnows => GeminiKnows'
  BY <1>0 DEF GeminiKnows, AllSettled
<1>4. DeepgramKnows => DeepgramKnows'
  BY <1>0 DEF DeepgramKnows, AllSettled
<1>5. XaiKnows => XaiKnows'
  BY <1>0 DEF XaiKnows, AllSettled
<1> QED BY <1>1, <1>2, <1>3, <1>4, <1>5

LEMMA TurnsStep == TurnsInv /\ [Next]_vars => TurnsInv'
<1> SUFFICES ASSUME TurnsInv, [Next]_vars PROVE TurnsInv'
  OBVIOUS
<1>0. machine' = machine
  BY MachineStays
<1>1. machine = "openai" => OpenAIKnows'
  BY StreamSteps, StutterKeeps, OpenAIKeepsStep DEF TurnsInv
<1>2. machine = "assemblyai" => AssemblyAIKnows'
  BY StreamSteps, StutterKeeps, AssemblyAIKeepsStep DEF TurnsInv
<1>3. machine = "gemini" => GeminiKnows'
  BY StreamSteps, StutterKeeps, GeminiKeepsStep DEF TurnsInv
<1>4. machine = "deepgram" => DeepgramKnows'
  BY StreamSteps, StutterKeeps, DeepgramKeepsStep DEF TurnsInv
<1>5. machine = "xai" => XaiKnows'
  BY StreamSteps, StutterKeeps, XaiKeepsStep DEF TurnsInv
<1>6. machine \notin Vendors => ended' = Off
  BY StreamSteps DEF TurnsInv, streamVars
<1> QED BY <1>0, <1>1, <1>2, <1>3, <1>4, <1>5, <1>6 DEF TurnsInv

(* What the five have in common: good books, whose settled rows are what the
   service settled while the connection is up, and all of them once it is not. *)
StreamTold ==
  /\ BK!Good(book)
  /\ ended = "no" => BK!Said(book) = said
  /\ ended # "no" => AllSettled

LEMMA VendorsTell == ASSUME TurnsInv, Streaming PROVE StreamTold
<1>1. machine \in Vendors
  BY DEF TurnsInv, Streaming
<1>2. OpenAIKnows => StreamTold
  BY DEF OpenAIKnows, OpenAIBooks, StreamTold
<1>3. AssemblyAIKnows => StreamTold
  BY DEF AssemblyAIKnows, AssemblyAIBooks, StreamTold
<1>4. GeminiKnows => StreamTold
  BY DEF GeminiKnows, GeminiBooks, StreamTold
<1>5. DeepgramKnows => StreamTold
  BY DEF DeepgramKnows, DeepgramBooks, StreamTold
<1>6. XaiKnows => StreamTold
  BY DEF XaiKnows, XaiBooks, StreamTold
<1> QED BY <1>1, <1>2, <1>3, <1>4, <1>5, <1>6 DEF TurnsInv, Vendors

(* The rows of one kind, as the properties have them. *)
LEMMA RowsAre ==
  ASSUME BK!Good(book)
  PROVE  /\ Rows(TRUE) = {r \in BK!ToSet(book.rows) : r.final}
         /\ Rows(FALSE) = {r \in BK!ToSet(book.rows) : ~r.final}
<1>1. BK!ToSet(book.rows) = {book.rows[i] : i \in DOMAIN book.rows}
  BY DEF BK!ToSet
<1>2. \A i \in DOMAIN book.rows : book.rows[i].final \in BOOLEAN
  <2>1. \A r \in BK!ToSet(book.rows) : r \in BK!RowType
    BY BK!RowsType DEF BK!Good, BK!BookKept
  <2> QED BY <1>1, <2>1 DEF BK!RowType
<1> QED BY <1>1, <1>2 DEF Rows

(* While a connection is up, the settled rows of the transcript are exactly
   what its service has settled, each turn once, under one handle, with its last
   text and words, whatever interims, duplicates, late answers and revisions
   came in between (signals() of the five connectors, _apply): for any number of
   turns, segments, words and increments. *)
THEOREM SaidAlwaysWritten == Spec => []SaidIsWritten
<1>1. TurnsInv => SaidIsWritten
  <2> SUFFICES ASSUME TurnsInv, Streaming, ended = "no"
               PROVE  {[handle |-> r.handle, text |-> r.text, words |-> r.words] : r \in Rows(TRUE)} = said
    BY DEF SaidIsWritten
  <2>1. BK!Good(book) /\ BK!Said(book) = said
    BY VendorsTell DEF StreamTold
  <2>2. Rows(TRUE) = {r \in BK!ToSet(book.rows) : r.final}
    BY <2>1, RowsAre
  <2> QED BY <2>1, <2>2 DEF BK!Said, BK!SaidOf, BK!Telling
<1> QED BY TurnsInitially, TurnsStep, <1>1, PTL DEF Spec

(* However a connection ends, no row of the transcript is left an interim, and
   while it is up an interim belongs to a turn that is still open
   (_settle_open, _apply): for any number of turns. *)
LEMMA InterimsAlwaysOwned == Spec => []NoStrandedInterim
<1>1. TurnsInv => NoStrandedInterim
  <2> SUFFICES ASSUME TurnsInv, Streaming
               PROVE  /\ \A r \in Rows(FALSE) : \E i \in DOMAIN book.open : book.open[i].handle = r.handle
                      /\ ended # "no" => Rows(FALSE) = {}
    BY DEF NoStrandedInterim
  <2>1. StreamTold /\ BK!Good(book)
    BY VendorsTell DEF StreamTold
  <2>2. Rows(FALSE) = {r \in BK!ToSet(book.rows) : ~r.final}
    BY <2>1, RowsAre
  <2>3. \A r \in Rows(FALSE) : \E i \in DOMAIN book.open : book.open[i].handle = r.handle
    <3>1. \A r \in Rows(FALSE) : \E t \in BK!ToSet(book.open) : t.handle = r.handle
      BY <2>1, <2>2 DEF BK!Good, BK!OwedBy
    <3> QED BY <3>1 DEF BK!ToSet
  <2>4. ended # "no" => Rows(FALSE) = {}
    BY <2>1, <2>2 DEF StreamTold, AllSettled
  <2> QED BY <2>3, <2>4
<1> QED BY TurnsInitially, TurnsStep, <1>1, PTL DEF Spec

(* The sockets a session streams over are opened without a leak, whatever
   refuses or interrupts the opening, and left with nothing half told: no row
   stays an interim, and a reader that chose the moment left no turn in the
   middle (open_stream, signals, _settle_open): for any number of connects and
   turns. *)
THEOREM ConnectionsAlwaysKept == Spec => []ConnectionsKept
<1>1. OpeningKeepsBooks /\ NoStrandedInterim /\ LeavesBetweenTurns => ConnectionsKept
  BY DEF ConnectionsKept, LeavesCleanly
<1> QED BY OpeningsKeepBooks, InterimsAlwaysOwned, ReadersLeaveBetweenTurns, <1>1, PTL

-----------------------------------------------------------------------------
(* The calls of one utterance, over a socket and over HTTP. *)
CallsInv == (machine = "call" => CallKnows) /\ (machine = "batch" => BatchKnows)

LEMMA CallsInitially == Init => CallsInv
<1>1. Init /\ machine = "call" => UC!CallInit
  BY DEF Init, RoomInit, ConnectorInit, StreamInit
<1>2. Init /\ machine = "batch" => BC!BatchInit
  BY DEF Init, RoomInit, ConnectorInit, StreamInit
<1> QED BY <1>1, <1>2, CallKnowsAtFirst, BatchKnowsAtFirst DEF CallsInv

LEMMA CallsStep == CallsInv /\ [Next]_vars => CallsInv'
<1> SUFFICES ASSUME CallsInv, [Next]_vars PROVE CallsInv'
  OBVIOUS
<1>0. machine' = machine
  BY MachineStays
<1>1. machine = "call" => UC!CallNext \/ UNCHANGED call
  BY DEF Next, vars, connectorVars, ConnectorNext, StreamNext, HandshakeStep, CallStep, BatchStep, RoomNext
<1>2. machine = "batch" => BC!BatchNext \/ UNCHANGED batch
  BY DEF Next, vars, connectorVars, ConnectorNext, StreamNext, HandshakeStep, CallStep, BatchStep, RoomNext
<1>3. UNCHANGED call /\ CallKnows => CallKnows'
  BY DEF CallKnows, CallKept, HearsAll, OneDue, AnswerKept
<1>4. UNCHANGED batch /\ BatchKnows => BatchKnows'
  BY DEF BatchKnows
<1> QED BY <1>0, <1>1, <1>2, <1>3, <1>4, CallKeepsStep, BatchKeepsStep DEF CallsInv

(* A call that read its service to the end answers with all that was settled,
   in order and of its own utterance, whatever was told late, empty or twice;
   and a job it knows of is answered, or its deletion is under way, and never
   waited for beyond the ceiling (transcribe_one, _await_completion): for any
   number of utterances and turns and any ceiling. *)
THEOREM CallsAlwaysKept == Spec => []CallsKept
<1>1. CallsInv => CallsKept
  BY AnswerIsKept, NoPaidJobIsLeft DEF CallsInv, CallsKept
<1> QED BY CallsInitially, CallsStep, <1>1, PTL DEF Spec
=============================================================================
