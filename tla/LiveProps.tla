----------------------------- MODULE LiveProps ------------------------------
(***************************************************************************)
(* What the streaming live path promises.                                  *)
(***************************************************************************)
EXTENDS LivePath

(* A half-typed row on screen always belongs to a turn that is still open, so
   whatever ends the connection, the provider or the path settles it (only a
   cancellation that meets the teardown leaves one behind). *)
EveryTurnSettles ==
  end # "torn" => /\ interim = Settled(turns)
                  /\ pc \in {"gap", "labels", "over"} => interim = {}

(* A settled row never goes back to being a half-typed one, whatever a vendor
   says about its turn afterwards. *)
SettledStays == [][final \subseteq final']_vars

(* When the path closes its books, every frame since the first one that
   reached a vendor was written to a connection or lies in a marked gap; all
   but the one that stop() may drop to make room for the sentinel. *)
Covered(k, rows) == \E m \in rows : m[1] <= k /\ k <= m[2]

LostIsMarked ==
  [][pc = "gap" /\ pc' = "labels" /\ end \notin {"cancelled", "torn"} =>
       \A j \in sent : \A k \in j .. now : k \in sent \cup evicted \/ Covered(k, markers')]_vars

(* No second of the evening is reported lost twice, by however many
   connections or providers. *)
MarkersDisjoint ==
  \A m, n \in markers : m = n \/ m[2] <= n[1] \/ n[2] <= m[1]

(* An utterance is given up only when every provider of the pair was asked
   for it, or had been retired by an earlier one. *)
LostOnlyAfterAll ==
  \A u \in dropped : \A p \in Range(pair) : p \in asked[u] \/ retiredAt[p] \in 1 .. u - 1

(* One alert for an outage of the router, however long it lasts: one for each
   recovery, and one more while the streak is long enough. *)
OneAlertPerOutage ==
  step # "over" =>
    alerts + (IF step = "alert" THEN 1 ELSE 0)
      = recoveries + (IF streak >= DegradedAfter THEN 1 ELSE 0)

(* Once the microphone is closed, the live task comes to its end: in whichever
   state the stream was, and whoever was transcribing. *)
StopEndsPath == stopped ~> LiveOver
=============================================================================
