----------------------------- MODULE SpeakerBank ------------------------------
(***************************************************************************)
(* The voices a session has heard (SpeakerBank and SessionBanks in         *)
(* services/diarization/app.py).  An embedding is a point on a line and    *)
(* cosine similarity a distance: people sit far apart, a reliable          *)
(* embedding lands within Spread of its speaker, a fragment anywhere.      *)
(* MaxUtterances bounds the calls, MaxBanks is DIAR_MAX_SESSIONS.          *)
(***************************************************************************)
EXTENDS Integers, Sequences, FiniteSets, SequencesExt, FiniteSetsExt

CONSTANTS People, Spread, Fragments, Threshold, FloorMargin, CentroidMemory,
          Tables, MaxBanks, MaxUtterances

VARIABLES banks, recent, idle, bounds, heard

bankVars == <<banks, recent, idle, bounds, heard>>

NoAnswer == [clusters |-> <<>>, ids |-> <<>>, voices |-> <<>>]

BankInit ==
  /\ banks = [s \in Tables |-> <<>>]  \* per session: its voices
  /\ recent = <<>>                      \* the sessions kept, least recently used first
  /\ idle = {}                          \* those past the TTL
  /\ bounds \in [atLeast : {0, 2}, cap : {0, 1, 2}]  \* what the caller says of its sessions
  /\ heard = [calls |-> 0, last |-> NoAnswer]

Near(a, b) == IF a > b THEN a - b ELSE b - a

Reliable == {[who |-> p, at |-> p + d, reliable |-> TRUE] : p \in People, d \in {-Spread, Spread}}
Unreliable == {[who |-> 0, at |-> f, reliable |-> FALSE] : f \in Fragments}

(* A call's clusters: different people, by the call's own clustering. *)
Utterances ==
  LET clusters == Reliable \cup Unreliable IN
  {<<c>> : c \in clusters} \cup
  {pair \in clusters \X clusters : pair[1].at < pair[2].at /\ pair[1].who # pair[2].who}

(* A voice weighs its observations, up to a memory. *)
Observed(voice, at) ==
  [voice EXCEPT !.at = (@ * voice.count + at) \div (voice.count + 1),
                !.count = IF @ < CentroidMemory THEN @ + 1 ELSE @]

Limit(voices, atLeast) ==
  IF Len(voices) < atLeast THEN Threshold - FloorMargin ELSE Threshold

(* Best pairs first, one cluster to one voice, none beyond the limit. *)
Better(p, q, clusters, voices) ==
  LET d(r) == Near(clusters[r[1]].at, voices[r[2]].at) IN
  \/ d(p) < d(q)
  \/ d(p) = d(q) /\ (p[1] < q[1] \/ (p[1] = q[1] /\ p[2] < q[2]))

Match(clusters, voices, limit) ==
  LET pairs == {p \in (DOMAIN clusters) \X (DOMAIN voices) :
                  Near(clusters[p[1]].at, voices[p[2]].at) <= limit}
      taken[n \in 0..Len(clusters)] ==
        IF n = 0 THEN {} ELSE
        LET free == {p \in pairs : \A q \in taken[n - 1] : p[1] # q[1] /\ p[2] # q[2]} IN
        IF free = {} THEN taken[n - 1]
        ELSE taken[n - 1] \cup
               {CHOOSE p \in free : \A q \in free : p = q \/ Better(p, q, clusters, voices)}
  IN taken[Len(clusters)]

Nearest(at, voices, candidates) ==
  CHOOSE v \in candidates : \A w \in candidates :
    \/ Near(at, voices[v].at) < Near(at, voices[w].at)
    \/ Near(at, voices[v].at) = Near(at, voices[w].at) /\ v <= w

TakenBy(taken, v) == taken \cup {v}

(* _open: a new voice under the cap, else the nearest one left free. *)
Open(state, cluster, cap) ==
  LET n == Len(state.voices)
      free == (1..n) \ state.taken
      forced == Nearest(cluster.at, state.voices, IF free # {} THEN free ELSE 1..n)
  IN IF cap = 0 \/ n < cap
     THEN [voices |-> Append(state.voices, [at |-> cluster.at, count |-> 1, of |-> cluster.who]),
           taken |-> TakenBy(state.taken, n + 1), ids |-> Append(state.ids, n + 1)]
     ELSE [state EXCEPT !.taken = @ \cup {forced}, !.ids = Append(@, forced)]

TrustsAll(cluster) == TRUE
Trusts(cluster) == cluster.reliable

(* SpeakerBank.resolve: matched against the centroids it started from; 0 is
   no speaker, cap 0 is uncapped. *)
Resolve(voices, clusters, atLeast, cap) ==
  LET matched == Match(clusters, voices, Limit(voices, atLeast))
      observed == [v \in DOMAIN voices |->
        LET by == {p[1] : p \in {q \in matched : q[2] = v /\ Trusts(clusters[q[1]])}} IN
        IF by = {} THEN voices[v] ELSE Observed(voices[v], clusters[CHOOSE i \in by : TRUE].at)]
      after[n \in 0..Len(clusters)] ==
        IF n = 0
        THEN [voices |-> observed, taken |-> {p[2] : p \in matched}, ids |-> <<>>]
        ELSE LET own == {p[2] : p \in {q \in matched : q[1] = n}} IN
             IF own # {} THEN [after[n - 1] EXCEPT !.ids = Append(@, CHOOSE v \in own : TRUE)]
             ELSE IF Trusts(clusters[n]) THEN Open(after[n - 1], clusters[n], cap)
             ELSE [after[n - 1] EXCEPT !.ids = Append(@, 0)]
  IN after[Len(clusters)]

(* SessionBanks.resolve: the idle are swept first, this one becomes the most
   recent, and the least recent beyond the cap are let go. *)
Diarized(s) ==
  /\ heard.calls < MaxUtterances
  /\ LET kept == SelectSeq(recent, LAMBDA r : r \notin idle)
         moved == Append(SelectSeq(kept, LAMBDA r : r # s), s)
         let_go == Len(moved) - MaxBanks
         stay == IF let_go > 0 THEN SubSeq(moved, let_go + 1, Len(moved)) ELSE moved
         voices == IF s \in ToSet(kept) THEN banks[s] ELSE <<>>
     IN \E clusters \in Utterances :
          LET done == Resolve(voices, clusters, bounds.atLeast, bounds.cap) IN
          /\ recent' = stay
          /\ banks' = [r \in Tables |-> IF r = s THEN done.voices
                                          ELSE IF r \in ToSet(stay) THEN banks[r] ELSE <<>>]
          /\ heard' = [calls |-> heard.calls + 1,
                       last |-> [clusters |-> clusters, ids |-> done.ids,
                                 voices |-> done.voices]]
  /\ idle' = {} /\ UNCHANGED bounds

(* An hour goes by without a call of some of the sessions. *)
GoesIdle ==
  /\ ToSet(recent) # {} /\ idle = {}
  /\ idle' \in (SUBSET ToSet(recent)) \ {{}}
  /\ UNCHANGED <<banks, recent, bounds, heard>>

(* DELETE /sessions/{id}, which a stopped capture sends. *)
Deleted(s) ==
  /\ s \in ToSet(recent)
  /\ recent' = SelectSeq(recent, LAMBDA r : r # s)
  /\ banks' = [banks EXCEPT ![s] = <<>>]
  /\ idle' = idle \ {s}
  /\ UNCHANGED <<bounds, heard>>

BankNext ==
  \/ \E s \in Tables : Diarized(s) \/ Deleted(s)
  \/ GoesIdle
=============================================================================
