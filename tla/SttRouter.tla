----------------------------- MODULE SttRouter -----------------------------
(***************************************************************************)
(* SttRouter (src/src/loreline/stt/router.py): one utterance after the     *)
(* other, each transcribed by the first provider that answers.             *)
(*                                                                         *)
(* A provider whose failure will repeat is retired; an utterance nobody    *)
(* transcribed is dropped; a streak of dropped ones alerts once; with      *)
(* nobody left the run raises ProvidersExhaustedError.                     *)
(***************************************************************************)
EXTENDS Integers, Sequences, FiniteSets, SequencesExt

CONSTANTS
  Providers,      \* provider ids
  RouterFaults,   \* subset of {"transient", "terminal"}
  DegradedAfter,  \* _DEGRADED_AFTER_FAILURES
  MaxUtts         \* bound: utterances

ASSUME RouterAssumption ==
  /\ RouterFaults \subseteq {"transient", "terminal"}
  /\ DegradedAfter \in Nat \ {0} /\ MaxUtts \in Nat

VARIABLES
  pair,        \* the constructor's primary and, maybe, fallback
  step,        \* where run() awaits
  utt,         \* the utterance in hand
  asking,      \* the candidates not asked yet for it, as _viable() gave them
  asked,       \* asked[u]: the providers asked for u
  retiredAt,   \* _retired: the utterance that retired a provider, or 0
  streak,      \* _consecutive_failures
  degraded,    \* _degraded_since is set
  dropped,     \* the utterances _note_dropped counted
  alerts,      \* on_failover calls
  recoveries,  \* stt.recovered log lines
  written      \* utterances published to the bus

routerVars == <<pair, step, utt, asking, asked, retiredAt, streak, degraded,
                dropped, alerts, recoveries, written>>

RouterInit ==
  /\ pair = <<>> /\ step = "unbuilt" /\ utt = 0 /\ asking = <<>>
  /\ asked = [u \in 1 .. MaxUtts |-> {}]
  /\ retiredAt = [p \in Providers |-> 0]
  /\ streak = 0 /\ degraded = FALSE /\ dropped = {}
  /\ alerts = 0 /\ recoveries = 0 /\ written = {}

(* The primary, then the fallback, if there is one. *)
Still(i) == IF i \in DOMAIN pair /\ retiredAt[pair[i]] = 0 THEN <<pair[i]>> ELSE <<>>
Viable   == Still(1) \o Still(2)

RouterBuilt(p) ==
  /\ step = "unbuilt"
  /\ pair' = p /\ step' = "pull"
  /\ UNCHANGED <<utt, asking, asked, retiredAt, streak, degraded, dropped, alerts,
                 recoveries, written>>

RouterPulls(u) ==
  /\ step = "pull"
  /\ utt' = u /\ asking' = Viable /\ step' = "ask"
  /\ UNCHANGED <<pair, asked, retiredAt, streak, degraded, dropped, alerts, recoveries,
                 written>>

(* An answer: text, or nothing, which is an answer too. *)
Answers ==
  /\ step = "ask" /\ asking # <<>>
  /\ asked' = [asked EXCEPT ![utt] = @ \cup {Head(asking)}]
  /\ streak' = 0 /\ degraded' = FALSE
  /\ recoveries' = IF degraded THEN recoveries + 1 ELSE recoveries
  /\ asking' = <<>>
  /\ step' \in {"publish", "pull"}
  /\ UNCHANGED <<pair, utt, retiredAt, dropped, alerts, written>>

(* Mutant: a failing primary is not worth asking anybody else. *)
FailsFast ==
  /\ step = "ask" /\ asking # <<>>
  /\ asked' = [asked EXCEPT ![utt] = @ \cup {Head(asking)}]
  /\ asking' = <<>>
  /\ \/ "transient" \in RouterFaults /\ UNCHANGED retiredAt
     \/ "terminal" \in RouterFaults /\ retiredAt' = [retiredAt EXCEPT ![Head(asking)] = utt]
  /\ UNCHANGED <<pair, step, utt, streak, degraded, dropped, alerts, recoveries, written>>

(* An error, or no answer within timeout_s. *)
Fails ==
  /\ step = "ask" /\ asking # <<>>
  /\ asked' = [asked EXCEPT ![utt] = @ \cup {Head(asking)}]
  /\ asking' = Tail(asking)
  /\ \/ "transient" \in RouterFaults /\ UNCHANGED retiredAt
     \/ "terminal" \in RouterFaults /\ retiredAt' = [retiredAt EXCEPT ![Head(asking)] = utt]
  /\ UNCHANGED <<pair, step, utt, streak, degraded, dropped, alerts, recoveries, written>>

GivesUp ==
  /\ step = "ask" /\ asking = <<>> /\ Viable = <<>>
  /\ degraded' = TRUE /\ step' = "exhausted"
  /\ UNCHANGED <<pair, utt, asking, asked, retiredAt, streak, dropped, alerts, recoveries,
                 written>>

(* Mutant: every further failure alerts. *)
DropsLoudly ==
  /\ step = "ask" /\ asking = <<>> /\ Viable # <<>>
  /\ streak' = streak + 1 /\ dropped' = dropped \cup {utt}
  /\ IF streak' >= DegradedAfter
     THEN degraded' = TRUE /\ step' = "alert"
     ELSE UNCHANGED degraded /\ step' = "pull"
  /\ UNCHANGED <<pair, utt, asking, asked, retiredAt, alerts, recoveries, written>>

(* _note_dropped: the alert belongs to the transition, not to the failure. *)
Drops ==
  /\ step = "ask" /\ asking = <<>> /\ Viable # <<>>
  /\ streak' = streak + 1 /\ dropped' = dropped \cup {utt}
  /\ IF streak' = DegradedAfter
     THEN degraded' = TRUE /\ step' = "alert"
     ELSE UNCHANGED degraded /\ step' = "pull"
  /\ UNCHANGED <<pair, utt, asking, asked, retiredAt, alerts, recoveries, written>>

(* on_failover answered, or raised: suppressed. *)
RouterAlerts ==
  /\ step = "alert"
  /\ alerts' = alerts + 1 /\ step' = "pull"
  /\ UNCHANGED <<pair, utt, asking, asked, retiredAt, streak, degraded, dropped,
                 recoveries, written>>

(* Labelled, or unlabelled when the diarizer fails. *)
RouterPublishes ==
  /\ step = "publish"
  /\ written' = written \cup {utt} /\ step' = "pull"
  /\ UNCHANGED <<pair, utt, asking, asked, retiredAt, streak, degraded, dropped, alerts,
                 recoveries>>

RouterEnds ==
  /\ step = "pull"
  /\ step' = "over"
  /\ UNCHANGED <<pair, utt, asking, asked, retiredAt, streak, degraded, dropped, alerts,
                 recoveries, written>>

RouterCancelled ==
  /\ step' = "over"
  /\ UNCHANGED <<pair, utt, asking, asked, retiredAt, streak, degraded, dropped, alerts,
                 recoveries, written>>

RouterWorks == Answers \/ Fails \/ GivesUp \/ Drops \/ RouterAlerts \/ RouterPublishes
=============================================================================
