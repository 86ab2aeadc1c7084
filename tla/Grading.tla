-------------------------------- MODULE Grading -------------------------------
(***************************************************************************)
(* How an answer is graded (health.py): by a probe for the settings page,  *)
(* and by a run deciding whether to leave a provider for good.  What is    *)
(* wrong with a provider comes, passes by itself or is put right by the    *)
(* operator; a request meets it in the vendor's own wording.               *)
(***************************************************************************)
EXTENDS Integers

VARIABLES
  trouble,  \* what is wrong with the provider now
  verdict,  \* of a run's last failed request, and what was wrong then
  badge     \* of the last probe, and what was wrong then

gradingVars == <<trouble, verdict, badge>>

Body == [auth |-> FALSE, billing |-> FALSE, retry |-> FALSE]
Auth == [Body EXCEPT !.auth = TRUE]
Billing == [Body EXCEPT !.billing = TRUE]
Retry == [Body EXCEPT !.retry = TRUE]

(* External: the wordings observed per vendor, status 0 being no answer. *)
Wordings ==
  [ok          |-> {<<200, Body>>},
   no_key      |-> {<<401, Auth>>, <<403, Auth>>, <<404, Body>>},
   bad_key     |-> {<<400, Auth>>, <<401, Auth>>, <<401, Body>>, <<403, Auth>>},
   blank_key   |-> {<<-1, Body>>},
   no_credit   |-> {<<429, Billing>>, <<402, Billing>>, <<402, Body>>, <<400, Billing>>,
                    <<402, [Billing EXCEPT !.auth = TRUE]>>},
   throttled   |-> {<<429, Body>>, <<429, Retry>>, <<429, [Retry EXCEPT !.billing = TRUE]>>},
   broken      |-> {<<500, Body>>, <<503, Retry>>, <<502, Billing>>},
   dropped     |-> {<<0, Body>>},
   no_model    |-> {<<404, Body>>},
   bad_clip    |-> {<<400, Body>>}]

Troubles == DOMAIN Wordings \ {"ok"}
Lasting == {"no_key", "bad_key", "blank_key", "no_credit", "no_model"}
OfTheKey == {"no_key", "bad_key", "blank_key"}

NoVerdict == [of |-> "ok", terminal |-> FALSE, status |-> "healthy"]

GradingInit == trouble = "ok" /\ verdict = NoVerdict /\ badge = NoVerdict

(* classify_status *)
Status(code, body) ==
  CASE code < 300 -> "healthy"
    [] code = 429 \/ code >= 500 -> "degraded"
    [] code \in {401, 403} \/ (body.auth /\ code \in 300..499 \ {429}) -> "unauthorized"
    [] code = 404 /\ ~body.auth -> "unreachable"
    [] OTHER -> "unknown"

(* _out_of_credit: an answer that says when to come back has cut nobody off. *)
OutOfCreditByWords(code, body) == code < 500 /\ (code = 402 \/ body.billing)
OutOfCredit(code, body) == code < 500 /\ ~body.retry /\ (code = 402 \/ body.billing)

(* classify_request_error *)
RequestVerdict(code, body) ==
  CASE code = -1 -> [terminal |-> TRUE, status |-> "unauthorized"]
    [] code = 0 -> [terminal |-> FALSE, status |-> "unreachable"]
    [] code > 0 /\ OutOfCredit(code, body) -> [terminal |-> TRUE, status |-> "degraded"]
    [] OTHER -> [terminal |-> Status(code, body) = "unauthorized" \/ code = 404,
                 status |-> Status(code, body)]

(* probe_provider: a cloud kind with no key is not asked at all. *)
ProbeStatus(code, body) ==
  CASE trouble = "no_key" \/ code = -1 -> "unauthorized"
    [] code = 0 -> "unreachable"
    [] OTHER -> Status(code, body)

Requests ==
  /\ trouble # "ok"
  /\ \E w \in Wordings[trouble] :
       LET v == RequestVerdict(w[1], w[2]) IN
       verdict' = [of |-> trouble, terminal |-> v.terminal, status |-> v.status]
  /\ UNCHANGED <<trouble, badge>>

(* A probe sends no clip and names no model. *)
Probes ==
  /\ trouble \notin {"bad_clip", "no_model"}
  /\ \E w \in Wordings[trouble] :
       badge' = [of |-> trouble, terminal |-> FALSE, status |-> ProbeStatus(w[1], w[2])]
  /\ UNCHANGED <<trouble, verdict>>

GoesWrong == trouble = "ok" /\ trouble' \in Troubles /\ UNCHANGED <<verdict, badge>>
PassesByItself == trouble \in Troubles \ Lasting /\ trouble' = "ok" /\ UNCHANGED <<verdict, badge>>
PutRight == trouble \in Lasting /\ trouble' = "ok" /\ UNCHANGED <<verdict, badge>>

GradingNext == Requests \/ Probes \/ GoesWrong \/ PassesByItself \/ PutRight
=============================================================================
