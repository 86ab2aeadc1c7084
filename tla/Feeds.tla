-------------------------------- MODULE Feeds --------------------------------
(***************************************************************************)
(* The panes of the dashboard: a socket that replays the log's ring and    *)
(* streams what follows, and the two that stream the transcript, of the    *)
(* live session or of one that was asked for (bus.py, logbus.py,           *)
(* web/routes/logs_ws.py, transcript_ws.py, web/ws_util.py).  RingMax and  *)
(* PaneMax are the lengths of the ring and of a subscriber's queue;        *)
(* MaxLines bounds what is published.                                      *)
(***************************************************************************)
EXTENDS Integers, Sequences, FiniteSets, SequencesExt

CONSTANTS RingMax, PaneMax, MaxLines

VARIABLE feed

Logs == "logs"
LiveView == "live"
Asked == "asked"
Shows == {1, 2}    \* sessions; 0 is no session

(* What a pane has been given since it connected, and what the live view was
   meanwhile: the last three fields record, and no step reads them. *)
FeedInit ==
  feed \in [kind : {Logs, LiveView, Asked}, at : {"off"}, view : {0}, seq : {0},
            ring : {<<>>}, queue : {<<>>}, history : {<<>>}, last : {0}, sent : {<<>>},
            lost : {{}}, due : {{}}, still : {TRUE}]

(* A line of the live capture of the session on show (is_capture_line), or
   for a pane that asked for session 1, anything of it (_wanted). *)
Keeps(f, line) ==
  IF f.kind = Asked THEN line.of = 1
  ELSE f.view # 0 /\ line.of = f.view /\ ~line.job

QueuesNewest(f, line) ==
  IF Len(f.queue) >= PaneMax THEN [f EXCEPT !.lost = @ \cup {line}]
  ELSE [f EXCEPT !.queue = Append(@, line)]

(* A full queue loses its oldest line, never the one that arrives. *)
Queues(f, line) ==
  LET kept == IF Len(f.queue) >= PaneMax THEN Tail(f.queue) ELSE f.queue IN
  [f EXCEPT !.queue = Append(kept, line),
            !.lost = @ \cup (ToSet(f.queue) \ ToSet(kept))]

(* The filter runs where the line is published. *)
Offered(f, line) ==
  IF f.at = "off" \/ ~Keeps(f, line) THEN f
  ELSE [Queues(f, line) EXCEPT !.due = @ \cup {line}]

Ringed(f, line) ==
  LET longer == Append(f.ring, line) IN
  IF f.kind # Logs THEN f
  ELSE [f EXCEPT !.ring = IF Len(longer) > RingMax THEN Tail(longer) ELSE longer]

(* A line is written, by a capture or by a job that replays a session; it
   goes into the ring and to the subscriber. *)
Publishes ==
  /\ feed.seq < MaxLines
  /\ \E of \in Shows \cup {0}, job \in BOOLEAN :
       LET line == [seq |-> feed.seq + 1, of |-> of, job |-> job /\ of # 0] IN
       feed' = Offered(Ringed([feed EXCEPT !.seq = @ + 1], line), line)

(* A session takes the live view, or leaves it at the end of its teardown. *)
ViewChanges ==
  /\ feed.at # "joins"
  /\ \E view \in Shows \cup {0} :
    /\ view # feed.view /\ (view = 0 \/ feed.view = 0)
    /\ feed' = [feed EXCEPT !.view = view, !.still = FALSE]

(* The log's socket subscribes, and only then takes the ring.  The event loop
   does nothing in between, but a worker thread may write a line there, which is
   then in both. *)
Connects ==
  /\ feed.at = "off"
  /\ feed' = [feed EXCEPT !.at = IF feed.kind = Logs THEN "joins" ELSE "streams", !.still = TRUE]

TakesRing ==
  /\ feed.at = "joins"
  /\ feed' = [feed EXCEPT !.at = "replays", !.history = feed.ring,
                          !.last = IF feed.ring = <<>> THEN 0 ELSE Last(feed.ring).seq]

(* What was written before is judged by the view of now, line by line. *)
Replays ==
  /\ feed.at = "replays"
  /\ feed' = IF feed.history = <<>> THEN [feed EXCEPT !.at = "streams"]
             ELSE [feed EXCEPT !.history = Tail(@),
                    !.sent = IF Keeps(feed, Head(feed.history))
                             THEN Append(@, Head(feed.history)) ELSE @]

(* Mutant: what follows is sent, whatever the ring had. *)
StreamsTwice ==
  /\ feed.at = "streams" /\ feed.queue # <<>>
  /\ feed' = [feed EXCEPT !.queue = Tail(@), !.sent = Append(@, Head(feed.queue))]

(* What follows, but for what the ring already had. *)
Streams ==
  /\ feed.at = "streams" /\ feed.queue # <<>>
  /\ feed' = [feed EXCEPT !.queue = Tail(@),
                !.sent = IF feed.kind = Logs /\ Head(feed.queue).seq <= feed.last THEN @
                         ELSE Append(@, Head(feed.queue))]

(* The client leaves, or the server closes; a send may notice it first. *)
Disconnects ==
  /\ feed.at \in {"replays", "streams"}
  /\ feed' = [feed EXCEPT !.at = "off", !.queue = <<>>, !.history = <<>>, !.last = 0,
                          !.sent = <<>>, !.lost = {}, !.due = {}]

FeedNext == Publishes \/ ViewChanges \/ Connects \/ TakesRing \/ Replays \/ Streams \/ Disconnects
=============================================================================
