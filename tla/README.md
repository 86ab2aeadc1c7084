# Loreline in TLA+

A verification development for Loreline, the self-hosted recorder and
transcriber of table sessions in `src/`: TLA+ modules translated from its
source, TLC configurations that check them on small instances, and proofs
checked by TLAPS for every value of the constants.

## The system

One asyncio process (FastAPI, `src/src/loreline`) records one session at a time,
transcribes it live, stores transcript and audio, and runs jobs over stored
recordings afterwards. Everything in it shares one event loop, one SQLite
connection and one audio directory; CPU-bound and disk work goes to threads.
Two small services stand beside it (`src/services`): the diarizer, which holds
speaker models in a child process, and the updater of a Docker deployment.

| component | state | operations | what it must get right |
|---|---|---|---|
| session manager (`session/manager.py`) | `_lock`, `_runtime` (the slot), `_live_view_session_id`; per session a capture, a live and a persist task | `start`, `stop`, `_end_unattended`, `_finish` | one recorder; one owner of each teardown; a dead capture ends its session; an ended session is settled, indexed, and marked with how it ended |
| capture loop (`session/manager.py`) | the utterance queue, statistics | `_capture_utterances`, `_close_capture`, `_offer`, `_dequeue` | never blocks; audio and index first, transcriber second; its consumers are always closed |
| audio processing (`audio/`) | device queue, framer, detector window, pre-roll | block, frame, window, `feed`, `flush`, `mark_utterance` | speech is cut into utterances once, whole, and the index finds them |
| utterance router (`stt/router.py`) | retired providers, failure streak, dropped count | `run`, `_transcribe_with_failover` | tries every viable provider; one alert per outage; stops only when nothing is left |
| stream path (`session/streaming.py`, `stt/streaming.py`) | providers left, pending gap, open turns, reconnect budget, labelling tasks | `run`, `feed`, `stop`, `hand_off`, turn signals, `_label` | every opened turn is settled; lost audio is marked; a stop is never a failover; a label is of its own voice |
| connectors (`stt/backends/`) | a socket, what a refusal taught, the turn a vendor is in | `open_stream`, `close_stream`, `signals`, `transcribe_one` | what the vendor settled is what is written, once; one socket; an answer is of its own utterance; no paid job is left |
| grading (`health.py`) | — | `classify_request_error`, `classify_status`, `probe_provider` | a provider is left for good exactly when its trouble will not pass |
| buses (`bus.py`, `logbus.py`) and panes (`web/routes/*_ws.py`) | subscriber queues, the ring | `publish`, `subscribe`, `aclose`, replay | reliable subscribers lose nothing, bounded ones the oldest; no line twice |
| repositories (`persistence/repositories.py`) | tables | insert, upsert, delete, startup sweeps | one row per turn; no row left running by a dead process |
| audio store, recovery, import, merge (`persistence/audio_store.py`, `session/recovery.py`, `session/importing.py`, `web/routes/sessions.py`) | WAV and index files | writer, `delete`, `merge`, `rebuild_index`, the boot sweep, the adoption of an upload | the index points at what is in the recording; a refusal leaves nothing; the live recording is left alone |
| browser microphone (`audio/client_source.py`) | one socket token, the open source, reconnect window | `connect`, `disconnect`, `feed`, `open`, `frames` | only the socket that holds the token feeds the session; the timeline has no hole and no overlap |
| re-processing jobs (`reprocess/jobs.py`) | job rows, run tasks, cancel flags | `enqueue`, `cancel`, `delete_version`, `_run`, `reconcile` | a job row tells what its run did; a copy is whole or absent |
| video jobs (`video/jobs.py`) | job rows, tasks, files | `enqueue`, `delete`, `_run`, `reconcile` | no file without a row, no paid generation unrecorded |
| campaigns (`web/routes/campaigns.py`, `glossary.py`) | campaigns, assignments, glossaries, generated texts | create, rename, delete, assign, generate | names are unique; a text has a subject; bias words by priority |
| login and first run (`web/auth.py`, `web/setup.py`) | the password, the code, the signing key, the attempt table | claim, login, boot | an instance is claimed by who knows the code and entered by who knows the password; a restart agrees |
| self-update (`updater/`, `services/updater`) | one lock | press, pull, answer, apply | one update at a time, through its recreate |
| diarization service (`services/diarization`) | model process, pipe, slot, readiness, a bank of voices per session | `diarize`, `probe`, delete, close | callers get their own answers; a voice stays its speaker's |
| catalogue, export, search, alerts, settings, migrations, frontend | tables, rows, formatting | — | not concurrent state; see *Not modelled* |

How they interact: an HTTP handler calls the manager, which awaits its lock;
the manager creates tasks and talks to them through the utterance queue (with a
sentinel), the session bus (with a sentinel), the frame source's stop flag, task
cancellation and a done callback; the live task asks connectors, which hold the
sockets; the repositories and the audio store are what survives a crash;
`current_session_id()` and `live_view_session_id()` are what routes and
dashboard sockets read without the lock.

The hard behaviours are therefore: requests queued on the lock while a teardown
that holds it waits for three tasks; a task that dies and ends its session by
itself, racing a Stop; cancellation by the drain timeout arriving anywhere;
full queues; every step of a teardown failing; a process killed between two
writes; a guard that reads the slot while a teardown is under way; vendors that
answer late, twice, or announce their own end; worker threads that outlive the
request that started them. `PROJECT.json` lists them with their lines.

## Modules

| module | what it is |
|---|---|
| `Session` | the session manager with its request handlers, its lock, the capture, live and persist tasks, the teardown, the delete route, process death and the boot sweep |
| `Recorder` | the abstract specification: a session records, is ended, and has finished ending before the next one begins |
| `SessionProps`, `MCSession` | its properties, inductive invariant and refinement mapping to `Recorder`; the instance TLC checks |
| `SessionProofs` | theorems and proofs: who owns a session, and the refinement of `Recorder`; what is left of a session |
| `Reprocess` | the manager of re-processing jobs: enqueue, the two kinds of run, cancel, delete of a version, shutdown, process death, reconcile, and a store in which a cancelled write may stay uncommitted |
| `ReprocessProps`, `MCReprocess`, `JobProofs` | its properties, instance, theorems and proofs |
| `StreamPath` | the streaming live path: providers in turn, one connection after the other, the frame queue, the turns of a connection, the gap that outlives them |
| `SttRouter` | the utterance router: failover, retirement, the failing streak and its alert |
| `LivePath` | the live task of a streaming session: composes the two with the utterance queue, the hand-over and the end of the capture |
| `LiveProps`, `LiveProofs` | their properties, theorems and proofs |
| `TurnBook` | the books `TranscriptStream` keeps of one connection's turns, named by the vendor or not, applied signal by signal |
| `Deepgram`, `AssemblyAI`, `GeminiLive`, `Xai`, `OpenAIRealtime` | the five streaming vendors, each with the part of its connector that reads it, over `TurnBook` |
| `BookProofs`, `TurnProofs` | lemmas: what a signal does to the books, as sets of rows and turns, and the induction along an interval that the folds need; the invariant of each vendor's connection and of its calls |
| `StreamHandshake` | opening and closing a connector's socket, refusals and what they teach, cancellation at every await |
| `UtteranceCalls`, `BatchCalls` | one utterance over a socket, or over HTTP |
| `Connectors`, `ConnectorProps` | the eight above as one specification; what they owe a session |
| `Recordings` | import, sweep, deletion and merge over one audio directory, beside a live recording, with worker threads |
| `VideoJobs` | video generation, its vendors, deletion, restart |
| `ClientMic` | sockets, token, source, the poll that ends its window, silence |
| `Updates` | the Update button: press, lock, the two stages, answer, apply |
| `Diarizer`, `SpeakerBank` | the diarization service as processes; the voices of a session |
| `Access` | claim, login, cookie, backoff, restarts |
| `Grading` | how an answer is graded for a run and for a badge |
| `Labels` | who said it: finals, revised finals, the labels of vendors and of the diarizer, late or never, the window of held audio, the handover |
| `Feeds` | the dashboard's panes and the ring of the log |
| `Chunker`, `SpeechProofs` | blocks, frames, windows, utterances, their place in the WAV; what each step keeps of it, with lemmas about the parts of a recording |
| `Campaigns` | campaigns, the sessions that are put or come into them, their words and the texts written about them |
| `Services`, `ServiceProps`, `ServiceProofs`, `SocketProofs` | all of the parts around a session as one specification; their properties, theorems and proofs |

### How `Session` corresponds to the code

A step is what runs between two awaits that another task can tell apart.

* **Processes.** `at[p]` says where a request handler (`p \in Clients`) or an
  unattended end (`p = s`, the session) is; `lockq` is `_lock`, a FIFO
  `asyncio.Lock`: its head holds the lock, the rest wait in order.
* **start** is `StartRefused`, `StartPreflight`, `StartFails`, `StartNamed`,
  `StartCreates`/`StartCreateFails`, `StartLaunches`. Everything after the
  insert of the row runs without an await, so `StartLaunches` is one step.
* **capture task** `cap`: `opening`, `recording`, `mark` (inside
  `mark_utterance`), `done`. `LeaveLoop` is the `finally` that flushes the
  chunker, indexes and dispatches a last utterance, and sends the sentinel;
  `capEnd` remembers why the loop ended.
* **live task** `live`: `pull`/`call` is the router, `stream` the streaming
  path, `discard` is `_stt_exhausted`'s drain, `join` the `await capture_task`
  of the `finally`, `done` the finished task. `LiveFinished` is its done
  callback.
* **persist task** `persist`: `pull` waits on the bus, `publish` is the await
  between the stored row and the application bus. A failed task unsubscribes.
* **teardown**: `drain`, `persist`, `interims`, `close`, `finish`, `return`,
  run by whoever emptied the slot (`Take`), with the lock held.
* **DrainTimeout** cancels the live task where it stands: at the provider, in
  the stream (whose turn is settled or not), or joined on the capture, which
  passes the cancellation on. The index write of a cancelled capture runs in a
  thread, so it may or may not complete.
* **disk**: `row`, `rows`, `files`, `index` survive `Crash`; the rest is lost.
  `BootMarks` and `BootSweeps` are the two halves of `mark_interrupted`.
* **delete** (`RequestDelete`, `DeleteFiles`, `DeleteRow`) takes no lock and
  reads only the slot, as the route does.

Abstractions in `Session`: an utterance or turn is a number; audio frames are not counted, an
index is the set of utterances it lists; one growing interim stands for all
revisions of a turn; levels, statistics, disk-space warnings, alerts, logs and
labels are left out. Failures are enabled by membership in `Faults`, so that
each run says which ones it admits. Transcript inserts, interim deletions and
the status update are single committed statements in the code and single steps
here.

### How `Reprocess` corresponds to the code

* **Requests.** `at[c]` is where a handler waits: `probe` and `commit` in
  `enqueue` (before the insert, and between the insert and the creation of the
  task), `cancel` in `cancel` (for the row), `segs`, `copy`, `rows` in
  `delete_version`. Its checks are made at the first of these, as in the code.
* **A run.** `task[j].pc` is the await `_run` is at: `start` and `early` are the
  first status write, `prepare` everything up to the first utterance or the
  answer of the diarizer, `drive`, `tick`, `drain` the loop of `_drive`, its
  count write and its `finally`, `read`, `wipe`, `copy`, `unwind` the steps of
  `_diarize_session`, `shielded` and `final` the two ways a row is finalised.
  `status` and `count` are the job object, which is not the row; `asked` and
  `stopped` are `_CancelRequest`.
* **The router task** (`Hears`, `FeedEnds`, `FeedExhausted`) runs beside the
  loop and talks to it through the job's bus: `pend` are the published events,
  `closed` the sentinel and whether the router raised.
* **Cancellation.** A transcription is asked: `FeedEnds` sees the flag. A
  diarization, and every task at a shutdown, is cut: `Cut` says for each await
  what a `CancelledError` does there, which `except` and `finally` it passes,
  and what becomes of the write it interrupts. An aiosqlite statement that was
  handed to its thread runs, its commit may not be asked for: `db` is what the
  connection sees, `disk` what was committed, and `Torn` lets them differ until
  any later commit.
* **Process death** rolls back to `disk`; `Reconciles` is `mark_interrupted`.

Abstractions in `Reprocess`: the events of a version are the set of utterances they came from;
an original transcript exists and is finished; provider, glossary, speakers and
log lines are left out; a read whose answer nothing can change is part of the
step that uses it. `FaultKinds` names the failures: a refused probe, a failing
provider or diarizer, an insert of a segment that raises. Updates of the job row
do not fail.

### How `StreamPath`, `SttRouter` and `LivePath` correspond to the code

* **run()** of the path and of the stream it drives are one task, and `pc` is
  where that task is: `pick` between two providers, `open` in `open_stream`,
  `recv` and `send` in the send loop, `finish` in the bounded wait for the last
  finals, `teardown`, `sleep` in the backoff, `retire` and `alert` in `_retire`,
  `gap` and `labels` in the `finally` of the path, `over`. `end` is the
  `PathEnd`, or how a cancellation left it.
* **Frames** are numbered by their timestamp; `STOP` is the sentinel. `Captures`
  is `StreamPath.frame` with `feed`, drop-oldest and `_stalled` included, and
  `CaptureDone` is `done` with `stop`. A frame is captured only after a thread
  hop, so a send loop that waits for one has taken it before the queue is full.
* **Turns.** The reader task is `TurnStarts`, `TurnGrows`, `TurnCloses` and
  `VendorCloses`; `turns` is `_turns` with `_order`, `closed` is `_closed`. A row
  is identified by provider, connection and turn, as `_turn_id` does, and
  `interim` and `final` are the rows as the upsert leaves them.
* **Gap.** `gap` is the start of the pending gap, wherever it is kept: in the
  stream, or in the path between two streams.
* **Cancellation** (`Cancelled`, `RouterCut`) is the stop's drain timeout. In a
  connection it passes through `_teardown`, which settles; one that arrives
  inside `close_stream` skips the settling, and `end = "torn"` records it.
* **The router** is `step`: `pull`, `ask`, `alert`, `publish`; `asking` is the
  list `_viable()` returned for this utterance, which a retirement in the middle
  of it does not shorten.

Abstractions: a provider streams, answers call by call, does both or does not
exist (`shape`); the vendor names its turns and speaks only of audio it has been
sent; text, offsets beyond a turn's start, stated ends, the diarizer and levels
are left out; a label replaces its own row by the same text and is not a step;
an utterance is numbered by the frame that completes it. `_MAX_CLOSED_REFS` and
`_MAX_PENDING_ENDS` are never reached.

### How the connectors' modules correspond to the code

A connector is a reader of one vendor's messages, and `stt/streaming.py` applies
what it yields to one book. Each of the five modules has both sides: the vendor
(`svc`, external: what it hears, what it has shown, what it has settled, and its
documented liberties: a turn sent again, a late end, a text before or after its
neighbour's) and the connector (`conn`: what `signals()` and its turn state do with
each frame). `said` is what the vendor settled, `book` what the transcript has:
`SaidIsWritten` compares them.

* **TurnBook** is `_apply`, `_open`, `_settle`, `_settle_open`, `_publish_interim`:
  open turns in order, settled ones, rows. `ref` 0 is a vendor that names no turns.
* **StreamHandshake** is `open_stream`, `close_stream` and `close_socket`: every
  await may be cancelled, every setup may be refused over a parameter (dropped and
  remembered), over something needed, or over the model.
* **UtteranceCalls**: one `transcribe_one` at a time; the router may give it up at
  any frame. OpenAI's calls share one socket, so what was left unread is there
  for the next: `CallsKept` says what holds there of calls the router waited for, and
  `OwnWords`, of all calls, is what `call_stale` refutes.
* **BatchCalls**: an upload, a job and its polls (AssemblyAI), a request with a
  fallback parameter (OpenAI-compatible), one POST; cancelled at any await.

Texts are sequences of tokens, word times are counts; resampling, keyword lists
and JSON are left out.

### How the other parts correspond

* **Recordings.** `wav`, `side`, `rows` are the disk; an import, a sweep, a merge
  and an erasure each keep their own `at`. A decoder or indexer thread that was
  started finishes (`DecoderWrites`, `IndexerWrites`, `SweepWrites`) whatever
  became of the request. A recording is a sequence of parts, each an utterance.
* **VideoJobs.** `remote` is the vendor's generation, paid for at `Submits`;
  `Restarts` is process death and `reconcile`. A shutdown cuts like a crash.
* **ClientMic.** Time passes in frames: `feed` is the socket's handler in a frame
  that comes, `Stalls` a frame of time in which none does. `frames` is the capture
  loop, and `Polls` its wait on an empty queue that timed out, the only place that
  looks at the reconnect window: a browser may be back between the end of the window
  and the next poll, and is then padded with the window and not with its gap.
  Silence is made up for the time without a browser only; an attached browser that
  sends nothing for a while leaves nothing in the recording. `KeepsUp` is the one
  assumption about speed: the loop takes what is queued, and notices a wait that is
  over, before a frame more of time goes by, and a Start is over before the queue
  fills. A gap is a whole number of frames here; in the code a remainder of less than
  a frame may be lost or added.
* **Updates.** `box` is registry, main and what is installed; the lock is held
  from the press to the end of the recreate, across the answer.
* **Diarizer.** A call's `pc` is the await or lock a request thread is at;
  `locks` are slot, pipe and readiness lock; `child` is the model process with its
  two pipe ends. **SpeakerBank** puts embeddings on a line: people far apart,
  a reliable embedding within `Spread` of its speaker, a fragment anywhere.
* **Access.** `disk` is the settings table, `live` what the process has loaded;
  each of a claim's three writes may be the last; `Boots` reads them again.
* **Grading.** A trouble comes and goes outside; a request meets the vendor's
  status and wording of it. The troubles are those of a vendor; a wrong base URL of a
  self-hosted one, which lasts too (health.py:577), is left out, so "exactly when" in
  `GradedByCause` is said of the troubles listed.
* **Labels.** One second of audio is one voice and one word. `finals` are the
  publications of turns, `tasks` the labels asked for, the rolling window holds
  `Held` seconds; a restarted service starts numbering again and says so. A label
  names who gave it: the vendor's stream, one call of the utterance path, or the
  diarizer. The vendors that label words do so whatever the mode, so a turn goes
  out with them, keeps them where the diarizer heard nobody or does not answer, and
  lets them vote for its speaker; `mode` has such a vendor, one that labels none and
  one without words, each with a remote diarizer, and the inline mode. A vendor
  here tells voices apart as they are; two spellings of one label by two givers
  (Deepgram and the diarization service both say "Speaker 0") are kept apart.
* **Feeds.** One bounded subscriber and the ring; `due` is what was on show when
  written, `lost` what was pushed out. The log's socket subscribes (`Connects`) and
  then takes the ring (`TakesRing`): the event loop does nothing in between, but a
  worker thread may log a line there, which is then in both and is skipped by its
  number.
* **Chunker.** Audio is numbered units; blocks, frames and windows do not divide
  one another. `BreaksMidFrame` is a capture cut between write and feed.
* **Campaigns.** A request is its check, a wait and its write; two run side by
  side. Two sessions are there and a third comes: started with whatever campaign the
  request names, imported with one checked before the upload and decode, or merged
  with the one its older source had before the copy. A word is a word and its
  spelling.
* **Services** is the union of all of these with the connectors. They share no
  state in the code, and each behaviour is of one machine, named by the variable
  `machine`, with the others' variables `Off`: one run then answers one question,
  what the parts around a session promise each on its own, without the product of
  independent state spaces.

## Runs

| run | instance | shows |
|---|---|---|
| `session_one` | 2 clients, 1 session, both live paths, 2 utterances, 1 turn, 1 crash, queue of 1, nine of the eleven failures (not `interims` and `finish`) | `TypeOK`, `LiveViewFollows`, `EndedIsSettled`, `RecordingKept`, `NoZombieRow`, `HonestEnding` |
| `session_two` | 2 clients, 2 sessions, router, `config`, `device`, `drain`, `crash` | `OneRecorder`, `OneOwner`, `OwnershipInv`, and `ImplementsRecorder`, the refinement |
| `session_live` | 2 clients, 1 session, both paths, fairness, no crash, the interim cleanup may fail | `NobodyWaitsForEver`, `DeadSessionEnds` |
| `session_restart` | 2 clients, 1 session, delete, a teardown whose last write may fail, 1 crash | `BootHeals`, `DeletedIsFinal` |
| `rp_transcribe` | 2 clients, 1 job of either kind over 2 utterances, cancelled and deleted, every failure, 1 shutdown or crash | `RunningHasRun`, `JobTellsTruth`, `DeletedStaysGone` |
| `rp_live` | 2 clients, 1 job of either kind, cancelled at any await, 1 shutdown, fairness | `WholeCopyOrNone`, `JobsEnd` |
| `live_path` | a streaming primary of either shape and a fallback of each kind, 3 frames through a queue of 2, 2 turns in a book of 1, one failure per provider and one fresh budget, every connection and request failure, cancellation, fairness | `EveryTurnSettles`, `SettledStays`, `LostIsMarked`, `MarkersDisjoint`, `LostOnlyAfterAll`, `OneAlertPerOutage`, `StopEndsPath` |
| `services` | every machine of `Services` with the bounds below | `SaidIsWritten`, `ConnectionsKept`, `CallsKept`, `LibraryTellsOneStory`, `VideoBooks`, `TimelineKept`, `OneUpdate`, `SpeakersKeptApart`, `DoorHolds`, `GradedByCause`, `LabelsTellTruth`, `PaneTellsStory`, `SpeechIsWhole`, `CampaignBooks` |
| `session_erase`, `call_stale`, `label_stale`, `campaign_gone` | expected violations, see below | |

`CHECK_DEADLOCK FALSE` in every run but `live_path`: with the session bound used up
and every client idle, or with nobody pressing anything, the system really stops.
The live path may only stop where it is over, and its run checks that.

**Why the bounds are enough.** One utterance fills the queue of one, so the
second meets the drop-oldest branch and the sentinel can evict an utterance; the
flush of a last utterance after the loop has ended is a third case that two
utterances cover. Two sessions and two clients give every order of Start, Stop,
second Stop and unattended end around a lock whose queue holds up to three
processes. One turn is open, settled or left an interim, which is all the
session can tell of turns; a second crash matters only between the halves of a
boot sweep.

A job writes only its own version and its own row, so one job shows what a run
can do to itself. Two utterances are one before and one after whatever happens: a
cancel, a retired provider, a failing insert, an interrupted copy. A row's job
is cancelled by at most two requests at a time, which covers a cancellation
that arrives while an earlier one is unwound or shielded.

On the streaming path three frames are the first of a connection, one that is
lost and one that comes after; a queue of two overflows while the third is
captured and is cut to one by a reconnect. Two providers with one reconnect each
(a healthy connection earns it) are every place a gap can be handed on. A book
of one turn evicts the first when a second opens. A streak of two and three
utterances reach the alert and one drop beyond it.

The bounds of `services`, machine by machine:
| machine | bound | so that |
|---|---|---|
| five vendors | `MaxSegs` 3, `MaxTurns` 3, `MaxWords` 4, `MaxDeltas` 2 | a turn before, in, and after whatever comes late, twice or out of order |
| handshake | `MaxSockets` 6 | three refusals, each followed by another attempt, and a reconnect after them |
| calls | `MaxUtts` 2, `MaxTurns` 3 | an utterance given up and the one that follows it on the socket |
| batch | `MaxPosts` 2, `JobTimeout` 6 | a post with and without what the first one learnt; polls up to the ceiling and over it |
| library | four sessions | one imported, captured, live and merged, each with another in the middle of its work |
| video | `MaxVideos` 2, `MaxPolls` 1 | one job deleted, with its session or alone, beside one that stays |
| microphone | `Window` 2, `PollEvery` 2, `QueueMax` 3, `Fresh` 1, `MaxClock` 7 | a loss, a return inside the window, one between its end and the poll, and a loss that outlasts both; a queue that overflows |
| update | two browsers, `MaxReleases` 2 | a press under another's apply, and a release between its two stages |
| diarizer | `MaxCalls` 3, `MaxDeaths` 1 | a holder of the slot, one waiting, a probe, and a child lost under any of them |
| bank | `People` {10, 20, 30}, `Spread` 1, `Fragments` {13}, `Threshold` 4, `FloorMargin` 1, `CentroidMemory` 2, `MaxBanks` 1, `MaxUtterances` 3 | a fragment that passes for a person or for nobody; a cap below the number of people; a bank that evicts |
| access | 2 browsers, 2 passwords, `MaxAttempts` 2, `MaxKeys` 1 | a stranger beside the owner; a password from the environment and a stored one that differ |
| labels | `Voices` {1, 2}, `Held` 2, `MaxSeconds` 3, `MaxFinals` 2, `MaxRestarts` 1 | a turn whose opening has left the window when it is asked about and keeps its vendor's labels there; two turns, each answered or not; a service that starts again |
| feeds | `RingMax` 2, `PaneMax` 2, `MaxLines` 4 | a line between subscription and snapshot, in both ring and queue; overflow of each, and a line after it |
| chunker | `Block` 3, `Frame` 2, `VadWindow` 3, `Silence` 2, `PreRoll` 2, `MaxUtterance` 8, `BlockQueue` 2, `MaxBlocks` 7 | blocks, frames and windows that do not divide one another; an utterance cut by the cap, one by silence, a lost block |
| campaigns | 2 sessions and one that comes, 3 campaigns, `MaxRequests` 3, two at a time | any two requests interleaved, and one that builds what they meet |

**Fairness.** `FairSpec` of `Session` asks weak fairness of what the event loop runs
when it is ready: request handlers past their arrival, teardown steps, the capture's
own steps, the live task (a provider call is bounded by the router's timeout and
a frame source polls its stop flag), the persist task, the unattended end and
the boot sweep. Nothing makes a client press a button, anyone speak, anything
fail, the drain time out or the process crash. The lock is a FIFO queue in the
code (`asyncio.Lock`), so it is one here and needs no strong fairness.
`Reprocess!Fairness` is the same: weak fairness of each request's and each run's
ready steps, of the router task, of the cancellations `aclose` has to issue, and
of the restart; a clean end of the recording is fair, a failure never.
`LivePath` asks weak fairness of its one task, whichever await it is at: a
connection attempt, a write, a request, an alert and a teardown come back (each
has a timeout of its own or of its client). The capture, the vendor's signals and
the cancellation are not fair, so `StopEndsPath` does not rest on the drain
timeout. `Services` states safety only and no fairness.

**Disagreements with what the code says of itself** (each a run TLC refutes):

1. `session_erase`: deleting a session during its teardown leaves an index
   sidecar behind, written after the files were removed.
2. `call_stale`: a call the router's timeout cancels leaves its answer unread on
   the socket OpenAI's calls share, and the next utterance is given it.
3. `label_stale`: the label of a turn's first final, answered after its vendor has
   closed the turn again with better text, puts the first text back.
4. `campaign_gone`: a session is started into a campaign that was deleted; an import
   and a merge can end there too, when the deletion comes during their decode or copy.

**Further observations**, made while translating, with no run of their own. Around a
session: `current_session_id()` is empty through a teardown, so a merge is let
through while the WAV still grows (manager.py:486, web/routes/sessions.py:799); a
Stop names no session and one queued behind a Stop and a Start stops the new one
(web/routes/sessions.py:215); `delete_interims` failing while the status is written
leaves interims under a completed session (manager.py:1003), as does a second death
between the halves of `mark_interrupted` (repositories.py:272); a frame written but
not fed when a capture is cut makes the last utterance's offset one frame late
(`SpeechIsWhole` states it, audio_store.py:86); the sweep of missing sidecars,
running beside a deletion, may recreate one (recovery.py:68), and a cancelled import
leaves its worker writing; a merge whose duration cannot be read leaves a WAV
without a row. Jobs: two diarizations of one version both delete the old copy and
both insert theirs (jobs.py:864, 824); a version deleted while an enqueue awaits its
probe is relabelled anyway (jobs.py:370, 530), or diarized while its job still writes
(jobs.py:855); a cancel between the insert of a row and its task marks a row
cancelled that then runs (jobs.py:606); a death, or an insert that raises, in the
middle of a copy leaves part of it (jobs.py:631, 873); a video enqueued while its
session is deleted is an orphan (`NoOrphanVideo` excepts it, video/jobs.py:179).
Live path: a fallback that streams, but not this model, becomes both the primary and
the fallback of the router (session/streaming.py:388); a cancellation inside
`close_stream` leaves an interim (stt/streaming.py:731); frames dropped before the
first connection wrote anything are in no gap (stt/streaming.py:1043). Services: a
browser back between the end of the reconnect window and the poll that would have
ended the capture resumes it, padded with the window and not with its gap
(`TimelineKept` bounds what is missing, against client_source.py:26 and 314); a turn
whose diarizer was asked and did not answer stands with its vendor's labels, where
docs/adr/0006:241 and session/streaming.py:431 say that it stands unlabelled, and
Deepgram's "Speaker 0" is also a name of the diarizer's (session/streaming.py:461,
diarization/merge.py:72; `LabelsTellTruth` therefore speaks of one giver at a time); an
update whose apply failed is reported "up to date" by the next press
(services/updater/updater.py:175); an evicted or restarted bank starts its numbers
again, and only the restart is announced; a stopped diarizer child is replaced
without the callers knowing (services/diarization/app.py:1121). Campaigns: an
assignment that a deletion overtakes leaves a campaign id that names nothing, as do
the three ways of `campaign_gone` (`SubjectsLive` excepts these, and says that a
deletion itself leaves none, web/routes/sessions.py:538), and a word added to a
glossary while another request replaces it may be lost. Everything shares one
connection, so a commit of one request commits the half of another's transaction;
the `_safe` of the alerts that never raises lets `httpx.InvalidURL` through
(alerts.py:334).

## Proofs

`SessionProofs` proves, from `ConstantsAssumption` and `ProcessesAssumption`
only (so for any number of clients, sessions, utterances, turns and crashes, and
any queue bound above zero):

* `OwnershipInvariant`: `Spec => []OwnershipInv`;
* `TypeCorrect`, `OneRecorderAlways`, `OneOwnerAlways`, `LiveViewFollowsAlways`:
  `TypeOK`, `OneRecorder`, `OneOwner`, `LiveViewFollows` from it.

The argument. `OneRecorder` is not inductive: nothing in it keeps a Start from
launching while a teardown drains. `OwnershipInv` adds why that cannot happen:
whoever is inside `start` or a teardown is at the head of the lock queue and has
an empty slot in front of it (`LockedAlone`); a session with a running task, and
only it, is owned, by the slot or by the teardown that took it out of the slot
(`TasksOwned`), and the live view follows its owner (`OwnersShow`); a teardown
past its drain has no capture or live task left, past the persist step no
persist task (`Joined`), because the live task joins its capture. With at most
one process inside, at most one session is owned, and the rest follows. The
proof is organised by what a step may touch: request steps (`OutsideSteps`,
`LaunchStep`, `TakeStep`, `EndingStep`), task steps that leave slot, lock and
live view alone (`TaskSteps`), and the three that are neither
(`DrainTimeoutStep`, `LiveFinishedStep`, `BootStep`).

`SessionProofs` also proves, from the same assumptions and nothing else,

* `RecorderImplemented`: `Spec => ImplementsRecorder`: each session maps to a phase
  (`PhaseOf`: unborn, recording, ending, ended) and each step of `Session` to a step
  of `Recorder` or to a stutter.

`RecorderInv` adds to `OwnershipInv` that a name in a slot, a start or a teardown was
given out (`NamesGiven`), which is what makes the four phases exclude each other
(`PhaseRight`). Seven kinds of step move a phase or a name (`Turning`, refined one by
one in `TurningRefines`); every other one leaves both alone (`StepSorted`).

It also proves what is left of a session:

* `EndingsAreHonest` and `DeletedStaysDeleted`, with no hypothesis: `HonestEnding`,
  `DeletedIsFinal`;
* `NoZombieRows`, if the write that finishes a row does not fail
  (`"finish" \notin Faults`; a failed one leaves the row to the next boot):
  `NoZombieRow`;
* `RecordingsAreKept`, if nobody deletes (`"delete" \notin Requests`; a delete removes
  the files on purpose, and one that meets a start the file it has just opened):
  `RecordingKept`;
* `EndedSettles` and `BootsHeal`, if the deletion of interims does not fail and at most
  one death happens (`"interims" \notin Faults`, `MaxCrashes <= 1`; a boot killed
  between its committed status update and its sweep leaves interims no later boot looks
  for): `EndedIsSettled`, `BootHeals`.

They share `StoryInv`: nothing moves while the process is not serving (`Quiet`), a row
is inserted once, by the start that named it, and says ended only when its teardown has
nothing left to do (`RowsInOrder`), and a live task ends as its capture did
(`EndsKnown`). Each theorem adds its own invariant: a capturing row has an owner
(`CapturingOwned`); what left the capture loop is indexed, and a named session heard
nothing (`IndexKept`); nothing follows the sentinel on a session's bus, which is sent
once the live task is over and to a persist task that exists (`BusBooks`); interims go
before the writer closes (`LinesGone`), and a sweep finds every row marked
(`RowsMarked`).

`JobProofs` proves, from `ConstantsAssumption`, for any number of clients,
jobs, utterances and crashes and every request and failure:

* `RunningRowsHaveRuns`: `Spec => []RunningHasRun`, of both kinds of job and
  wherever a request or a shutdown cuts one.

The argument. That a row in progress has a run is lost only by a run that ends
with a row it did not settle, so `RunInv` carries backwards, from the last write,
what is needed there (`VerdictReady`): whoever is about to write its last row
holds a verdict, whoever drains a failed drive holds an error, and nobody
unwinds while the process is up. A request cuts a diarization only inside its `try`,
because the statements of all tasks run one after the other on the database's
thread and the run's first write is queued before the `cancel` reads the row; so the
handlers write a last row whatever is cut. A cut before that is a shutdown's, when
the claim is suspended; and since nothing runs and nobody asks while it is
down (`Quiet`), the rows `Reconciles` fails are the last word on the runs that
were cut. The proof has a lemma per group of run steps (`EndingStep`,
`DrivingStep`, `CopyingStep`, `RouterStep`, `CutStep`), of requests
(`EnqueueStep`, `CancelStep`, `DeleteStep`) and for the process
(`LifecycleStep`).

It proves further, for any number of clients, jobs, utterances and crashes and any
failures, when nobody diarizes and no cancel meets a row before its task
(`"diarize" \notin Ops`, `"adopt" \notin Requests`):

* `JobsTellTruth`: `Spec => []JobTellsTruth`;
* `DeletedVersionsStayGone`: `Spec => []DeletedStaysGone`.

The argument. A process that dies goes on from what it committed, so `JobsInv` says
what holds of a job three times: of its task (`TaskGood`), of its row as the connection
reads it and of its row as it is committed (`Has`, twice). A task counts what it stored
until a shutdown cuts it: the events on its bus are in order and newer than what is
stored (`InOrder`), so each one stored is one row more. It is done only with the
recording handed over and its bus empty. A row is done or deleted only after its run's
end (`RowGood`), which is why a delete, which is refused while the row is in progress,
never meets a run that still writes (`NobodyErases`); and the verdicts of the runs that
broke off are right as long as the process has not gone down (`UpGood`). A step of a run
changes its own job only (`RunKeeps`); a request changes at most one
(`AskKeeps`, `EnqueueKeeps`, `DeleteKeeps`).

About the copies of a diarization it proves, for any number of clients, jobs
and utterances and any failures, shutdowns and cancellations, in a process that is not
killed (`"crash" \notin Requests`: a death between two rows leaves half a copy, and
nothing repairs it):

* `CopiesStayWhole`: `Spec /\ []OneWriter => []WholeCopyOrNone`, where `OneWriter` says
  that while a diarization runs nobody else diarizes, re-transcribes or deletes its
  version. The code does not see to that (`enqueue` asks whether the version has rows, not
  whether somebody else is at work on it), so it is a hypothesis and not an invariant;
* `SoleCopyStaysWhole`: with one job (`MaxJobs = 1`) it holds by itself, and
  `Spec => []WholeCopyOrNone`: what `rp_live` checks, for any number of clients and any
  length of the recording.

The argument. No row status is looked at: `CopyInv` says what the rows of a version are
when its run is at each line (`RunGood`). The segments a diarization was handed are those
of its version and stay so, because who writes or erases a version is another run or a
delete, which `OneWriter` excludes; the copy holds what was inserted so far and nothing
when a cut has rolled it back; and the database's committed side is never ahead of what
the connection reads, which is what a rollback falls back on.

`LiveProofs` proves, from `StreamAssumption` and `RouterAssumption`, for any faults,
frames, turns, attempts, queue bound, streak bound and utterances:

* of the stream, `EveryTurnAlwaysSettles`, `SettledAlwaysStays`, `MarkersAlwaysDisjoint`
  and `LossesAreMarked`: `EveryTurnSettles`, `SettledStays`, `MarkersDisjoint`,
  `LostIsMarked`;
* of the router, `OneAlertAlways` and `LostAlwaysAfterAll`: `OneAlertPerOutage`,
  `LostOnlyAfterAll`.

The argument for the stream is one invariant, `StreamInv`, because its parts lean on one
another. The half-typed rows are those of the turns in the book that were shown, and a
settled row is of a provider that was tried, of a connection it had, and on the present
one of a turn that is closed, so nothing a vendor may still say reopens it (`RowInv`). The
queue holds the frames captured last, in a row, and everything that was sent is older
(`QueueInv`); so a marker, which ends where a frame was sent, ends before the gap that is
open and before the connection's first frame (`MarkInv`), and the next one begins after
it. And a frame that is lost is at every moment in a marker, behind the start of the open
gap, in the queue, or behind a write that waits and will find the overflow when it is
over (`LossInv`): when the books close only the first is left.

For the router, alerts balance recoveries only as long as `degraded` remembers exactly a
streak that reached the bound; `AlertInv` says so for every step but the two that end the
run (a run that gives up is degraded without a streak). And `RouterInv` follows everybody
of the pair: still to be asked for the utterance in hand, asked, or retired by an earlier
one, which a retirement stays because utterances are taken in the order they were
captured.

`ServiceProofs` and `SocketProofs` prove ten properties of the sum of the parts, from
`WindowAssumption`, `DoorAssumption`, `PaneAssumption`, `HeardAssumption`,
`CeilingAssumption` and `FramesAssumption` (the queue of
a browser's microphone holds the longest gap a reconnect may leave but not two of them; no
password is called "none"; a pane has room for a line; a connection has a number of
turns, and a job a ceiling; and the sizes audio is cut by fit together, see below), for any number of releases,
browsers, passwords, frames, jobs, polls, connects, turns, lines and blocks, and any length
of the log's ring and of a pane's queue:

* `OneUpdateAlways`, `DoorAlwaysHolds`, `TimelineAlwaysKept`, `VideoBooksAgree`,
  `AlwaysGradedByCause`, `PanesTellStory`: `OneUpdate`, `DoorHolds`, `TimelineKept`,
  `VideoBooks`, `GradedByCause`, `PaneTellsStory`;
* `SaidAlwaysWritten`: `SaidIsWritten`, every turn a vendor ended is one row with its
  words, on all five vendors;
* `SpeechAlwaysWhole`: `SpeechIsWhole`, no voiced audio is lost, repeated, reordered or
  misplaced between the device and the index;
* `CallsAlwaysKept`: `CallsKept`, a call of one utterance answers with all that was
  settled and nothing of another, and leaves no job at the vendor;
* `ConnectionsAlwaysKept`: `ConnectionsKept`, of which `InterimsAlwaysOwned`,
  `OpeningsKeepBooks` and `ReadersLeaveBetweenTurns` are the three parts.

The argument. A behaviour of `Services` runs one machine, which no step changes
(`MachineStays`), so each theorem is one inductive invariant of one part: a recreate is
reached only by the press that holds the lock; a cookie was made for the password that
was proved, and no guess goes uncounted; the frames taken and queued
add up to those sent and the time without a browser, less than a poll short for each
return that came late, because the next poll ends what outlasts the window; a row goes only after its task and its file, and who
erases knows of the run or finds it listed as late. A verdict is right because every
wording of a trouble is read as that trouble, refusals that name a parameter and 429s
that name an empty account among them (`VerdictsByCause`, `BadgesByCause`). And a pane's
story is an order (`FeedGood`): what was sent is older than what is still to be replayed,
that is no newer than the last line of the ring that was taken, and what waits in the
queue is newer than all that was sent, unless the ring had it: such a line, which two
sources hold, is skipped by its number and nothing else is. Of a connector's sockets, those open and not being closed are the one
in hand or the one stored, never both (`HandshakeGood`), and a second attempt is one that
has learnt something; and a reader is owed a text, or has a turn open, exactly when its
vendor is in the middle of one (`LeavingInv`).

What was said is written because three states say the same thing: the vendor's, which knows
its turn and its words; the connector's, which knows what it accumulated and which ids it
met; and the books of `TranscriptStream`. Each vendor has an invariant (`OpenAIKnows`,
`AssemblyAIKnows`, `GeminiKnows`, `DeepgramKnows`, `XaiKnows`) that ties the three: the
settled rows are the turns that ended, each once with its words, and the open ones are what
the vendor is in the middle of. It is kept because each signal does to the books what
`BookProofs` says: an interim opens or grows one turn, a final settles one and strands
none, a close settles what is open (`SettledBook`). A message of several signals and a
close are folds over data; they are written as recursive functions on an interval and
proved by an induction made for the purpose (`Least`, `Climb`, `Recursion`): of the lengths
for which a claim fails there would be a least one, by the well-foundedness of strict
inclusion on finite sets. (The library's induction theorems take the claim as an operator,
which the provers cannot instantiate; these take it as the set of lengths where it holds.)
`TurnsInv` is the five together, in the sum.

A call of one utterance is kept the same way (`CallKept`, one record for the five socket
vendors): Deepgram and xAI have joined what was settled in the order it was (`InOrder`),
AssemblyAI has the last message of each turn, and Gemini has every turn that ended and the
interim of the one it shows (`NoneLost`), so that the flush of an ended call leaves nothing
out. On OpenAI's kept socket just the utterance being read is due (`OneDue`), which is false
once the router gave a call up there, and `call_stale` shows what follows. That two
utterances share no word is what `Start` is chosen for. Of the jobs over HTTP, one whose id is
known is being polled, answered or being deleted (`JobKept`).

Speech is whole because everything the loop keeps is a part of the recording
(`SpeechProofs`, whose steps `SameSteps` shows to be those of the sum). A recording is what
the device delivered less what its queue lost, so it only rises (`Streamed`); the entries of
the index are slices of it, each over before the next begins (`Listed`); the utterance that
grows is its ending (`Ending`), or else the pre-roll is, frame by frame (`Rolled`). The one
thing that could fall between is a window of the detector, which does not line up with
frames: `Whole` says that the window begun reaches back no further than that ending or
into entries already made, so a verdict that comes late still finds its audio in one of them.
For the pre-roll to reach that far, `FramesFit` asks that it hold a window and, but for a
unit, a frame besides: with a window of 5, frames of 3 and two of them in the pre-roll, a verdict can be
about a unit the pre-roll has just let go. The code's sizes satisfy it amply (frames of 320
samples, windows of 512, ten frames of pre-roll, and a cap of 1500 frames, which is why an
utterance never exceeds it). Once the loop has ended, `Accounted` is what stays, with the
last entry late by the frame a cut left unfed.

Only model-checked:

* everything that needs fairness (`NobodyWaitsForEver`, `DeadSessionEnds`, `JobsEnd`,
  `StopEndsPath`): the prover handles neither liveness nor `ENABLED`;
* `CampaignBooks` and `LabelsTellTruth`: what a campaign's texts or the window of held
  audio add up to. The induction of `BookProofs` would
  serve; the invariants are not written yet;
* `SpeakersKeptApart`, whose voices are running averages of what was heard, matched
  greedily by functions that recurse over a call's clusters;
* `LibraryTellsOneStory`: `Recordings` has no constants, so its run is not an instance of
  it but the whole of it, and TLC's answer is already that of a proof.

No module declares a RECURSIVE operator.

## Plan

Done: `Session` and `Recorder` (every safety property and the refinement proved),
`Reprocess` (every safety property proved, each under the hypotheses above), the live path
(every safety property proved), and the parts around a session (ten properties proved).
Left, in this order:

1. Proofs: `CampaignBooks`, `LabelsTellTruth`, and `SpeakersKeptApart` for
   its bounded clusters.
2. An abstract live path (every frame is heard, marked or evicted) that
   `StreamPath` implements.
3. `Recordings` composed with the slot of `Session`: a merge or a sweep beside a
   teardown that still holds the recording.
4. Fairness for `VideoJobs`, `Diarizer` and `ClientMic`, and the liveness it gives.
5. The source deployment of the updater, with its rollback.

## Not modelled

* **Alerts** (`alerts.py`): when an outage alerts is `SttRouter`'s; what is left is a
  best-effort HTTP fan-out over a stored list.
* **Capability catalogue, staleness, export, search, settings and provider routes**:
  tables, comparisons, formatting and single-row reads and writes, without state two
  actors could disagree about.
* **Connection and migrations** (`persistence/database.py`): schema, pragmas, and
  scripts run once before anything else; the foreign keys they state are used where
  a write depends on them.
* **Frontend**: user interface.
* **Within the modelled parts**: device probing, gain, the resampling filter, level
  and disk watches, prompts and wording, request bodies, the speaker models
  themselves, token signing and hashing, clock offsets of a connection, the source
  deployment's command sequence. `PROJECT.json` gives each component's limits.
