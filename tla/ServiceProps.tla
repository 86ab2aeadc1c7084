----------------------------- MODULE ServiceProps -----------------------------
(***************************************************************************)
(* What the parts around a session promise: a library whose files and rows *)
(* tell one story, nothing paid for or stored that no row knows of, a      *)
(* microphone's timeline, one update at a time, a diarization that keeps   *)
(* people apart, a door, and verdicts on the right cause.                  *)
(***************************************************************************)
EXTENDS Services, ConnectorProps

-----------------------------------------------------------------------------
(* An entry of a session's index is an utterance where its WAV has it. *)
InRecording(s, e) ==
  /\ e.at % RL!PartLength = 0
  /\ e.at \div RL!PartLength < Len(wav[s])
  /\ wav[s][(e.at \div RL!PartLength) + 1] = e.of

(* A refused import leaves no file behind, in the scratch directory or the
   library (import_recording). *)
RefusalLeavesNothing ==
  imp.reply = "refused" => tmp = {} /\ "import" \notin rows /\ wav["import"] = <<>>

(* The sweep of the recovery, which rebuilds the sidecars that are missing,
   never writes the one of the session that is recording (recovery.py). *)
LiveIsLeftAlone == recording => side["live"].by \in {"none", "writer"}

(* The entries of an index sidecar point into the recording, at the utterance
   they name, and a merge moves text and audio alike (AudioStore.merge). *)
IndexTellsTruth ==
  /\ \A s \in RL!Sessions : RL!Stored(s) => \A e \in side[s].entries : InRecording(s, e)
  /\ RL!Stored("merged") => \A e \in merge.text : InRecording("merged", e)

(* A merge whose copy fails leaves neither recording nor sidecar. *)
MergeWholeOrNone ==
  merge.at = "failed" => ~RL!Stored("merged") /\ side["merged"] = RL!NoSidecar

(* Rows, recordings and sidecars of the library tell one story, whatever of
   import, sweep, deletion and merge is interrupted or runs together. *)
LibraryTellsOneStory ==
  machine = "library" =>
    RefusalLeavesNothing /\ LiveIsLeftAlone /\ IndexTellsTruth /\ MergeWholeOrNone

-----------------------------------------------------------------------------
(* A stored video is one a row names: a generation stopped by a deletion does
   not finish by writing one.  A job enqueued while its session is being
   deleted is the exception (VideoManager.delete, _erase_session). *)
NoOrphanVideo == \A j \in vfiles : vjobs[j] # VJ!NoRow \/ j \in verase.late

(* A video row in progress has a task behind it, or is about to go. *)
RunningIsGenerating ==
  \A j \in VJ!Videos :
    vjobs[j].status \in {"queued", "running"} =>
      vtasks[j] # "none" \/ vops[j] = "row" \/ (verase.at = "row" /\ verase.job = j)

(* What was polled was recorded first, so that whatever kills the process the
   row names the generation that was paid for, and it is the one asked for. *)
PaidAsAsked ==
  \A j \in VJ!Videos :
    /\ remote[j].polls > 0 /\ vjobs[j] # VJ!NoRow => vjobs[j].remote
    /\ remote[j].asked

(* Rows, files, tasks and paid generations of video jobs agree. *)
VideoBooks == machine = "video" => NoOrphanVideo /\ RunningIsGenerating /\ PaidAsAsked

-----------------------------------------------------------------------------
(* While a browser captures, the recording holds what its browsers sent, once,
   and silence as long as the time it had none: never more, and less by under a
   poll for each return that came after the window, since the end of the window
   is noticed by polls only.  By then, at the latest, a capture nobody feeds is
   over (ClientCaptureSource.frames, rewire). *)
TimelineKept ==
  machine = "mic" /\ cap.at = "capturing" =>
    LET due == cap.sent + cap.away IN
    /\ cap.taken + cap.queued <= due
    /\ due <= cap.taken + cap.queued + cap.late * (PollEvery - 1)
    /\ cap.lost # CM!Never => clock - cap.lost < Window + PollEvery

-----------------------------------------------------------------------------
(* One update at a time, and none while a recreate is under way: a press is
   served only by whoever holds the lock, and the lock outlives the answer
   until the recreate has ended (do_POST, _apply_and_release). *)
OneUpdate ==
  machine = "update" => \A b \in UP!Pressers : presses[b].at # "idle" => lock = b /\ ~applying

-----------------------------------------------------------------------------
(* Nobody is handed another caller's answer (WorkerProcess._call). *)
OwnAnswer == \A c \in DI!Calls : calls[c].got \in {DI!Nobody, c}

(* A session's voices are folded in the order the clips were inferred, which
   is what the slot is held for (diarize). *)
BankInOrder ==
  \A i, j \in DOMAIN bank : i < j =>
    \E k, l \in DOMAIN world.order :
      k < l /\ world.order[k] = bank[i] /\ world.order[l] = bank[j]

(* While a clip runs every probe is answered from memory, unless a child was
   lost or is being closed (Readiness). *)
ProbesPassRuns ==
  world.deaths = 0 /\ ~world.closed =>
    \A c, d \in DI!Calls : ~((DI!At(c, "ask") \/ DI!At(c, "asked")) /\ DI!At(d, "ran"))

(* A remembered voice stays the voice of who opened it: no fragment, and no
   speaker a full bank had no room for, moves it (SpeakerBank.resolve). *)
PureVoices ==
  \A s \in Tables : \A v \in DOMAIN banks[s] :
    banks[s][v].of \in People /\ SB!Near(banks[s][v].at, banks[s][v].of) <= Spread

(* Whoever is heard reliably gets a label, below the cap never another's, and
   two people of one call share one only when there is just one to give. *)
NoStolenName ==
  /\ \A i \in DOMAIN heard.last.ids :
       heard.last.clusters[i].reliable =>
         /\ heard.last.ids[i] > 0
         /\ bounds.cap = 0 =>
              heard.last.voices[heard.last.ids[i]].of = heard.last.clusters[i].who
  /\ \A i, j \in DOMAIN heard.last.ids :
       i < j /\ heard.last.ids[i] = heard.last.ids[j] /\ heard.last.ids[i] # 0 =>
         Len(heard.last.voices) = 1

(* The diarization service keeps callers apart, and people. *)
SpeakersKeptApart ==
  /\ machine = "diarizer" => OwnAnswer /\ BankInOrder /\ ProbesPassRuns
  /\ machine = "bank" => PureVoices /\ NoStolenName

-----------------------------------------------------------------------------
(* A password in force is one a restart finds again, an unclaimed instance
   can be claimed, whoever is let in knew the password in force, and guesses
   at the code and at the password come out of one budget. *)
DoorHolds ==
  machine = "access" =>
    /\ live.up /\ live.password # AC!None => live.password \in {live.env, disk.password}
    /\ live.up /\ AC!SetupRequired(live.password) => disk.code
    /\ reply.entered => reply.knew
    /\ \A b \in Browsers : tries[b].made <= MaxAttempts

(* A run leaves a provider for good exactly when what is wrong will not pass
   by itself, and a badge says unauthorized of every key it should and
   healthy of no other (classify_request_error, classify_status). *)
GradedByCause ==
  machine = "grading" =>
    /\ verdict.terminal <=> verdict.of \in GR!Lasting
    /\ badge.of \in GR!OfTheKey => badge.status = "unauthorized"
    /\ badge.status = "healthy" <=> badge.of = "ok"

-----------------------------------------------------------------------------
(* What a row says of who spoke, where it says so of one voice: each word it
   labels, and the turn where all of its audio that whoever named it heard is
   one voice. *)
Told(r) ==
  LET since == IF r.speaker[1] = LB!Bank THEN r.heard ELSE r.from
      voices == {desk.room[i] : i \in since..desk.finals[r.final].to} IN
  {<<r.who[i], desk.room[r.from + i - 1]>> : i \in {j \in DOMAIN r.who : r.who[j] # LB!Nobody}}
  \cup {<<r.speaker, v>> : v \in IF r.speaker = LB!Nobody \/ Cardinality(voices) # 1 THEN {} ELSE voices}

Published == {desk.rows[t] : t \in {u \in DOMAIN desk.rows : desk.rows[u].final # 0}}
Claims == UNION {Told(r) : r \in Published}

(* Across a session's turns, late answers, timeouts, a window that has moved
   on and a handoff to the utterance path: of the labels one giver gives - the
   diarizer, the vendor's stream, a call - each is one voice and each voice one
   label, unless the diarizer restarted, and then its client has said so; what
   the diarizer was heard on of a row carries no other's label, and a row it has
   not answered for none of its; no label is still being asked for once the path
   has ended (_publish, _label, _drain_labelling, merge_diarization). *)
LabelsTellTruth ==
  machine = "labels" =>
    /\ LET claims == Claims IN
       \A a, b \in claims : a[1][1] = b[1][1] =>
         \/ a[1] = b[1] <=> a[2] = b[2]
         \/ a[1][1] = LB!Bank /\ desk.warned
    /\ \A r \in Published : \A i \in DOMAIN r.who :
         r.who[i][1] = LB!Bank <=> r.heard # 0 /\ r.from + i - 1 >= r.heard
    /\ desk.warned => desk.gen > 1
    /\ desk.path \notin {"streams", "drains"} => desk.tasks = {}

(* A turn shows its newest text: "the same turn is published again with its
   speakers ... so the second publication replaces the first rather than
   following it" (session/streaming.py). *)
NewestTextStays ==
  machine = "labels" =>
    \A n \in DOMAIN desk.finals : desk.rows[desk.finals[n].turn].final >= n

(* A pane is given its lines once, in order, the one that is in both the ring and
   its queue included: whatever was on show when it was written, after the ring
   was taken, has been sent, waits, or was pushed out by something newer, so a
   slow pane still ends with the last line; and what the ring held when it
   was taken, of a view that has stayed, has been replayed (EventBus,
   LogBroadcaster, logs_ws, transcript_ws). *)
PaneTellsStory ==
  machine = "feeds" =>
    /\ \A i, j \in DOMAIN feed.sent : i < j => feed.sent[i].seq < feed.sent[j].seq
    /\ \A line \in feed.due :
         feed.last < line.seq => line \in ToSet(feed.sent) \cup ToSet(feed.queue) \cup feed.lost
    /\ \A line \in feed.lost : \A i \in DOMAIN feed.queue : line.seq < feed.queue[i].seq
    /\ feed.at = "streams" /\ feed.still =>
         \A i \in DOMAIN feed.ring :
           feed.ring[i].seq <= feed.last /\ FE!Keeps(feed, feed.ring[i]) =>
             feed.ring[i] \in ToSet(feed.sent)

Ordered(s) == \A i, j \in DOMAIN s : i < j => s[i] < s[j]

Uttered == FlattenSeq([i \in DOMAIN take.index |-> take.index[i].pcm]) \o take.voiced

(* Whatever blocks the device loses and wherever the capture is cut, audio
   judged to be speech is in exactly one utterance, whole windows of it, the
   detector's lag included; no utterance is longer than the cap; and the
   index finds each in the recording, late by the one frame that was written
   and never fed when the loop was cut there (VadChunker, SileroVad,
   SoundDeviceSource, mark_utterance). *)
SpeechIsWhole ==
  machine = "chunker" =>
    /\ Ordered(take.wav) /\ Ordered(Uttered)
    /\ take.spoken \subseteq ToSet(Uttered)
    /\ \A i \in DOMAIN take.index :
         LET e == take.index[i] IN
         /\ Len(e.pcm) <= MaxUtterance
         /\ SubSeq(take.wav, e.offset + 1 - e.late, e.offset - e.late + Len(e.pcm)) = e.pcm
         /\ e.late > 0 => i = Len(take.index) /\ take.at = "closed"

(* The terms sent to a provider are each word once, in the spelling and at
   the rank of the narrowest list that has it (get_effective). *)
Sources(c) == books.camp[c].cast \o books.gloss[c] \o books.gloss[0]

FirstAt(s, w) == CHOOSE i \in DOMAIN s : s[i][1] = w /\ \A j \in 1..(i - 1) : s[j][1] # w

BiasedByPriority ==
  \A c \in CA!Ids :
    LET all == Sources(c)  got == CA!Effective(books, c) IN
    /\ ToSet(got) = {all[FirstAt(all, all[i][1])] : i \in DOMAIN all}
    /\ \A i, j \in DOMAIN got : i < j => FirstAt(all, got[i][1]) < FirstAt(all, got[j][1])

(* A merged name is one entry, of every session it came up in, with the note
   of the newest of them that has one (_merge_extractions). *)
Noted(s, w) ==
  {e \in ToSet(books.names[s].names) : e.name[1] = w /\ e.note # 0}

After(t, s) ==
  \E i, j \in DOMAIN books.played : i < j /\ books.played[i] = s /\ books.played[j] = t

NewestNoteWins ==
  \A c \in CA!Living :
    LET of == {s \in books.alive : books.of[s] = c}  got == CA!Merged(books, c) IN
    \A i \in DOMAIN got :
      LET w == got[i].name[1] IN
      /\ \A j \in DOMAIN got : got[j].name[1] = w => j = i
      /\ ToSet(got[i].in) = {s \in of : \E e \in ToSet(books.names[s].names) : e.name[1] = w}
      /\ \A s \in of : Noted(s, w) # {} =>
           (\E e \in Noted(s, w) : got[i].note = e.note) \/ \E t \in of : After(t, s) /\ Noted(t, w) # {}

(* Names are unique, texts have a subject, and no deletion leaves a session in
   the campaign it deletes: one that names a campaign that is gone was given it
   after the deletion had looked - by an assignment, an import or a merge it
   overtook, or by a start that named it. *)
SubjectsLive ==
  /\ \A c, d \in CA!Living : c # d => books.camp[c].name # books.camp[d].name
  /\ \A s \in CA!Sessions \ books.alive : books.recap[s] = CA!NoText /\ books.names[s] = CA!NoText
  /\ books.summed \subseteq books.alive
  /\ \A c \in CA!Ids \ CA!Living : books.story[c] = CA!NoText
  /\ \A s \in books.alive : books.of[s] \in CA!Living \cup {0} \/ s \in books.stray

(* Violated: a session names no campaign that cannot be resolved, "the
   unresolvable string docs/adr/0009 exists to end" (web/routes/sessions.py). *)
CampaignsResolve ==
  machine = "campaigns" => \A s \in books.alive : books.of[s] \in CA!Living \cup {0}

(* What a campaign keeps holds together, whatever of creating, renaming,
   deleting, assigning, adding words and waiting for a model runs side by
   side (CampaignRepository, DocumentRepository, GlossaryRepository). *)
CampaignBooks == machine = "campaigns" => BiasedByPriority /\ NewestNoteWins /\ SubjectsLive
=============================================================================
