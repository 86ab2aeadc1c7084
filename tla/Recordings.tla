------------------------------ MODULE Recordings ------------------------------
(***************************************************************************)
(* What is stored under data/audio and who may touch it at the same time:  *)
(* an import (session/importing.py), the sweep that rebuilds a missing     *)
(* index (session/recovery.py), a deletion and a merge                     *)
(* (web/routes/sessions.py) and the writer of the running session.  Blocking *)
(* work runs in worker threads, which outlive the request that started it. *)
(***************************************************************************)
EXTENDS Integers, Sequences, FiniteSets

VARIABLES
  rows,      \* sessions that have a row
  wav,       \* session -> the parts its WAV is made of, <<>> when there is none
  side,      \* session -> its index sidecar: who wrote it, and its entries
  tmp,       \* what is in the import scratch directory
  recording, \* the live session is still captured
  imp,       \* the import request
  sweep,     \* the startup recovery
  erase,     \* the deletion
  merge      \* the merge

libraryVars == <<rows, wav, side, tmp, recording, imp, sweep, erase, merge>>

Sessions == {"import", "captured", "live", "merged"}

PartLength == 2     \* frames of a part: its one utterance, then silence

NoSidecar == [by |-> "none", entries |-> {}]

(* One entry per utterance: where it is, and (a ghost) whose words it holds. *)
Entry(at, part) == [at |-> at, of |-> part]

Entries(parts) == {Entry((k - 1) * PartLength, parts[k]) : k \in DOMAIN parts}

NoSweep == [at |-> "idle", queue |-> {}, of |-> "none", read |-> {}]

LibraryInit ==
  /\ rows = {"captured", "live"} /\ tmp = {} /\ recording = TRUE
  /\ wav = [s \in Sessions |-> IF s \in rows THEN <<s>> ELSE <<>>]
  /\ side = [s \in Sessions |-> NoSidecar]
  /\ imp = [at |-> "idle", reply |-> "none", worker |-> "none"]
  /\ sweep = NoSweep
  /\ erase = [at |-> "idle", of |-> "none"]
  /\ merge = [at |-> "idle", of |-> <<>>, spans |-> <<>>, offset |-> 0, text |-> {}]

Stored(s) == wav[s] # <<>>

exists(s) == Stored(s) /\ side[s] # NoSidecar

(* AudioStore.delete *)
Unlinked(s) == /\ wav' = [wav EXCEPT ![s] = <<>>] /\ side' = [side EXCEPT ![s] = NoSidecar]

-----------------------------------------------------------------------------
(* The capture: its index appears with the first utterance. *)

Captures ==
  /\ recording /\ side' = [side EXCEPT !["live"] = [by |-> "writer", entries |-> Entries(wav["live"])]]
  /\ recording' \in BOOLEAN
  /\ UNCHANGED <<rows, wav, tmp, imp, sweep, erase, merge>>

-----------------------------------------------------------------------------
(* The import. *)

Imports(pc) == imp' = [imp EXCEPT !.at = pc]

Refuse(reply) == imp' = [imp EXCEPT !.at = "idle", !.reply = reply]

ImportReceives ==
  /\ imp.at = "idle" /\ imp.reply = "none" /\ Imports("receive")
  /\ tmp' = tmp \cup {"upload"}
  /\ UNCHANGED <<rows, wav, side, recording, sweep, erase, merge>>

(* Past the limit while it is counted, or handed to a decoder: the WAV path's
   thread, or ffmpeg. *)
ImportDecodes ==
  /\ imp.at = "receive"
  /\ \/ tmp' = tmp \ {"upload"} /\ Refuse("refused")
     \/ imp' = [imp EXCEPT !.at = "decode", !.worker = "decode"] /\ UNCHANGED tmp
  /\ UNCHANGED <<rows, wav, side, recording, sweep, erase, merge>>

(* The worker writes its file, whoever still waits for it. *)
DecoderWrites ==
  /\ imp.worker = "decode" /\ imp' = [imp EXCEPT !.worker = "none"]
  /\ tmp' = tmp \cup {"decoded"}
  /\ UNCHANGED <<rows, wav, side, recording, sweep, erase, merge>>

(* decode_recording's except, import_recording's finally: unreadable, empty,
   too long, or ffmpeg killed at its timeout. *)
ImportDecoded ==
  /\ imp.at = "decode" /\ imp.worker = "none"
  /\ \/ Imports("move") /\ tmp' = tmp \ {"upload"}
     \/ Refuse("refused") /\ tmp' = tmp \ {"upload", "decoded"}
  /\ UNCHANGED <<rows, wav, side, recording, sweep, erase, merge>>

(* _move_into_place, then the index is begun in another worker. *)
ImportMoves ==
  /\ imp.at = "move" /\ imp' = [imp EXCEPT !.at = "index", !.worker = "index"]
  /\ tmp' = tmp \ {"decoded"} /\ wav' = [wav EXCEPT !["import"] = <<"import">>]
  /\ UNCHANGED <<rows, side, recording, sweep, erase, merge>>

IndexerWrites ==
  /\ imp.worker = "index" /\ imp' = [imp EXCEPT !.worker = "none"]
  /\ side' = [side EXCEPT !["import"] = [by |-> "import", entries |-> Entries(<<"import">>)]]
  /\ UNCHANGED <<rows, wav, tmp, recording, sweep, erase, merge>>

(* No speech detector: refused before anything is indexed. *)
ImportUnindexable ==
  /\ imp.at = "index" /\ imp.worker = "index"
  /\ imp' = [at |-> "idle", reply |-> "refused", worker |-> "none"]
  /\ Unlinked("import") /\ UNCHANGED <<rows, tmp, recording, sweep, erase, merge>>

ImportCreates ==
  /\ imp.at = "index" /\ imp.worker = "none"
  /\ Imports("enqueue") /\ rows' = rows \cup {"import"}
  /\ UNCHANGED <<wav, side, tmp, recording, sweep, erase, merge>>

(* _transcribe_the_import: queued (or not asked for), or undone. *)
ImportEnqueues ==
  /\ imp.at = "enqueue" /\ (Refuse("created") \/ Imports("undo audio"))
  /\ UNCHANGED <<rows, wav, side, tmp, recording, sweep, erase, merge>>

ImportUndoes ==
  \/ /\ imp.at = "undo audio" /\ Imports("undo row") /\ Unlinked("import")
     /\ UNCHANGED <<rows, tmp, recording, sweep, erase, merge>>
  \/ /\ imp.at = "undo row" /\ Refuse("refused") /\ rows' = rows \ {"import"}
     /\ UNCHANGED <<wav, side, tmp, recording, sweep, erase, merge>>

(* Cancelled at an await: everything named is removed, and the worker, which
   nobody can stop, goes on. *)
ImportCancelled ==
  /\ imp.at \in {"receive", "decode", "index"}
  /\ imp' = [imp EXCEPT !.at = "idle", !.reply = "cancelled"]
  /\ tmp' = {} /\ Unlinked("import")
  /\ UNCHANGED <<rows, recording, sweep, erase, merge>>

-----------------------------------------------------------------------------
(* recover_orphaned_indexes. *)

SweepLists ==
  /\ sweep.at = "idle"
  /\ sweep' = [sweep EXCEPT !.at = "next",
                            !.queue = {s \in Sessions : Stored(s) /\ side[s] = NoSidecar}]
  /\ UNCHANGED <<rows, wav, side, tmp, recording, imp, erase, merge>>

SweepsOn == [NoSweep EXCEPT !.at = "next", !.queue = sweep.queue]

Skips(s) == s \notin rows \/ (s = "live" /\ recording)

(* The row is read and the running session looked up; then a worker opens the
   file, which raises when it has gone meanwhile. *)
SweepTakes(s) ==
  /\ sweep.at = "next" /\ s \in sweep.queue
  /\ sweep' = IF Skips(s) THEN [sweep EXCEPT !.queue = @ \ {s}]
              ELSE [sweep EXCEPT !.at = "open", !.of = s, !.queue = @ \ {s}]
  /\ UNCHANGED <<rows, wav, side, tmp, recording, imp, erase, merge>>

SweepOpens ==
  /\ sweep.at = "open"
  /\ sweep' = IF Stored(sweep.of)
              THEN [sweep EXCEPT !.at = "rebuild", !.read = Entries(wav[sweep.of])]
              ELSE SweepsOn
  /\ UNCHANGED <<rows, wav, side, tmp, recording, imp, erase, merge>>

SweepWrites ==
  /\ sweep.at = "rebuild" /\ sweep' = SweepsOn
  /\ side' = [side EXCEPT ![sweep.of] = [by |-> "sweep", entries |-> sweep.read]]
  /\ UNCHANGED <<rows, wav, tmp, recording, imp, erase, merge>>

(* Shutdown cuts it short: nothing is written, the next start tries again. *)
SweepEnds ==
  /\ sweep.at \in {"next", "rebuild"} /\ sweep.at = "next" => sweep.queue = {}
  /\ sweep' = [NoSweep EXCEPT !.at = "done"]
  /\ UNCHANGED <<rows, wav, side, tmp, recording, imp, erase, merge>>

-----------------------------------------------------------------------------
(* delete_sessions, _erase_session. *)

Active(s) == s = "live" /\ recording

EraseTranscripts(s) ==
  /\ erase.at = "idle" /\ s \in rows \ {"merged"} /\ ~Active(s)
  /\ erase' = [at |-> "audio", of |-> s]
  /\ UNCHANGED <<rows, wav, side, tmp, recording, imp, sweep, merge>>

EraseAudio ==
  /\ erase.at = "audio" /\ erase' = [erase EXCEPT !.at = "row"] /\ Unlinked(erase.of)
  /\ UNCHANGED <<rows, tmp, recording, imp, sweep, merge>>

EraseRow ==
  /\ erase.at = "row" /\ erase' = [at |-> "idle", of |-> "none"] /\ rows' = rows \ {erase.of}
  /\ UNCHANGED <<wav, side, tmp, recording, imp, sweep, merge>>

-----------------------------------------------------------------------------
(* merge_sessions, AudioStore.merge. *)

Merges(pc) == merge' = [merge EXCEPT !.at = pc]

(* The parts in the order they were played; the imported one is the oldest. *)
Started == [import |-> 1, captured |-> 2, live |-> 3, merged |-> 4]

MergeStarts ==
  /\ merge.at = "idle"
  /\ \E first, second \in rows \ {"merged"} :
       /\ Started[first] < Started[second] /\ ~Active(first) /\ ~Active(second)
       /\ merge' = [merge EXCEPT !.at = "probe", !.of = <<first, second>>]
  /\ UNCHANGED <<rows, wav, side, tmp, recording, imp, sweep, erase>>

(* Transcripts only when a part has no audio, or the sample rates differ. *)
MergeProbes ==
  /\ merge.at = "probe"
  /\ \/ (\A k \in {1, 2} : exists(merge.of[k])) /\ Merges("copy")
     \/ merge' = [merge EXCEPT !.at = "create", !.spans = <<1, 1>>]
  /\ UNCHANGED <<rows, wav, side, tmp, recording, imp, sweep, erase>>

CopyFailed == Unlinked("merged")

(* Part after part, each opened as its turn comes; a part that has gone undoes
   the copy and fails the request. *)
MergeCopies ==
  /\ merge.at = "copy"
  /\ LET part == merge.of[Len(wav["merged"]) + 1] IN
     IF exists(part)
     THEN /\ wav' = [wav EXCEPT !["merged"] = Append(@, part)]
          /\ Merges(IF Len(wav["merged"]) = 1 THEN "index" ELSE "copy") /\ UNCHANGED side
     ELSE CopyFailed /\ Merges("failed")
  /\ UNCHANGED <<rows, tmp, recording, imp, sweep, erase>>

MergedEntriesUnshifted == {Entry(0, merge.of[k]) : k \in {1, 2}}

MergedEntries == {Entry((k - 1) * PartLength, merge.of[k]) : k \in {1, 2}}

MergeIndexes ==
  /\ merge.at = "index" /\ Merges("measure")
  /\ side' = [side EXCEPT !["merged"] = [by |-> "merge", entries |-> MergedEntries]]
  /\ UNCHANGED <<rows, wav, tmp, recording, imp, sweep, erase>>

Spans == <<PartLength, PartLength>>

(* duration_s of each part: outside the copy's own undo. *)
MergeMeasures ==
  /\ merge.at = "measure"
  /\ IF \A k \in {1, 2} : Stored(merge.of[k])
     THEN merge' = [merge EXCEPT !.at = "create", !.spans = Spans]
     ELSE Merges("stranded")
  /\ UNCHANGED <<rows, wav, side, tmp, recording, imp, sweep, erase>>

MergeCreates ==
  /\ merge.at = "create" /\ Merges("text") /\ rows' = rows \cup {"merged"}
  /\ UNCHANGED <<wav, side, tmp, recording, imp, sweep, erase>>

(* rebase_transcript by what the parts before it advanced the clock. *)
MergeAdds ==
  /\ merge.at = "text"
  /\ LET k == Cardinality(merge.text) + 1 IN
     merge' = [merge EXCEPT !.text = @ \cup {Entry(merge.offset, merge.of[k])},
                            !.offset = @ + merge.spans[k],
                            !.at = IF k = 2 THEN "done" ELSE @]
  /\ UNCHANGED <<rows, wav, side, tmp, recording, imp, sweep, erase>>

LibraryNext ==
  \/ Captures
  \/ ImportReceives \/ ImportDecodes \/ DecoderWrites \/ ImportDecoded \/ ImportMoves
  \/ IndexerWrites \/ ImportUnindexable \/ ImportCreates \/ ImportEnqueues \/ ImportUndoes
  \/ ImportCancelled
  \/ SweepLists \/ SweepOpens \/ SweepWrites \/ SweepEnds
  \/ \E s \in Sessions : SweepTakes(s) \/ EraseTranscripts(s)
  \/ EraseAudio \/ EraseRow
  \/ MergeStarts \/ MergeProbes \/ MergeCopies \/ MergeIndexes \/ MergeMeasures
  \/ MergeCreates \/ MergeAdds
=============================================================================
