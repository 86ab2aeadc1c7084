------------------------------- MODULE Chunker -------------------------------
(***************************************************************************)
(* From the microphone to the utterances of the index: the device's blocks *)
(* cut into frames (audio/capture.py, resample.py), the detector that      *)
(* judges whole windows of them (audio/vad.py), the chunker that groups    *)
(* voiced frames (audio/chunker.py), and the capture loop that writes each *)
(* frame before it feeds it (_capture_utterances, _close_capture).  Audio  *)
(* is a sequence of numbered units.  Frame, Block, VadWindow, MaxUtterance *)
(* are in units, Silence and PreRoll in frames; MaxBlocks bounds what the  *)
(* device delivers and BlockQueue is its queue.                            *)
(***************************************************************************)
EXTENDS Integers, Sequences, FiniteSets, SequencesExt

CONSTANTS Block, Frame, VadWindow, Silence, PreRoll, MaxUtterance, BlockQueue, MaxBlocks

VARIABLE take

(* A window is at least a frame, the pre-roll reaches back over a window that a
   frame has just completed, and frames fill the cap, which is more than the
   pre-roll. *)
FramesFit ==
  /\ {Block, Frame, VadWindow, PreRoll, MaxUtterance, BlockQueue} \subseteq Nat \ {0}
  /\ VadWindow >= Frame /\ PreRoll * Frame >= VadWindow + Frame - 1
  /\ MaxUtterance > PreRoll * Frame
  /\ \E frames \in 1..MaxUtterance : MaxUtterance = frames * Frame

ChunkerInit ==
  take = [blocks |-> <<>>, next |-> 1, pending |-> <<>>, wav |-> <<>>,
          window |-> <<>>, says |-> FALSE,              \* the detector
          roll |-> <<>>, voiced |-> <<>>, quiet |-> 0,  \* the chunker
          index |-> <<>>, spoken |-> {}, at |-> "runs"]

(* The device's callback: a full queue loses its oldest block. *)
Delivers ==
  /\ take.at = "runs" /\ take.next <= MaxBlocks * Block
  /\ LET block == [i \in 1..Block |-> take.next + i - 1]
         kept == IF Len(take.blocks) >= BlockQueue THEN Tail(take.blocks) ELSE take.blocks IN
     take' = [take EXCEPT !.next = @ + Block, !.blocks = Append(kept, block)]

(* Blocks and frames do not line up; the resampler may hold a tail back, and
   what it gives is cut anew. *)
TakesBlock ==
  /\ take.at = "runs" /\ Len(take.pending) < Frame /\ take.blocks # <<>>
  /\ take' = [take EXCEPT !.pending = @ \o Head(take.blocks), !.blocks = Tail(@)]

(* A window's verdict stands until the next window is full. *)
Judges(c, frame, verdict) ==
  LET heard == c.window \o frame IN
  IF Len(heard) < VadWindow THEN [c EXCEPT !.window = heard]
  ELSE [c EXCEPT !.window = SubSeq(heard, VadWindow + 1, Len(heard)), !.says = verdict,
                 !.spoken = IF verdict THEN @ \cup ToSet(SubSeq(heard, 1, VadWindow)) ELSE @]

(* mark_utterance: the most recent units written are the utterance.  Where a
   frame was written that the chunker never saw, they are that much late. *)
Marks(c, late) ==
  [c EXCEPT !.index = Append(@, [pcm |-> c.voiced, offset |-> Len(c.wav) - Len(c.voiced),
                                 late |-> late])]

FlushedKeepsRoll(c) == [Marks(c, 0) EXCEPT !.voiced = <<>>, !.quiet = 0]

Flushed(c) == [Marks(c, 0) EXCEPT !.voiced = <<>>, !.quiet = 0, !.roll = <<>>]

Newest(frames) ==
  IF Len(frames) > PreRoll THEN SubSeq(frames, Len(frames) - PreRoll + 1, Len(frames)) ELSE frames

(* Outside speech a frame waits in the pre-roll, which opens the utterance. *)
Waits(c, frame) ==
  LET roll == Newest(Append(c.roll, frame)) IN
  [c EXCEPT !.roll = roll, !.quiet = IF c.says THEN 0 ELSE @,
            !.voiced = IF c.says THEN FlattenSeq(roll) ELSE @]

(* Inside it, silence or the cap ends the utterance. *)
Extends(c, frame) ==
  LET d == [c EXCEPT !.voiced = @ \o frame, !.quiet = IF c.says THEN 0 ELSE @ + 1] IN
  IF d.quiet >= Silence \/ Len(d.voiced) >= MaxUtterance THEN Flushed(d) ELSE d

Feeds(c, frame) == IF c.voiced = <<>> THEN Waits(c, frame) ELSE Extends(c, frame)

Written(c) ==
  [c EXCEPT !.wav = @ \o SubSeq(c.pending, 1, Frame),
            !.pending = SubSeq(@, Frame + 1, Len(@))]

(* The loop's body: a frame is written, judged and fed. *)
TakesFrame ==
  /\ take.at = "runs" /\ Len(take.pending) >= Frame
  /\ \E verdict \in BOOLEAN :
       LET frame == SubSeq(take.pending, 1, Frame) IN
       take' = Feeds(Judges(Written(take), frame, verdict), frame)

Closed(c, late) ==
  [IF c.voiced = <<>> THEN c ELSE Marks(c, late) EXCEPT !.voiced = <<>>, !.at = "closed"]

(* The source ends, is stopped or raises; what is buffered is an utterance. *)
Stops == take.at = "runs" /\ take' = Closed(take, 0)

(* The loop is cut between the write of a frame and its feeding. *)
BreaksMidFrame ==
  /\ take.at = "runs" /\ Len(take.pending) >= Frame
  /\ take' = Closed(Written(take), Frame)

ChunkerNext == Delivers \/ TakesBlock \/ TakesFrame \/ Stops \/ BreaksMidFrame
=============================================================================
