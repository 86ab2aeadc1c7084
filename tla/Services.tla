------------------------------- MODULE Services -------------------------------
(***************************************************************************)
(* The parts around a session that share no state with one another: the    *)
(* connectors, the library of recordings, video generation, the browser's  *)
(* microphone, the diarization service, its speaker bank, the self-update, *)
(* the door of the instance, the grading of answers, the labels of a       *)
(* session's turns, the dashboard's feeds, the cutting of its audio, and   *)
(* campaigns.  A behaviour is of one of them; the variables of the others  *)
(* are Off.                                                                *)
(***************************************************************************)
EXTENDS Connectors

CONSTANTS
  MaxVideos, MaxPolls,                                     \* VideoJobs
  Window, PollEvery, QueueMax, Fresh, MaxClock,            \* ClientMic
  MaxReleases,                                             \* Updates
  MaxCalls, MaxDeaths,                                     \* Diarizer
  People, Spread, Fragments, Threshold, FloorMargin,       \* SpeakerBank
  CentroidMemory, Tables, MaxBanks, MaxUtterances,
  Browsers, Passwords, MaxAttempts, MaxKeys,               \* Access
  Voices, Held, MaxSeconds, MaxFinals, MaxRestarts,        \* Labels
  RingMax, PaneMax, MaxLines,                              \* Feeds
  Block, Frame, VadWindow, Silence, PreRoll,               \* Chunker
  MaxUtterance, BlockQueue, MaxBlocks,
  MaxRequests                                              \* Campaigns

(* The queue of a capture holds more than the reconnect window, not two. *)
ASSUME WindowAssumption ==
  /\ Window \in Nat /\ QueueMax \in Nat /\ PollEvery \in Nat \ {0}
  /\ QueueMax > Window /\ QueueMax < 2 * Window

(* A match allows for two observations of one speaker, and people are further
   apart than that. *)
ASSUME VoicesAssumption ==
  /\ 2 * Spread <= Threshold - FloorMargin
  /\ \A p, q \in People : p < q => q - p > Threshold + 2 * Spread

(* No password is the absence of one. *)
ASSUME DoorAssumption == MaxAttempts \in Nat /\ "none" \notin Passwords

(* A pane has room for a line. *)
ASSUME PaneAssumption == PaneMax \in Nat \ {0}

VARIABLES
  rows, wav, side, tmp, recording, imp, sweep, erase, merge,  \* Recordings
  vjobs, vfiles, vtasks, remote, vops, verase,                \* VideoJobs
  clock, socks, mic, cap,                                     \* ClientMic
  box, presses, lock, applying,                               \* Updates
  calls, child, readiness, locks, bank, world,                \* Diarizer
  banks, recent, idle, bounds, heard,                         \* SpeakerBank
  disk, live, browser, tries, reply,                          \* Access
  trouble, verdict, badge,                                    \* Grading
  desk, feed, take, books              \* Labels, Feeds, Chunker, Campaigns

RL == INSTANCE Recordings
VJ == INSTANCE VideoJobs
CM == INSTANCE ClientMic
UP == INSTANCE Updates
DI == INSTANCE Diarizer
SB == INSTANCE SpeakerBank
AC == INSTANCE Access
GR == INSTANCE Grading
LB == INSTANCE Labels
FE == INSTANCE Feeds
CH == INSTANCE Chunker
CA == INSTANCE Campaigns

(* The sizes audio is cut by fit together. *)
ASSUME FramesAssumption == CH!FramesFit

libraryVars == <<rows, wav, side, tmp, recording, imp, sweep, erase, merge>>
videoVars == <<vjobs, vfiles, vtasks, remote, vops, verase>>
micVars == <<clock, socks, mic, cap>>
updateVars == <<box, presses, lock, applying>>
diarizerVars == <<calls, child, readiness, locks, bank, world>>
bankVars == <<banks, recent, idle, bounds, heard>>
accessVars == <<disk, live, browser, tries, reply>>
gradingVars == <<trouble, verdict, badge>>
roomVars == <<desk, feed, take, books>>

vars == <<machine, connectorVars, libraryVars, videoVars, micVars, updateVars,
          diarizerVars, bankVars, accessVars, gradingVars, roomVars>>

LibraryOff == rows = Off /\ wav = Off /\ side = Off /\ tmp = Off /\ recording = Off /\ imp = Off
       /\ sweep = Off /\ erase = Off /\ merge = Off
VideoOff == vjobs = Off /\ vfiles = Off /\ vtasks = Off /\ remote = Off /\ vops = Off
       /\ verase = Off
MicOff == clock = Off /\ socks = Off /\ mic = Off /\ cap = Off
UpdateOff == box = Off /\ presses = Off /\ lock = Off /\ applying = Off
DiarizerOff == calls = Off /\ child = Off /\ readiness = Off /\ locks = Off /\ bank = Off
       /\ world = Off
BankOff == banks = Off /\ recent = Off /\ idle = Off /\ bounds = Off /\ heard = Off
AccessOff == disk = Off /\ live = Off /\ browser = Off /\ tries = Off /\ reply = Off
GradingOff == trouble = Off /\ verdict = Off /\ badge = Off
RoomOff == desk = Off /\ feed = Off /\ take = Off /\ books = Off
EarlierOff == ConnectorsOff /\ LibraryOff /\ VideoOff /\ MicOff /\ UpdateOff /\ DiarizerOff
       /\ BankOff /\ AccessOff /\ GradingOff

RoomInit ==
  \/ machine = "labels" /\ LB!DeskInit /\ feed = Off /\ take = Off /\ books = Off
  \/ machine = "feeds" /\ FE!FeedInit /\ desk = Off /\ take = Off /\ books = Off
  \/ machine = "chunker" /\ CH!ChunkerInit /\ desk = Off /\ feed = Off /\ books = Off
  \/ machine = "campaigns" /\ CA!CampaignsInit /\ desk = Off /\ feed = Off /\ take = Off

RoomNext ==
  \/ machine = "labels" /\ LB!DeskNext /\ UNCHANGED <<machine, feed, take, books>>
  \/ machine = "feeds" /\ FE!FeedNext /\ UNCHANGED <<machine, desk, take, books>>
  \/ machine = "chunker" /\ CH!ChunkerNext /\ UNCHANGED <<machine, desk, feed, books>>
  \/ machine = "campaigns" /\ CA!CampaignsNext /\ UNCHANGED <<machine, desk, feed, take>>

Init ==
  \/ ConnectorInit /\ LibraryOff /\ VideoOff /\ MicOff /\ UpdateOff /\ DiarizerOff /\ BankOff
         /\ AccessOff /\ GradingOff /\ RoomOff
  \/ /\ machine = "library" /\ RL!LibraryInit /\ ConnectorsOff
     /\ VideoOff /\ MicOff /\ UpdateOff /\ DiarizerOff /\ BankOff /\ AccessOff /\ GradingOff /\ RoomOff
  \/ /\ machine = "video" /\ VJ!VideoInit /\ ConnectorsOff
     /\ LibraryOff /\ MicOff /\ UpdateOff /\ DiarizerOff /\ BankOff /\ AccessOff /\ GradingOff /\ RoomOff
  \/ /\ machine = "mic" /\ CM!MicInit /\ ConnectorsOff
     /\ LibraryOff /\ VideoOff /\ UpdateOff /\ DiarizerOff /\ BankOff /\ AccessOff /\ GradingOff /\ RoomOff
  \/ /\ machine = "update" /\ UP!UpdateInit /\ ConnectorsOff
     /\ LibraryOff /\ VideoOff /\ MicOff /\ DiarizerOff /\ BankOff /\ AccessOff /\ GradingOff /\ RoomOff
  \/ /\ machine = "diarizer" /\ DI!DiarizerInit /\ ConnectorsOff
     /\ LibraryOff /\ VideoOff /\ MicOff /\ UpdateOff /\ BankOff /\ AccessOff /\ GradingOff /\ RoomOff
  \/ /\ machine = "bank" /\ SB!BankInit /\ ConnectorsOff
     /\ LibraryOff /\ VideoOff /\ MicOff /\ UpdateOff /\ DiarizerOff /\ AccessOff /\ GradingOff /\ RoomOff
  \/ /\ machine = "access" /\ AC!AccessInit /\ ConnectorsOff
     /\ LibraryOff /\ VideoOff /\ MicOff /\ UpdateOff /\ DiarizerOff /\ BankOff /\ GradingOff /\ RoomOff
  \/ /\ machine = "grading" /\ GR!GradingInit /\ ConnectorsOff
     /\ LibraryOff /\ VideoOff /\ MicOff /\ UpdateOff /\ DiarizerOff /\ BankOff /\ AccessOff /\ RoomOff
  \/ RoomInit /\ EarlierOff

Next ==
  \/ ConnectorNext /\ UNCHANGED <<libraryVars, videoVars, micVars, updateVars, diarizerVars,
         bankVars, accessVars, gradingVars, roomVars>>
  \/ /\ machine = "library" /\ RL!LibraryNext
     /\ UNCHANGED <<machine, connectorVars, videoVars, micVars, updateVars, diarizerVars,
            bankVars, accessVars, gradingVars, roomVars>>
  \/ /\ machine = "video" /\ VJ!VideoNext
     /\ UNCHANGED <<machine, connectorVars, libraryVars, micVars, updateVars, diarizerVars,
            bankVars, accessVars, gradingVars, roomVars>>
  \/ /\ machine = "mic" /\ CM!MicNext
     /\ UNCHANGED <<machine, connectorVars, libraryVars, videoVars, updateVars, diarizerVars,
            bankVars, accessVars, gradingVars, roomVars>>
  \/ /\ machine = "update" /\ UP!UpdateNext
     /\ UNCHANGED <<machine, connectorVars, libraryVars, videoVars, micVars, diarizerVars,
            bankVars, accessVars, gradingVars, roomVars>>
  \/ /\ machine = "diarizer" /\ DI!DiarizerNext
     /\ UNCHANGED <<machine, connectorVars, libraryVars, videoVars, micVars, updateVars,
            bankVars, accessVars, gradingVars, roomVars>>
  \/ /\ machine = "bank" /\ SB!BankNext
     /\ UNCHANGED <<machine, connectorVars, libraryVars, videoVars, micVars, updateVars,
            diarizerVars, accessVars, gradingVars, roomVars>>
  \/ /\ machine = "access" /\ AC!AccessNext
     /\ UNCHANGED <<machine, connectorVars, libraryVars, videoVars, micVars, updateVars,
            diarizerVars, bankVars, gradingVars, roomVars>>
  \/ /\ machine = "grading" /\ GR!GradingNext
     /\ UNCHANGED <<machine, connectorVars, libraryVars, videoVars, micVars, updateVars,
            diarizerVars, bankVars, accessVars, roomVars>>
  \/ RoomNext /\ UNCHANGED <<connectorVars, libraryVars, videoVars, micVars, updateVars,
         diarizerVars, bankVars, accessVars, gradingVars>>

Spec == Init /\ [][Next]_vars
=============================================================================
