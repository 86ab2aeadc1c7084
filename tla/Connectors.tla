------------------------------ MODULE Connectors ------------------------------
(***************************************************************************)
(* The speech-to-text connectors (stt/backends), one behaviour each: the   *)
(* streaming shape of five vendors read by TranscriptStream's books, the   *)
(* opening of their sockets, and one-utterance calls over socket or HTTP.  *)
(* They share no state, so a behaviour of this module is one of theirs.    *)
(***************************************************************************)
EXTENDS Integers, Sequences

CONSTANTS MaxSegs, MaxTurns, MaxWords, MaxDeltas, MaxSockets, MaxUtts, MaxPosts, JobTimeout

(* A service tells of any number of turns. *)
ASSUME HeardAssumption == MaxTurns \in Nat

(* A job is waited for up to a ceiling. *)
ASSUME CeilingAssumption == JobTimeout \in Nat

VARIABLES
  machine,                        \* which of them this behaviour is of
  conn, svc, said, book, ended,   \* one streaming connection
  hs,                             \* the sockets of one connector
  call,                           \* one-utterance calls over a socket
  batch                           \* one-utterance calls over HTTP

streamVars == <<conn, svc, said, book, ended>>

connectorVars == <<streamVars, hs, call, batch>>

DG == INSTANCE Deepgram
AA == INSTANCE AssemblyAI
GL == INSTANCE GeminiLive
XA == INSTANCE Xai
OA == INSTANCE OpenAIRealtime
HS == INSTANCE StreamHandshake
UC == INSTANCE UtteranceCalls
BC == INSTANCE BatchCalls

Off == "off"

StreamsOff == conn = Off /\ svc = Off /\ said = Off /\ book = Off /\ ended = Off

StreamInit ==
  \/ machine = "deepgram" /\ DG!Init
  \/ machine = "assemblyai" /\ AA!Init
  \/ machine = "gemini" /\ GL!Init
  \/ machine = "xai" /\ XA!Init
  \/ machine = "openai" /\ OA!Init

ConnectorsOff == StreamsOff /\ hs = Off /\ call = Off /\ batch = Off

ConnectorInit ==
  \/ StreamInit /\ hs = Off /\ call = Off /\ batch = Off
  \/ machine = "handshake" /\ HS!HandshakeInit /\ StreamsOff /\ call = Off /\ batch = Off
  \/ machine = "call" /\ UC!CallInit /\ StreamsOff /\ hs = Off /\ batch = Off
  \/ machine = "batch" /\ BC!BatchInit /\ StreamsOff /\ hs = Off /\ call = Off

StreamNext ==
  /\ \/ machine = "deepgram" /\ DG!Next
     \/ machine = "assemblyai" /\ AA!Next
     \/ machine = "gemini" /\ GL!Next
     \/ machine = "xai" /\ XA!Next
     \/ machine = "openai" /\ OA!Next
  /\ UNCHANGED <<machine, hs, call, batch>>

HandshakeStep ==
  machine = "handshake" /\ HS!HandshakeNext /\ UNCHANGED <<machine, streamVars, call, batch>>

CallStep ==
  machine = "call" /\ UC!CallNext /\ UNCHANGED <<machine, streamVars, hs, batch>>

BatchStep ==
  machine = "batch" /\ BC!BatchNext /\ UNCHANGED <<machine, streamVars, hs, call>>

ConnectorNext == StreamNext \/ HandshakeStep \/ CallStep \/ BatchStep
=============================================================================
