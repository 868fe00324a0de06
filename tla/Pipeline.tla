------------------------------ MODULE Pipeline ------------------------------
(***************************************************************************)
(* core/pipeline/pipeline.ixx: a client thread starts and stops a sending  *)
(* thread (capture_loop: encode, packetize, send) and a receiving thread   *)
(* (process_loop: receive, buffer, depacketize) that share m_running only. *)
(* The buffer, the packetizer and the depacketizer are those of their      *)
(* modules; they are never reset, so they live on from one run to the next.*)
(***************************************************************************)
EXTENDS RtpSequence, SequencesExt

CONSTANTS
  Frames,        \* what the encoder may hand over: sequences of NAL unit sizes
  MaxPayload,    \* bytes of payload in a packet
  jitter_size,   \* of PipelineConfig
  Network,       \* what the network may do to a packet
  SocketsMayFail,\* may the system refuse to open or to bind a socket?
  MaxSent        \* bound: the encoder yields nothing after so many packets

ASSUME FramesAssumption == Frames \subseteq Seq(Nat)
ASSUME MaxPayloadAssumption == MaxPayload \in Nat /\ MaxPayload > 2
ASSUME MaxSentAssumption == MaxSent \in Nat
ASSUME NetworkAssumption == Network \subseteq {"lose", "duplicate", "reorder"}
ASSUME JitterSizeAssumption == jitter_size \in Nat
ASSUME SocketsMayFailAssumption == SocketsMayFail \in BOOLEAN

VARIABLES
  m_running,
  client,    \* "idle", or "joining" inside stop
  result,    \* of the last call of the client that ended
  same_ms,   \* may the clock still show the millisecond the last logger was named after?
  capture,   \* m_capture_thread: "off", or where it is in capture_loop
  process,   \* m_process_thread, in process_loop
  sender,    \* m_sender's socket is open
  receiver,  \* m_receiver's socket: "closed", "open", "bound"
  frame,     \* the frame being sent
  outbox,    \* its packets not sent yet
  m_sequence,
  network,   \* positions of the packets on their way, in order of arrival
  sent,      \* history: every packet sent; a packet's position is its index - 1
  received,  \* history: the positions pushed into the jitter buffer
  delivered, \* history: the positions given to the depacketizer
  m_buffer, m_last_popped_seq, m_first_packet, popped, \* m_jitter_buffer
  m_fu_sessions, m_expected_sequence, m_lost_packets,  \* m_depacketizer
  m_reordered_packets, m_complete_frames, units

Packetizer == INSTANCE H264Packetizer WITH packets <- outbox

Buffer == INSTANCE JitterBuffer WITH
  Packets <- 0 .. MaxSent - 1, m_max_packets <- jitter_size

Depacketizer == INSTANCE H264Depacketizer WITH RtpPackets <- {}

control   == <<m_running, client, result, same_ms>>
sockets   == <<sender, receiver>>
sending   == <<frame, outbox, m_sequence, sent>>
buffering == <<m_buffer, m_last_popped_seq, m_first_packet, popped>>
unpacking == <<m_fu_sessions, m_expected_sequence, m_lost_packets,
               m_reordered_packets, m_complete_frames, units>>
receiving == <<received, delivered, buffering, unpacking>>
vars == <<control, capture, process, sockets, sending, network, receiving>>

Init ==
  /\ m_running = FALSE /\ client = "idle" /\ result = "none" /\ same_ms = FALSE
  /\ capture = "off" /\ process = "off"
  /\ sender = FALSE /\ receiver = "closed"
  /\ Packetizer!Init /\ sent = <<>>
  /\ network = <<>>
  /\ received = {} /\ delivered = <<>>
  /\ Buffer!Init /\ Depacketizer!Init

-----------------------------------------------------------------------------
(* LoggerManager::create_logger("pipeline_<ms>") throws when the name exists; *)
(* the clock does not go back, so only the last name can.                     *)
CreateLogger == same_ms' = TRUE
LoggerExists == same_ms

\* A millisecond passes.
Tick == same_ms' \in {same_ms, FALSE}
Sleep == same_ms' = FALSE

StartRefused ==
  /\ m_running
  /\ result' = "refused"
  /\ UNCHANGED <<m_running, client, same_ms, sockets>>

StartThrows ==
  /\ ~m_running
  /\ LoggerExists
  /\ result' = "threw"
  /\ UNCHANGED <<m_running, client, same_ms, sockets>>

\* What was opened before the failure stays open.
StartFails ==
  /\ ~m_running
  /\ SocketsMayFail
  /\ CreateLogger
  /\ result' = "failed"
  /\ \/ ~sender /\ UNCHANGED sockets
     \/ sender' = TRUE /\ receiver = "closed" /\ UNCHANGED receiver
     \/ sender' = TRUE /\ receiver' = "open"
  /\ UNCHANGED <<m_running, client>>

StartSucceeds ==
  /\ ~m_running
  /\ CreateLogger
  /\ sender' = TRUE /\ receiver' = "bound"
  /\ m_running' = TRUE
  /\ result' = "started"
  /\ UNCHANGED client

start ==
  /\ client = "idle"
  /\ \/ StartRefused /\ UNCHANGED <<capture, process>>
     \/ StartThrows /\ UNCHANGED <<capture, process>>
     \/ StartFails /\ UNCHANGED <<capture, process>>
     \/ StartSucceeds /\ capture' = "check" /\ process' = "check"
  /\ UNCHANGED <<sending, network, receiving>>

\* stop, up to the joins
StopBegins ==
  /\ client = "idle"
  /\ \/ ~m_running /\ result' = "stopped" /\ UNCHANGED client
     \/ m_running /\ client' = "joining" /\ UNCHANGED result
  /\ m_running' = FALSE
  /\ UNCHANGED <<same_ms, capture, process, sockets, sending, network, receiving>>

JoinedCapture == capture = "off" \* mutant: one thread not joined
Joined == capture = "off" /\ process = "off"

\* Both threads were joined. Closing the receiver's socket drops what had
\* reached it; the rest is still on its way when the next start binds it again.
StopEnds ==
  /\ client = "joining"
  /\ Joined
  /\ sender' = FALSE /\ receiver' = "closed"
  /\ \E arrived \in 0 .. Len(network) : network' = SubSeq(network, arrived + 1, Len(network))
  /\ IF LoggerExists THEN result' = "threw" /\ UNCHANGED same_ms
                     ELSE result' = "stopped" /\ CreateLogger
  /\ client' = "idle"
  /\ UNCHANGED <<m_running, capture, process, sending, receiving>>

Client == start \/ StopBegins \/ StopEnds

-----------------------------------------------------------------------------
(* capture_loop *)

Encode == \* one of the frames the encoder yields in this round
  \E sizes \in Frames \ {<<>>} :
    /\ Len(sent) + Len(Packetizer!FramePackets(sizes, 0)) <= MaxSent
    /\ Packetizer!packetize_frame(sizes)
    /\ capture' = "send"
    /\ UNCHANGED <<same_ms, sent>>

RoundEnds == \* no frame (left): sleep_until the next one is due
  /\ capture' = "check"
  /\ Sleep
  /\ UNCHANGED sending

CaptureChecks ==
  /\ capture = "check"
  /\ \/ ~m_running /\ capture' = "off" /\ UNCHANGED <<same_ms, sending>>
     \/ m_running /\ (Encode \/ RoundEnds)
  /\ UNCHANGED network

Travels(p) ==
  \/ network' = Append(network, p)
  \/ "lose" \in Network /\ UNCHANGED network
  \/ "duplicate" \in Network /\ network' = network \o <<p, p>>
  \/ "reorder" \in Network /\ \E i \in DOMAIN network : network' = InsertAt(network, i, p)

SendPacket ==
  /\ capture = "send"
  /\ outbox # <<>>
  /\ sent' = Append(sent, Head(outbox))
  /\ outbox' = Tail(outbox)
  /\ IF sender THEN Travels(Len(sent)) ELSE UNCHANGED network
  /\ Tick
  /\ UNCHANGED <<capture, frame, m_sequence>>

FrameSent ==
  /\ capture = "send"
  /\ outbox = <<>>
  /\ Encode \/ RoundEnds
  /\ UNCHANGED network

CaptureThread ==
  /\ CaptureChecks \/ SendPacket \/ FrameSent
  /\ UNCHANGED <<m_running, client, result, process, sockets, receiving>>

-----------------------------------------------------------------------------
(* process_loop *)

NeverChecks == \* mutant: while (true)
  /\ process = "check"
  /\ process' = "receive"
  /\ UNCHANGED <<same_ms, network, receiving>>

ProcessChecks ==
  /\ process = "check"
  /\ process' = IF m_running THEN "receive" ELSE "off"
  /\ UNCHANGED <<same_ms, network, receiving>>

ReceivePacket ==
  /\ process = "receive"
  /\ receiver = "bound"
  /\ network # <<>>
  /\ Buffer!push(Head(network))
  /\ received' = received \cup {Head(network)}
  /\ network' = Tail(network)
  /\ process' = "pop"
  /\ Tick
  /\ UNCHANGED <<delivered, unpacking>>

\* Nothing there yet; what is in network may still be travelling.
ReceiveNothing ==
  /\ process = "receive"
  /\ process' = "pop"
  /\ Sleep
  /\ UNCHANGED <<network, receiving>>

RtpPacket(p) ==
  LET packet == sent[p + 1]
  IN  [pos |-> p, seq |-> packet.seq, kind |-> packet.kind,
       start |-> packet.start, end |-> packet.end]

PopAndProcess ==
  /\ process = "pop"
  /\ Buffer!pop
  /\ IF popped' = Buffer!NoPacket
     THEN UNCHANGED <<delivered, unpacking>>
     ELSE /\ Depacketizer!process_packet(RtpPacket(popped'))
          /\ delivered' = Append(delivered, popped')
  /\ process' = "check"
  /\ Tick
  /\ UNCHANGED <<received, network>>

ProcessThread ==
  /\ ProcessChecks \/ ReceivePacket \/ ReceiveNothing \/ PopAndProcess
  /\ UNCHANGED <<m_running, client, result, capture, sockets, sending>>

-----------------------------------------------------------------------------
Next == Client \/ CaptureThread \/ ProcessThread

Spec == Init /\ [][Next]_vars

\* Threads that can take a step do; stop returns from its joins; a packet that
\* was not lost does not travel for ever. Nobody has to call start or stop, and
\* the encoder does not have to yield a frame.
Fairness ==
  /\ WF_vars((capture = "send" \/ ~m_running) /\ CaptureThread)
  /\ WF_vars(ProcessThread)
  /\ WF_vars(StopEnds)
  /\ SF_vars(ProcessThread /\ ReceivePacket)

FairSpec == Spec /\ Fairness
=============================================================================
