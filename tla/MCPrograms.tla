----------------------------- MODULE MCPrograms -----------------------------
(* The programs and classes that stand alone: which one a behaviour is about *)
(* is chosen at its start, and the others stay as they are.                  *)
EXTENDS JitterBufferProps, BitrateControl

CONSTANTS
  Sockets, Descriptors, INVALID_SOCKET,                       \* UdpSocket
  Clients, Browsers, FDs,                                     \* StreamingServer
  target_bitrates, measurement_window, keyframe_interval,     \* MetricsAdaptive
  ReportInterval, MaxUpdates, Updates,
  MaxFrames, MaxPackets,                                      \* VideoSender
  MaxSent, MaxQueued,                                         \* DatagramViewing
  Tasks, Frames, NoFrame                                      \* CoroutineTask

VARIABLES
  program,
  constructed, m_socket, open_files, bound_files,
  m_running, m_server_socket, m_clients, main, acceptor, metrics, handler,
  socket, local_socket, files, peer,
  metrics_running, target_bitrate, m_metrics, monitoring, adaptive, simulation, starter,
  session_running, m_stop_requested, session_socket, m_stats, sender_loop, frame,
  frames, on_the_wire, session_main,
  send_running, send_loop, sender_main, encoder_ready, m_frames_sent,
  view_running, receive_loop, viewer_main, bound, m_packets_received, network, late,
  coro_, coroutine_frames, progress, answer

Relay == INSTANCE StreamingServer
Metrics == INSTANCE MetricsAdaptive
Session == INSTANCE VideoSender WITH m_socket <- session_socket
Viewing == INSTANCE DatagramViewing
Task == INSTANCE CoroutineTask WITH frames <- coroutine_frames
Socket == INSTANCE UdpSocket

socket_vars == <<constructed, m_socket, open_files, bound_files>>
relay_vars == <<m_running, m_server_socket, m_clients, main, acceptor, metrics, handler,
  socket, local_socket, files, peer>>
metrics_vars == <<metrics_running, target_bitrate, m_metrics, monitoring, adaptive,
  simulation, starter>>
session_vars == <<session_running, m_stop_requested, session_socket, m_stats,
  sender_loop, frame, frames, on_the_wire, session_main>>
viewing_vars == <<send_running, send_loop, sender_main, encoder_ready, m_frames_sent,
  view_running, receive_loop, viewer_main, bound, m_packets_received, network, late>>
task_vars == <<coro_, coroutine_frames, progress, answer>>
program_vars ==
  <<program, vars, relay_vars, metrics_vars, session_vars, viewing_vars, task_vars,
    socket_vars>>

\* Descriptors are numbers, which the system gives out lowest first; a connection is
\* told from whatever else the relay has open, and a client from a browser.
ASSUME RelayAssumption ==
  /\ FDs \subseteq Nat /\ FDs # {}
  /\ Clients \cap Browsers = {}
  /\ (Clients \cup Browsers) \cap {"free", "listener", "metrics", "upstream"} = {}

\* What the command line is meant to be given: for a window of no second or a negative
\* target nothing is promised.
ASSUME MetricsAssumption ==
  /\ target_bitrates \subseteq Nat
  /\ measurement_window \in Nat \ {0} /\ keyframe_interval \in Nat \ {0}
  /\ Updates \subseteq [bytes : Nat, packets : Nat, lost : Nat]

ASSUME BoundsAssumption == {MaxFrames, MaxPackets, MaxSent, MaxQueued} \subseteq Nat

ASSUME NoFrameAssumption == NoFrame \notin Frames

\* The system never gives out -1 as a descriptor.
ASSUME DescriptorAssumption == INVALID_SOCKET \notin Descriptors

\* What the simulation of metrics_adaptive.cpp reports: packets with and without a loss
MCUpdates == {[bytes |-> 1000, packets |-> 10, lost |-> 0],
              [bytes |-> 1499, packets |-> 14, lost |-> 1]}

\* What is pushed into the jitter buffer: numbers 0 .. SeqSpace - 2, no wrap
MCUnwrapped == 0 .. SeqSpace - 2

-----------------------------------------------------------------------------
MCInit ==
  /\ program \in {"udp_socket", "task", "relay", "metrics", "session", "viewing",
                 "jitter_buffer"}
  /\ Init /\ Relay!Init /\ Metrics!Init /\ Session!Init /\ Viewing!Init /\ Task!Init
  /\ Socket!Init
  /\ program # "metrics" => target_bitrate = min_bitrate
  /\ program # "viewing" => encoder_ready /\ bound

UdpSocketSteps ==
  /\ program = "udp_socket" /\ Socket!Next
  /\ UNCHANGED <<program, vars, relay_vars, metrics_vars, session_vars, viewing_vars,
                 task_vars>>

TaskSteps ==
  /\ program = "task" /\ Task!Next
  /\ UNCHANGED <<program, vars, relay_vars, metrics_vars, session_vars, viewing_vars,
                 socket_vars>>

RelaySteps ==
  /\ program = "relay" /\ Relay!Next
  /\ UNCHANGED <<program, vars, metrics_vars, session_vars, viewing_vars, task_vars,
                 socket_vars>>

MetricsSteps ==
  /\ program = "metrics" /\ Metrics!Next
  /\ UNCHANGED <<program, vars, relay_vars, session_vars, viewing_vars, task_vars,
                 socket_vars>>

SessionSteps ==
  /\ program = "session" /\ Session!Next
  /\ UNCHANGED <<program, vars, relay_vars, metrics_vars, viewing_vars, task_vars,
                 socket_vars>>

ViewingSteps ==
  /\ program = "viewing" /\ Viewing!Next
  /\ UNCHANGED <<program, vars, relay_vars, metrics_vars, session_vars, task_vars,
                 socket_vars>>

JitterSteps ==
  /\ program = "jitter_buffer" /\ Next
  /\ UNCHANGED <<program, relay_vars, metrics_vars, session_vars, viewing_vars, task_vars,
                 socket_vars>>

MCNext ==
  \/ UdpSocketSteps \/ TaskSteps \/ RelaySteps \/ MetricsSteps \/ SessionSteps \/ ViewingSteps
  \/ JitterSteps

\* A program that is not the chosen one has not started: its fairness asks nothing.
MCSpec ==
  /\ MCInit /\ [][MCNext]_program_vars
  /\ Relay!Fairness /\ Metrics!Fairness /\ Session!Fairness /\ Viewing!Fairness

-----------------------------------------------------------------------------
\* The shape of every program's state but the jitter buffer's, which is its own TypeOK.
ProgramsTypeOK ==
  Socket!TypeOK /\ Relay!TypeOK /\ Metrics!TypeOK /\ Session!TypeOK /\ Viewing!TypeOK /\ Task!TypeOK

\* The relay's list of clients is exact (StreamingServer): streaming_server.cpp:130-136.
TableIsExact == Relay!TableIsExact

\* The sender session's statistics and socket (VideoSender): video_sender.cpp:93-97,
\* 129-132, 278-289.
ReadingsMakeSense == Session!ReadingsMakeSense

\* The viewer's last datagram (DatagramViewing): ffplay_viewer.cpp:79-84.
OnePacketAfterStop == Viewing!OnePacketAfterStop

\* Sockets and coroutine frames have one owner each, who gives them back once
\* (UniqueOwner): udp_socket.cpp:46-122, coroutine_types.ixx:20-59.
HandlesAreOwned == Socket!OwnsUniquely /\ Task!OwnsUniquely

\* Where the target comes to rest (MetricsAdaptive): metrics_adaptive.cpp:160-190.
Settles == Metrics!Settles

\* How each program's stop ends (in its module): the relay's and the viewer's when
\* somebody calls or sends, the others' always.
EveryStopEnds ==
  /\ Relay!StopNeedsOneCaller
  /\ Viewing!StopNeedsOnePacket
  /\ Session!StopCompletes
  /\ Metrics!StopCompletes
=============================================================================
