----------------------------- MODULE VideoSender ----------------------------
(***************************************************************************)
(* core/session/sender/video_sender.cpp as network_sender.cpp and          *)
(* simple_sender.cpp use it: main starts it, reads its statistics until a  *)
(* signal comes, and stops it; sender_loop encodes, packetizes and sends.  *)
(* The statistics are under a lock, but a frame changes them twice.        *)
(***************************************************************************)
EXTENDS Naturals

CONSTANTS
  MaxFrames,  \* frames handed to the encoder in all
  MaxPackets  \* packets of a frame

VARIABLES
  session_running, m_stop_requested,
  m_socket,     \* "closed" or "open"
  m_stats,      \* frames_sent and packets_sent
  sender_loop,  \* where the thread is: "off", "check", ..., "count"
  frame,        \* of the frame at hand: packets left, packets sent
  frames,       \* frames handed to the encoder
  on_the_wire,  \* packets handed to the network since start
  session_main  \* "idle", "starting", "running", "join", "report", "ended" or "crashed"

loop_vars == <<m_stats, sender_loop, frame, frames, on_the_wire>>
vars == <<session_running, m_stop_requested, m_socket, loop_vars, session_main>>

NoStats == [frames_sent |-> 0, packets_sent |-> 0]
NoPackets == [left |-> 0, sent |-> 0]

Init ==
  /\ session_running = FALSE /\ m_stop_requested = FALSE
  /\ m_socket = "closed"
  /\ m_stats = NoStats
  /\ sender_loop = "off"
  /\ frame = NoPackets
  /\ frames = 0 /\ on_the_wire = 0
  /\ session_main = "idle"

-----------------------------------------------------------------------------
\* No socket, or no thread, which leaves the socket open: main gives up.
StartFails ==
  /\ session_main' = "ended"
  /\ m_socket' \in {"closed", "open"}
  /\ UNCHANGED <<session_running, m_stop_requested, loop_vars>>

\* The thread is under way before the flag says so.
StartSucceeds ==
  /\ m_socket' = "open"
  /\ m_stats' = NoStats
  /\ m_stop_requested' = FALSE
  /\ sender_loop' = "check"
  /\ session_main' = "starting"
  /\ UNCHANGED <<session_running, frame, frames, on_the_wire>>

StartEnds ==
  /\ session_main = "starting" /\ session_main' = "running"
  /\ session_running' = TRUE
  /\ UNCHANGED <<m_stop_requested, m_socket, loop_vars>>

start == (session_main = "idle" /\ (StartFails \/ StartSucceeds)) \/ StartEnds

StopBegins ==
  /\ session_main = "running" /\ session_main' = "join"
  /\ m_stop_requested' = TRUE
  /\ UNCHANGED <<session_running, m_socket, loop_vars>>

StopEndsEarly == \* mutant: the thread is not joined
  /\ session_main = "join" /\ session_main' = "ended"
  /\ m_socket' = "closed"
  /\ session_running' = FALSE
  /\ UNCHANGED <<m_stop_requested, loop_vars>>
StopEnds ==
  /\ session_main = "join" /\ sender_loop = "off" /\ session_main' = "ended"
  /\ m_socket' = "closed"
  /\ session_running' = FALSE
  /\ UNCHANGED <<m_stop_requested, loop_vars>>

stop == StopBegins \/ StopEnds

-----------------------------------------------------------------------------
Goes(from, to) == sender_loop = from /\ sender_loop' = to

Checks ==
  /\ Goes("check", IF m_stop_requested THEN "off" ELSE "generate")
  /\ UNCHANGED <<m_stats, frame, frames, on_the_wire, session_main>>

\* The loops over the planes of colour write twice their rows, beyond the end of the
\* frame: the program may end there, or what lay behind is overwritten unnoticed.
generate_frame ==
  /\ \/ Goes("generate", "encode") /\ UNCHANGED session_main
     \/ Goes("generate", "off") /\ session_main' = "crashed"
  /\ UNCHANGED <<m_stats, frame, frames, on_the_wire>>

\* The encoder holds the frame back, or yields packets; from encoding to sending an
\* exception takes the loop to its next round.
Encode ==
  /\ \/ /\ Goes("encode", "send")
        /\ frames < MaxFrames
        /\ \E n \in 1 .. MaxPackets : frame' = [left |-> n, sent |-> 0]
        /\ frames' = frames + 1
     \/ Goes("encode", "check") /\ UNCHANGED <<frame, frames>>
  /\ UNCHANGED <<m_stats, on_the_wire, session_main>>

\* The simulation loses the packet, the network takes it, or it refuses it.
SendPacket ==
  /\ frame.left > 0
  /\ \/ /\ Goes("send", "send")
        /\ \/ /\ frame' = [left |-> frame.left - 1, sent |-> frame.sent + 1]
              /\ on_the_wire' = on_the_wire + 1
           \/ /\ frame' = [frame EXCEPT !.left = @ - 1]
              /\ UNCHANGED on_the_wire
     \/ Goes("send", "check") /\ frame' = NoPackets /\ UNCHANGED on_the_wire
  /\ UNCHANGED <<m_stats, frames, session_main>>

CountAnyFrame == \* mutant: a frame of which nothing was sent is counted too
  /\ frame.left = 0
  /\ Goes("send", "count")
  /\ m_stats' = [m_stats EXCEPT !.packets_sent = @ + frame.sent]
  /\ frame' = NoPackets
  /\ UNCHANGED <<frames, on_the_wire, session_main>>
CountPackets ==
  /\ frame.left = 0
  /\ Goes("send", IF frame.sent > 0 THEN "count" ELSE "check")
  /\ m_stats' = [m_stats EXCEPT !.packets_sent = @ + frame.sent]
  /\ frame' = NoPackets
  /\ UNCHANGED <<frames, on_the_wire, session_main>>

CountFrame ==
  /\ Goes("count", "check")
  /\ m_stats' = [m_stats EXCEPT !.frames_sent = @ + 1]
  /\ UNCHANGED <<frame, frames, on_the_wire, session_main>>

Thread ==
  /\ session_main # "crashed"
  /\ Checks \/ generate_frame \/ Encode \/ SendPacket \/ CountPackets \/ CountFrame
  /\ UNCHANGED <<session_running, m_stop_requested, m_socket>>

Next == start \/ stop \/ Thread

\* The thread runs and its pauses end; nobody need send the signal.
Fairness == WF_vars(StartEnds) /\ WF_vars(StopEnds) /\ WF_vars(Thread)

Spec == Init /\ [][Next]_vars /\ Fairness

-----------------------------------------------------------------------------
\* The shape of the state.
TypeOK ==
  /\ session_running \in BOOLEAN /\ m_stop_requested \in BOOLEAN
  /\ m_socket \in {"closed", "open"}
  /\ m_stats \in [frames_sent : Nat, packets_sent : Nat]
  /\ frame \in [left : 0 .. MaxPackets, sent : 0 .. MaxPackets]
  /\ frames \in 0 .. MaxFrames /\ on_the_wire \in Nat

\* Whenever main reads them, the statistics fit together: each frame counted had a
\* packet that is counted, and no packet is counted that was not sent; and while
\* the thread may send, it has a socket, and the program is not at an end
\* (video_sender.cpp:93-97, 129-132, 278-289).
ReadingsMakeSense ==
  /\ m_stats.frames_sent <= m_stats.packets_sent
  /\ m_stats.packets_sent + frame.sent <= on_the_wire
  /\ sender_loop # "off" => m_socket = "open" /\ session_main # "ended"

\* stop ends: the thread looks at the flag once per frame (video_sender.cpp:83-98).
StopCompletes == session_main = "join" ~> session_main \in {"ended", "crashed"}
=============================================================================
