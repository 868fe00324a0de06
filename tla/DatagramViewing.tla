--------------------------- MODULE DatagramViewing --------------------------
(***************************************************************************)
(* apps/basic/sender.cpp and apps/vis/ffplay_viewer.cpp: one program sends *)
(* every packet of its encoder as a datagram, the other writes every       *)
(* datagram it receives to its output.  Each has a main that waits for a   *)
(* signal, stops and joins its one thread; receiving has no time-out.      *)
(***************************************************************************)
EXTENDS Naturals

CONSTANTS
  MaxSent,   \* packets of the encoder in all
  MaxQueued  \* datagrams the viewer's socket holds

VARIABLES
  send_running, send_loop, sender_main, encoder_ready, m_frames_sent,
  view_running, receive_loop, viewer_main, bound, m_packets_received,
  network,  \* datagrams on their way or held by the viewer's socket
  late      \* datagrams written since the viewer's stop was called

sender_vars == <<send_running, send_loop, sender_main, encoder_ready, m_frames_sent>>
viewer_vars == <<view_running, receive_loop, viewer_main, bound, m_packets_received, late>>
vars == <<sender_vars, viewer_vars, network>>

\* The constructors have run: whether they succeeded is not looked at again.
Init ==
  /\ send_running = FALSE /\ send_loop = "off" /\ sender_main = "idle"
  /\ encoder_ready \in BOOLEAN
  /\ m_frames_sent = 0
  /\ view_running = FALSE /\ receive_loop = "off" /\ viewer_main = "idle"
  /\ bound \in BOOLEAN
  /\ m_packets_received = 0
  /\ network = 0 /\ late = 0

-----------------------------------------------------------------------------
(* The sender's process; "crashed" ends it *)

SenderMain ==
  /\ \/ /\ sender_main = "idle" /\ sender_main' = "running"
        /\ send_running' = TRUE /\ send_loop' = "check"
     \/ /\ sender_main = "running" /\ sender_main' = "join"
        /\ send_running' = FALSE /\ UNCHANGED send_loop
     \/ /\ sender_main = "join" /\ send_loop = "off" /\ sender_main' = "done"
        /\ UNCHANGED <<send_running, send_loop>>
  /\ UNCHANGED <<encoder_ready, m_frames_sent, network, viewer_vars>>

\* Without its frame generate_test_frame goes through a null pointer.
Generate ==
  /\ send_loop = "check"
  /\ \/ ~send_running /\ send_loop' = "off" /\ UNCHANGED sender_main
     \/ send_running /\ encoder_ready /\ send_loop' = "encode" /\ UNCHANGED sender_main
     \/ /\ send_running /\ ~encoder_ready
        /\ send_loop' = "off" /\ sender_main' = "crashed"
  /\ UNCHANGED <<network, m_frames_sent>>

\* The encoder refuses the frame, has no packet any more, or a packet, which is sent,
\* or not, or sent and lost.
Encode ==
  /\ send_loop = "encode"
  /\ \/ send_loop' = "check" /\ UNCHANGED <<m_frames_sent, network>>
     \/ /\ m_frames_sent < MaxSent
        /\ m_frames_sent' = m_frames_sent + 1
        /\ \/ bound /\ network < MaxQueued /\ network' = network + 1
           \/ UNCHANGED network
        /\ UNCHANGED send_loop
     \/ UNCHANGED <<send_loop, m_frames_sent, network>>
  /\ UNCHANGED sender_main

SenderLoop == (Generate \/ Encode) /\ UNCHANGED <<send_running, encoder_ready, viewer_vars>>

-----------------------------------------------------------------------------
(* The viewer's process *)

ViewerMain ==
  /\ \/ /\ viewer_main = "idle" /\ viewer_main' = "running"
        /\ view_running' = TRUE /\ receive_loop' = "check"
     \/ /\ viewer_main = "running" /\ viewer_main' = "join"
        /\ view_running' = FALSE /\ UNCHANGED receive_loop
     \/ /\ viewer_main = "join" /\ receive_loop = "off" /\ viewer_main' = "done"
        /\ UNCHANGED <<view_running, receive_loop>>
  /\ UNCHANGED <<bound, m_packets_received, late, network>>

ReceivesOn == \* mutant: the flag is looked at only when nothing is waiting
  /\ receive_loop = "check"
  /\ receive_loop' = IF view_running \/ network > 0 THEN "recvfrom" ELSE "off"
  /\ UNCHANGED <<m_packets_received, late, network>>
ReceiverChecks ==
  /\ receive_loop = "check"
  /\ receive_loop' = IF view_running THEN "recvfrom" ELSE "off"
  /\ UNCHANGED <<m_packets_received, late, network>>

ReceiveAndWrite ==
  /\ receive_loop = "recvfrom" /\ network > 0
  /\ receive_loop' = "check"
  /\ network' = network - 1
  /\ m_packets_received' = m_packets_received + 1
  /\ late' = IF view_running THEN late ELSE late + 1

ViewerLoop ==
  /\ ReceiverChecks \/ ReceiveAndWrite
  /\ UNCHANGED <<view_running, viewer_main, bound>>

Next == SenderMain \/ SenderLoop \/ ((ViewerMain \/ ViewerLoop) /\ UNCHANGED sender_vars)

\* A signal need not come, a frame may be refused for ever; and the viewer's thread
\* only runs on when there is a datagram.
Fairness ==
  /\ WF_vars(sender_main = "join" /\ SenderMain)
  /\ WF_vars(viewer_main = "join" /\ ViewerMain /\ UNCHANGED sender_vars)
  /\ WF_vars(SenderLoop)
  /\ SF_vars(send_loop = "encode" /\ SenderLoop /\ send_loop' = "check")
  /\ WF_vars(ViewerLoop /\ UNCHANGED sender_vars)

Spec == Init /\ [][Next]_vars /\ Fairness

-----------------------------------------------------------------------------
\* The shape of the state.
TypeOK ==
  /\ m_frames_sent \in 0 .. MaxSent /\ m_packets_received \in 0 .. MaxSent
  /\ network \in 0 .. MaxQueued
  /\ send_loop \in {"off", "check", "encode"}
  /\ receive_loop \in {"off", "check", "recvfrom"}

\* Once stop has been called the viewer writes at most one more datagram, the one
\* its thread was waiting for (ffplay_viewer.cpp:79-84, 121-123).
OnePacketAfterStop == late <= 1

\* The viewer's stop ends as soon as there is one datagram for it, and the sender's
\* always (ffplay_viewer.cpp:79-84, sender.cpp:77-82).
StopNeedsOnePacket ==
  /\ (viewer_main = "join" /\ (network > 0 \/ receive_loop # "recvfrom"))
       ~> viewer_main = "done"
  /\ sender_main = "join" ~> sender_main \in {"done", "crashed"}
=============================================================================
