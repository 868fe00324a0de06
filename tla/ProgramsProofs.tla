---------------------------- MODULE ProgramsProofs ---------------------------
(* Proofs about the programs and classes of MCPrograms, each for every value *)
(* of its constants.                                                         *)
EXTENDS MCPrograms, FiniteSetTheorems, SequenceTheorems, WellFoundedInduction, TLAPS

-----------------------------------------------------------------------------
(* Whichever program was chosen, each takes its own steps or none.           *)

SocketRuns == Socket!Init /\ [][Socket!Next]_(Socket!vars)
RelayRuns == Relay!Init /\ [][Relay!Next]_(Relay!vars)
MetricsRuns == Metrics!Init /\ [][Metrics!Next]_(Metrics!vars)
SessionRuns == Session!Init /\ [][Session!Next]_(Session!vars)
ViewingRuns == Viewing!Init /\ [][Viewing!Next]_(Viewing!vars)
TaskRuns == Task!Init /\ [][Task!Next]_(Task!vars)

LEMMA EachStepsAlone ==
  ASSUME [MCNext]_program_vars
  PROVE  /\ [Socket!Next]_(Socket!vars)
         /\ [Relay!Next]_(Relay!vars) /\ [Metrics!Next]_(Metrics!vars)
         /\ [Session!Next]_(Session!vars) /\ [Viewing!Next]_(Viewing!vars)
         /\ [Task!Next]_(Task!vars)
<1>1. relay_vars' = relay_vars => Relay!vars' = Relay!vars
  BY DEF relay_vars, Relay!vars, Relay!loops, Relay!relay
<1>2. metrics_vars' = metrics_vars => Metrics!vars' = Metrics!vars
  BY DEF metrics_vars, Metrics!vars, Metrics!control
<1>3. session_vars' = session_vars => Session!vars' = Session!vars
  BY DEF session_vars, Session!vars, Session!loop_vars
<1>4. viewing_vars' = viewing_vars => Viewing!vars' = Viewing!vars
  BY DEF viewing_vars, Viewing!vars, Viewing!sender_vars, Viewing!viewer_vars
<1>5. task_vars' = task_vars => Task!vars' = Task!vars
  BY DEF task_vars, Task!vars
<1>8. socket_vars' = socket_vars => Socket!vars' = Socket!vars
  BY DEF socket_vars, Socket!vars
<1>6. CASE UNCHANGED program_vars
  BY <1>1, <1>2, <1>3, <1>4, <1>5, <1>6, <1>8 DEF program_vars
<1>7. CASE MCNext
  BY <1>1, <1>2, <1>3, <1>4, <1>5, <1>7, <1>8
  DEF MCNext, UdpSocketSteps, TaskSteps, RelaySteps, MetricsSteps, SessionSteps, ViewingSteps,
      JitterSteps
<1> QED BY <1>6, <1>7

LEMMA EachRuns ==
  MCSpec => SocketRuns /\ RelayRuns /\ MetricsRuns /\ SessionRuns /\ ViewingRuns /\ TaskRuns
<1>1. MCInit => /\ Socket!Init /\ Relay!Init /\ Metrics!Init
                /\ Session!Init /\ Viewing!Init /\ Task!Init
  BY DEF MCInit
<1>2. [MCNext]_program_vars =>
        /\ [Socket!Next]_(Socket!vars)
        /\ [Relay!Next]_(Relay!vars) /\ [Metrics!Next]_(Metrics!vars)
        /\ [Session!Next]_(Session!vars) /\ [Viewing!Next]_(Viewing!vars)
        /\ [Task!Next]_(Task!vars)
  BY EachStepsAlone
<1> QED BY <1>1, <1>2, PTL
        DEF MCSpec, SocketRuns, RelayRuns, MetricsRuns, SessionRuns, ViewingRuns, TaskRuns

-----------------------------------------------------------------------------
(* VideoSender                                                               *)
\* What the counts are, and that the statistics are complete between two frames but
\* for the frame itself, which is counted after its packets.
SessionCounts ==
  /\ m_stats \in [frames_sent : Nat, packets_sent : Nat]
  /\ frame \in [left : Nat, sent : Nat]
  /\ on_the_wire \in Nat
  /\ m_stats.frames_sent + (IF sender_loop = "count" THEN 1 ELSE 0) <= m_stats.packets_sent
  /\ m_stats.packets_sent + frame.sent <= on_the_wire

\* The thread lives between Session!start and the end of Session!stop's join, and the socket longer.
SessionSocket ==
  /\ sender_loop # "off" => session_socket = "open" /\ session_main # "ended"
  /\ session_main = "idle" => sender_loop = "off"

\* The thread's steps keep the counts: a frame's packets are on the wire before they
\* are counted, and counted before the frame is.
LEMMA SessionKeepsCounts ==
  ASSUME SessionCounts, Session!Thread
  PROVE  SessionCounts'
<1>0. /\ m_stats.frames_sent \in Nat /\ m_stats.packets_sent \in Nat
      /\ frame.left \in Nat /\ frame.sent \in Nat /\ on_the_wire \in Nat
  BY DEF SessionCounts
<1>1. CASE Session!Checks
  BY <1>1 DEF Session!Checks, Session!Goes, SessionCounts
<1>2. CASE Session!generate_frame
  BY <1>2 DEF Session!generate_frame, Session!Goes, SessionCounts
<1>3. CASE Session!Encode
  <2>1. CASE UNCHANGED <<frame, frames>>
    BY <1>3, <2>1 DEF Session!Encode, Session!Goes, SessionCounts
  <2>2. CASE \E n \in 1 .. MaxPackets : frame' = [left |-> n, sent |-> 0]
    <3>1. PICK n \in 1 .. MaxPackets : frame' = [left |-> n, sent |-> 0]
      BY <2>2
    <3>2. n \in Nat
      BY SMT, <3>1
    <3>3. frame' \in [left : Nat, sent : Nat] /\ frame'.sent = 0
      BY <3>1, <3>2
    <3>4. sender_loop = "encode" /\ sender_loop' \in {"send", "check"}
          /\ UNCHANGED <<m_stats, on_the_wire>>
      BY <1>3 DEF Session!Encode, Session!Goes
    <3> QED BY SMT, <1>0, <3>3, <3>4 DEF SessionCounts
  <2> QED BY <1>3, <2>1, <2>2 DEF Session!Encode
<1>4. CASE Session!SendPacket
  BY SMT, <1>0, <1>4 DEF Session!SendPacket, Session!Goes, Session!NoPackets, SessionCounts
<1>5. CASE Session!CountPackets
  BY SMT, <1>0, <1>5 DEF Session!CountPackets, Session!Goes, Session!NoPackets, SessionCounts
<1>6. CASE Session!CountFrame
  BY SMT, <1>0, <1>6 DEF Session!CountFrame, Session!Goes, SessionCounts
<1> QED BY <1>1, <1>2, <1>3, <1>4, <1>5, <1>6 DEF Session!Thread

\* ... and they come to their end in the loop, or by ending the program.
LEMMA SessionKeepsSocket ==
  ASSUME SessionSocket, Session!Thread
  PROVE  SessionSocket'
<1>1. sender_loop # "off" /\ UNCHANGED session_socket /\ session_main' \in {session_main, "crashed"}
  BY DEF Session!Thread, Session!Checks, Session!generate_frame, Session!Encode,
         Session!SendPacket, Session!CountPackets, Session!CountFrame, Session!Goes
<1> QED BY <1>1 DEF SessionSocket

LEMMA InitSession ==
  ASSUME Session!Init
  PROVE  SessionCounts /\ SessionSocket
BY DEF Session!Init, Session!NoStats, Session!NoPackets, SessionCounts, SessionSocket

\* Starting and stopping count nothing.
LEMMA StepKeepsReadings ==
  ASSUME SessionCounts, SessionSocket, [Session!Next]_(Session!vars)
  PROVE  SessionCounts' /\ SessionSocket'
<1>1. CASE Session!start
  <2>1. CASE session_main = "idle" /\ Session!StartFails
    BY <2>1 DEF Session!StartFails, Session!loop_vars, SessionCounts, SessionSocket
  <2>2. CASE session_main = "idle" /\ Session!StartSucceeds
    <3>1. /\ sender_loop = "off" /\ sender_loop' = "check" /\ m_stats' = Session!NoStats
          /\ UNCHANGED <<frame, on_the_wire>>
          /\ session_socket' = "open" /\ session_main' = "starting"
      BY <2>2 DEF Session!StartSucceeds, SessionSocket
    <3>2. frame.sent <= on_the_wire
      BY SMT DEF SessionCounts
    <3> QED BY SMT, <3>1, <3>2 DEF Session!NoStats, SessionCounts, SessionSocket
  <2>3. CASE Session!StartEnds
    BY <2>3 DEF Session!StartEnds, Session!loop_vars, SessionCounts, SessionSocket
  <2> QED BY <1>1, <2>1, <2>2, <2>3 DEF Session!start
<1>2. CASE Session!stop
  BY <1>2 DEF Session!stop, Session!StopBegins, Session!StopEnds, Session!loop_vars,
              SessionCounts, SessionSocket
<1>3. CASE Session!Thread
  BY <1>3, SessionKeepsCounts, SessionKeepsSocket
<1>4. CASE UNCHANGED Session!vars
  BY <1>4 DEF Session!vars, Session!loop_vars, SessionCounts, SessionSocket
<1> QED BY <1>1, <1>2, <1>3, <1>4 DEF Session!Next

\* At whatever moment main reads the statistics, they fit together and do not claim
\* what was not sent, and the thread has its socket: for every number of frames and
\* packets, and whenever the network or the encoder fails
\* (video_sender.cpp:93-97, 129-132, 278-289).
THEOREM ReadingsAlwaysMakeSense == MCSpec => []ReadingsMakeSense
<1>1. Session!Init => SessionCounts /\ SessionSocket
  BY InitSession
<1>2. SessionCounts /\ SessionSocket /\ [Session!Next]_(Session!vars)
        => (SessionCounts /\ SessionSocket)'
  BY StepKeepsReadings
<1>3. SessionCounts /\ SessionSocket => ReadingsMakeSense
  <2> SUFFICES ASSUME SessionCounts, SessionSocket PROVE ReadingsMakeSense
    OBVIOUS
  <2>1. m_stats.frames_sent <= m_stats.packets_sent
    BY SMT DEF SessionCounts
  <2> QED BY <2>1 DEF SessionCounts, SessionSocket, ReadingsMakeSense, Session!ReadingsMakeSense
<1> QED BY <1>1, <1>2, <1>3, EachRuns, PTL DEF SessionRuns

-----------------------------------------------------------------------------
(* DatagramViewing                                                           *)
\* While the viewer runs nothing is late; a late datagram leaves its thread where it
\* will look at the flag, which nobody sets again.
LateInv ==
  /\ late \in {0, 1}
  /\ view_running => late = 0 /\ viewer_main = "running"
  /\ viewer_main = "idle" => late = 0 /\ receive_loop = "off"
  /\ viewer_main = "running" => view_running
  /\ late = 1 => receive_loop # "recvfrom"

\* main starts the viewer once, and stop changes nothing but the flag.
LEMMA ViewerMainKeepsLate ==
  ASSUME LateInv, Viewing!ViewerMain
  PROVE  LateInv'
<1>1. CASE viewer_main = "idle"
  BY <1>1 DEF Viewing!ViewerMain, LateInv
<1>2. CASE viewer_main = "running"
  BY <1>2 DEF Viewing!ViewerMain, LateInv
<1>3. CASE viewer_main = "join"
  BY <1>3 DEF Viewing!ViewerMain, LateInv
<1> QED BY <1>1, <1>2, <1>3 DEF Viewing!ViewerMain

\* The thread asks for a datagram only while the flag is set, and looks at the flag
\* after each.
LEMMA ViewerLoopKeepsLate ==
  ASSUME LateInv, Viewing!ViewerLoop
  PROVE  LateInv'
<1>1. CASE Viewing!ReceiverChecks
  BY <1>1 DEF Viewing!ReceiverChecks, Viewing!ViewerLoop, LateInv
<1>2. CASE Viewing!ReceiveAndWrite
  <2>1. late = 0
    BY <1>2 DEF Viewing!ReceiveAndWrite, LateInv
  <2>2. late' \in {0, 1} /\ (view_running => late' = 0) /\ receive_loop' = "check"
    BY <1>2, <2>1 DEF Viewing!ReceiveAndWrite
  <2>3. viewer_main # "idle"
    BY <1>2 DEF Viewing!ReceiveAndWrite, LateInv
  <2> QED BY <2>2, <2>3 DEF Viewing!ViewerLoop, LateInv
<1> QED BY <1>1, <1>2 DEF Viewing!ViewerLoop

\* Once stop has been called the viewer writes at most one more datagram, for every
\* number of packets sent or held and whenever stop is called
\* (ffplay_viewer.cpp:79-84, 121-123).
THEOREM AtMostOneLate == MCSpec => []OnePacketAfterStop
<1>1. Viewing!Init => LateInv
  BY DEF Viewing!Init, LateInv
<1>2. LateInv /\ [Viewing!Next]_(Viewing!vars) => LateInv'
  <2> SUFFICES ASSUME LateInv, [Viewing!Next]_(Viewing!vars) PROVE LateInv'
    OBVIOUS
  <2>1. CASE Viewing!SenderMain \/ Viewing!SenderLoop \/ UNCHANGED Viewing!vars
    BY <2>1 DEF Viewing!SenderMain, Viewing!SenderLoop, Viewing!vars, Viewing!viewer_vars, LateInv
  <2>2. CASE Viewing!ViewerMain
    BY <2>2, ViewerMainKeepsLate
  <2>3. CASE Viewing!ViewerLoop
    BY <2>3, ViewerLoopKeepsLate
  <2> QED BY <2>1, <2>2, <2>3 DEF Viewing!Next
<1>3. LateInv => OnePacketAfterStop
  BY DEF LateInv, OnePacketAfterStop, Viewing!OnePacketAfterStop
<1> QED BY <1>1, <1>2, <1>3, EachRuns, PTL DEF ViewingRuns

-----------------------------------------------------------------------------
(* UdpSocket                                                                 *)
\* An object that is not constructed owns nothing, so what Construct and the moving
\* constructor put there replaces nothing.
OwnersInv ==
  /\ m_socket \in [Sockets -> Descriptors \cup {INVALID_SOCKET}]
  /\ open_files \subseteq Descriptors
  /\ \A s \in Sockets : s \notin constructed => m_socket[s] = INVALID_SOCKET

\* Every operation keeps that.
LEMMA StepKeepsOwners ==
  ASSUME OwnersInv, [Socket!Next]_(Socket!vars)
  PROVE  OwnersInv'
<1>1. ASSUME NEW s \in Sockets, Socket!Construct(s) PROVE OwnersInv'
  BY <1>1 DEF Socket!Construct, OwnersInv
<1>2. ASSUME NEW s \in Sockets, Socket!Destroy(s) PROVE OwnersInv'
  BY <1>2 DEF Socket!Destroy, Socket!Closed, OwnersInv
<1>3. ASSUME NEW s \in Sockets, Socket!open(s) \/ Socket!bind(s) PROVE OwnersInv'
  <2>1. s \in constructed /\ constructed' = constructed /\ Socket!Open(s)
    BY <1>3 DEF Socket!open, Socket!bind
  <2>2. CASE UNCHANGED <<m_socket, open_files>>
    BY <2>1, <2>2 DEF OwnersInv
  <2>3. ASSUME NEW fd \in Descriptors \ open_files,
               m_socket' = [m_socket EXCEPT ![s] = fd],
               open_files' = open_files \cup {fd}
        PROVE  OwnersInv'
    BY <2>1, <2>3 DEF OwnersInv
  <2> QED BY <2>1, <2>2, <2>3 DEF Socket!Open
<1>4. ASSUME NEW s \in Sockets, Socket!close(s) PROVE OwnersInv'
  BY <1>4 DEF Socket!close, Socket!Closed, OwnersInv
<1>5. ASSUME NEW s \in Sockets, NEW other \in Sockets, Socket!MoveConstruct(s, other) PROVE OwnersInv'
  BY <1>5 DEF Socket!MoveConstruct, OwnersInv
<1>6. ASSUME NEW s \in Sockets, NEW other \in Sockets, Socket!MoveAssign(s, other) PROVE OwnersInv'
  BY <1>6 DEF Socket!MoveAssign, Socket!Closed, OwnersInv
<1>7. CASE UNCHANGED Socket!vars
  BY <1>7 DEF Socket!vars, OwnersInv
<1> QED BY <1>1, <1>2, <1>3, <1>4, <1>5, <1>6, <1>7 DEF Socket!Next

\* close, of an object that has a descriptor or none, is Release or nothing.
LEMMA ClosingReleases ==
  ASSUME OwnersInv, NEW s \in Sockets, Socket!Closed(s),
         m_socket' = [m_socket EXCEPT ![s] = INVALID_SOCKET]
  PROVE  Socket!Owner!Release(s) \/ UNCHANGED <<m_socket, open_files>>
<1>1. CASE m_socket[s] = INVALID_SOCKET
  BY <1>1, DescriptorAssumption DEF Socket!Closed, OwnersInv
<1>2. CASE m_socket[s] # INVALID_SOCKET
  BY <1>2 DEF Socket!Closed, Socket!Owner!Release
<1> QED BY <1>1, <1>2

\* Every operation on objects is one on owners, or none.
LEMMA StepOwns ==
  ASSUME OwnersInv, [Socket!Next]_(Socket!vars)
  PROVE  [Socket!Owner!Next]_<<m_socket, open_files>>
<1>1. ASSUME NEW s \in Sockets, Socket!Construct(s) PROVE UNCHANGED <<m_socket, open_files>>
  BY <1>1 DEF Socket!Construct, OwnersInv
<1>2. ASSUME NEW s \in Sockets, Socket!Destroy(s) \/ Socket!close(s)
      PROVE  Socket!Owner!Release(s) \/ UNCHANGED <<m_socket, open_files>>
  BY <1>2, ClosingReleases DEF Socket!Destroy, Socket!close
<1>3. ASSUME NEW s \in Sockets, Socket!open(s) \/ Socket!bind(s)
      PROVE  Socket!Owner!Acquire(s) \/ UNCHANGED <<m_socket, open_files>>
  BY <1>3 DEF Socket!open, Socket!bind, Socket!Open, Socket!is_open, Socket!Owner!Acquire
<1>4. ASSUME NEW s \in Sockets, NEW other \in Sockets, Socket!MoveConstruct(s, other)
      PROVE  Socket!Owner!Transfer(other, s)
  <2>1. s # other /\ m_socket[s] = INVALID_SOCKET
    BY <1>4 DEF Socket!MoveConstruct, OwnersInv
  <2>2. open_files' = open_files \ {m_socket[s]}
    BY <1>4, <2>1, DescriptorAssumption DEF Socket!MoveConstruct, OwnersInv
  <2> QED BY <1>4, <2>1, <2>2 DEF Socket!MoveConstruct, Socket!Owner!Transfer
<1>5. ASSUME NEW s \in Sockets, NEW other \in Sockets, Socket!MoveAssign(s, other)
      PROVE  Socket!Owner!Transfer(other, s) \/ UNCHANGED <<m_socket, open_files>>
  BY <1>5 DEF Socket!MoveAssign, Socket!Closed, Socket!Owner!Transfer
<1>6. CASE UNCHANGED Socket!vars
  BY <1>6 DEF Socket!vars
<1>7. CASE Socket!Next
  <2>1. CASE \E s \in Sockets : \/ Socket!Construct(s) \/ Socket!Destroy(s)
                                 \/ Socket!open(s) \/ Socket!bind(s) \/ Socket!close(s)
    BY <2>1, <1>1, <1>2, <1>3 DEF Socket!Owner!Next
  <2>2. CASE \E s, other \in Sockets : Socket!MoveConstruct(s, other) \/ Socket!MoveAssign(s, other)
    BY <2>2, <1>4, <1>5 DEF Socket!Owner!Next
  <2> QED BY <1>7, <2>1, <2>2 DEF Socket!Next
<1> QED BY <1>6, <1>7

\* UdpSocket implements UniqueOwner: for any objects and descriptors, and any order of
\* constructions, moves (onto itself too), opens, closes and destructions, a
\* descriptor passes whole and is closed once (udp_socket.cpp:46-122).
THEOREM SocketsOwnUniquely == SocketRuns => Socket!OwnsUniquely
<1>1. Socket!Init => OwnersInv /\ Socket!Owner!Init
  BY DEF Socket!Init, OwnersInv, Socket!Owner!Init
<1>2. OwnersInv /\ [Socket!Next]_(Socket!vars) => OwnersInv'
  BY StepKeepsOwners
<1>3. OwnersInv /\ [Socket!Next]_(Socket!vars) => [Socket!Owner!Next]_<<m_socket, open_files>>
  BY StepOwns
<1> QED BY <1>1, <1>2, <1>3, PTL DEF SocketRuns, Socket!OwnsUniquely, Socket!Owner!Spec

\* ... and of a promise kept so, that no two objects have one descriptor, and that what
\* is open is what some object has.
LEMMA OneOwnerStep ==
  ASSUME Socket!Owner!ExactlyOneOwner, OwnersInv, OwnersInv', [Socket!Owner!Next]_<<m_socket, open_files>>
  PROVE  Socket!Owner!ExactlyOneOwner'
<1>1. ASSUME NEW o \in Sockets, Socket!Owner!Acquire(o) PROVE Socket!Owner!ExactlyOneOwner'
  <2>1. PICK fd \in Descriptors \ open_files :
          m_socket' = [m_socket EXCEPT ![o] = fd] /\ open_files' = open_files \cup {fd}
    BY <1>1 DEF Socket!Owner!Acquire
  <2>2. fd # INVALID_SOCKET /\ m_socket[o] = INVALID_SOCKET
    BY <1>1, <2>1, DescriptorAssumption DEF Socket!Owner!Acquire
  <2>3. \A p \in Sockets : m_socket[p] # fd
    BY <2>1, <2>2 DEF Socket!Owner!ExactlyOneOwner
  <2>4. \A p \in Sockets : m_socket'[p] = IF p = o THEN fd ELSE m_socket[p]
    BY <2>1 DEF OwnersInv
  <2> QED BY <2>1, <2>2, <2>3, <2>4 DEF Socket!Owner!ExactlyOneOwner
<1>2. ASSUME NEW o \in Sockets, Socket!Owner!Release(o) PROVE Socket!Owner!ExactlyOneOwner'
  <2>1. \A p \in Sockets : m_socket'[p] = IF p = o THEN INVALID_SOCKET ELSE m_socket[p]
    BY <1>2 DEF Socket!Owner!Release, OwnersInv
  <2> QED BY <1>2, <2>1 DEF Socket!Owner!Release, Socket!Owner!ExactlyOneOwner
<1>3. ASSUME NEW from \in Sockets, NEW to \in Sockets, Socket!Owner!Transfer(from, to)
      PROVE  Socket!Owner!ExactlyOneOwner'
  <2>1. \A p \in Sockets : m_socket'[p] = IF p = to THEN m_socket[from]
                                          ELSE IF p = from THEN INVALID_SOCKET ELSE m_socket[p]
    BY <1>3 DEF Socket!Owner!Transfer, OwnersInv
  <2>2. from # to /\ open_files' = open_files \ {m_socket[to]}
    BY <1>3 DEF Socket!Owner!Transfer
  <2>3. ASSUME NEW o \in Sockets, NEW p \in Sockets,
               m_socket'[o] = m_socket'[p], m_socket'[o] # INVALID_SOCKET
        PROVE  o = p
    BY <2>1, <2>2, <2>3 DEF Socket!Owner!ExactlyOneOwner
  <2>4. ASSUME NEW fd PROVE fd \in open_files' <=> /\ fd # INVALID_SOCKET
                                                  /\ \E o \in Sockets : fd = m_socket'[o]
    <3>1. CASE fd = m_socket[to]
      BY <3>1, <2>1, <2>2 DEF Socket!Owner!ExactlyOneOwner
    <3>2. CASE fd # m_socket[to]
      BY <3>2, <2>1, <2>2 DEF Socket!Owner!ExactlyOneOwner
    <3> QED BY <3>1, <3>2
  <2>5. open_files' = {m_socket'[o] : o \in Sockets} \ {INVALID_SOCKET}
    BY <2>4
  <2> QED BY <2>3, <2>5 DEF Socket!Owner!ExactlyOneOwner
<1>4. CASE UNCHANGED <<m_socket, open_files>>
  BY <1>4 DEF Socket!Owner!ExactlyOneOwner
<1> QED BY <1>1, <1>2, <1>3, <1>4 DEF Socket!Owner!Next

\* At every moment no descriptor has two objects, none is open that no object has, and
\* none is had that is not open (udp_socket.cpp:46-122).
THEOREM SocketsAreExact == SocketRuns => []Socket!Owner!ExactlyOneOwner
<1>1. Socket!Init => OwnersInv /\ Socket!Owner!ExactlyOneOwner
  BY DEF Socket!Init, OwnersInv, Socket!Owner!ExactlyOneOwner
<1>2. OwnersInv /\ Socket!Owner!ExactlyOneOwner /\ [Socket!Next]_(Socket!vars)
        => (OwnersInv /\ Socket!Owner!ExactlyOneOwner)'
  BY StepKeepsOwners, StepOwns, OneOwnerStep
<1> QED BY <1>1, <1>2, PTL DEF SocketRuns

-----------------------------------------------------------------------------
(* CoroutineTask                                                             *)

TaskInv ==
  /\ coro_ \in [Tasks -> Frames \cup {NoFrame}] /\ coroutine_frames \subseteq Frames
  /\ progress \in [Frames -> {"suspended", "thrown", "moved_from"}]
  /\ answer \in {"none", "value", "moved_from", "exception"}

\* Every operation keeps the shape of the state.
LEMMA StepKeepsTasks ==
  ASSUME TaskInv, [Task!Next]_(Task!vars)
  PROVE  TaskInv'
<1>1. ASSUME NEW t \in Tasks, Task!get_return_object(t) PROVE TaskInv'
  BY <1>1 DEF Task!get_return_object, TaskInv
<1>2. ASSUME NEW t \in Tasks, Task!destroy(t) PROVE TaskInv'
  BY <1>2 DEF Task!destroy, TaskInv
<1>3. ASSUME NEW t \in Tasks, Task!get(t) PROVE TaskInv'
  <2>1. UNCHANGED <<coro_, coroutine_frames>>
    BY <1>3 DEF Task!get
  <2>2. CASE coro_[t] = NoFrame /\ answer' = "exception" /\ UNCHANGED progress
    BY <2>1, <2>2 DEF TaskInv
  <2>3. CASE coro_[t] # NoFrame
    <3>1. coro_[t] \in Frames
      BY <2>3 DEF TaskInv
    <3>2. progress[coro_[t]] \in {"suspended", "thrown", "moved_from"}
      BY <3>1 DEF TaskInv
    <3>3. PICK done \in {"value", "thrown", "moved_from"} :
            /\ answer' = IF done = "thrown" THEN "exception" ELSE done
            /\ progress' = [progress EXCEPT
                 ![coro_[t]] = IF done = "thrown" THEN done ELSE "moved_from"]
      BY <1>3, <2>3, <3>2 DEF Task!get
    <3>4. progress' \in [Frames -> {"suspended", "thrown", "moved_from"}]
      BY <3>1, <3>3 DEF TaskInv
    <3>5. answer' \in {"none", "value", "moved_from", "exception"}
      BY <3>3
    <3> QED BY <2>1, <3>4, <3>5 DEF TaskInv
  <2> QED BY <1>3, <2>2, <2>3 DEF Task!get
<1>4. ASSUME NEW t \in Tasks, NEW other \in Tasks,
             Task!MoveConstruct(t, other) \/ Task!MoveAssign(t, other)
      PROVE  TaskInv'
  BY <1>4 DEF Task!MoveConstruct, Task!MoveAssign, TaskInv
<1>5. CASE UNCHANGED Task!vars
  BY <1>5 DEF Task!vars, TaskInv
<1> QED BY <1>1, <1>2, <1>3, <1>4, <1>5 DEF Task!Next

\* ... and is one on owners of frames, or none.
LEMMA StepOwnsFrames ==
  ASSUME TaskInv, [Task!Next]_(Task!vars)
  PROVE  [Task!Owner!Next]_<<coro_, coroutine_frames>>
<1>1. ASSUME NEW t \in Tasks, Task!get_return_object(t) PROVE Task!Owner!Acquire(t)
  BY <1>1 DEF Task!get_return_object, Task!Owner!Acquire
<1>2. ASSUME NEW t \in Tasks, Task!destroy(t)
      PROVE  Task!Owner!Release(t) \/ UNCHANGED <<coro_, coroutine_frames>>
  <2>1. CASE coro_[t] = NoFrame
    BY <1>2, <2>1, NoFrameAssumption DEF Task!destroy, TaskInv
  <2>2. CASE coro_[t] # NoFrame
    BY <1>2, <2>2 DEF Task!destroy, Task!Owner!Release
  <2> QED BY <2>1, <2>2
<1>3. ASSUME NEW t \in Tasks, Task!get(t) PROVE UNCHANGED <<coro_, coroutine_frames>>
  BY <1>3 DEF Task!get
<1>4. ASSUME NEW t \in Tasks, NEW other \in Tasks, Task!MoveConstruct(t, other)
      PROVE  Task!Owner!Transfer(other, t)
  <2>1. coroutine_frames' = coroutine_frames \ {coro_[t]}
    BY <1>4, NoFrameAssumption DEF Task!MoveConstruct, TaskInv
  <2> QED BY <1>4, <2>1 DEF Task!MoveConstruct, Task!Owner!Transfer
<1>5. ASSUME NEW t \in Tasks, NEW other \in Tasks, Task!MoveAssign(t, other)
      PROVE  Task!Owner!Transfer(other, t) \/ UNCHANGED <<coro_, coroutine_frames>>
  BY <1>5 DEF Task!MoveAssign, Task!Owner!Transfer
<1>6. CASE UNCHANGED Task!vars
  BY <1>6 DEF Task!vars
<1>7. CASE Task!Next
  <2>1. CASE \E t \in Tasks : Task!get_return_object(t) \/ Task!destroy(t) \/ Task!get(t)
    BY <2>1, <1>1, <1>2, <1>3 DEF Task!Owner!Next
  <2>2. CASE \E t, other \in Tasks : Task!MoveConstruct(t, other) \/ Task!MoveAssign(t, other)
    BY <2>2, <1>4, <1>5 DEF Task!Owner!Next
  <2> QED BY <1>7, <2>1, <2>2 DEF Task!Next
<1> QED BY <1>6, <1>7

\* Task implements UniqueOwner: a coroutine's frame has one owner and is destroyed once,
\* for any objects and frames (coroutine_types.ixx:20-59).
LEMMA TasksOwnUniquely == TaskRuns => Task!OwnsUniquely
<1>1. Task!Init => TaskInv /\ Task!Owner!Init
  BY DEF Task!Init, TaskInv, Task!Owner!Init
<1>2. TaskInv /\ [Task!Next]_(Task!vars) => TaskInv'
  BY StepKeepsTasks
<1>3. TaskInv /\ [Task!Next]_(Task!vars) => [Task!Owner!Next]_<<coro_, coroutine_frames>>
  BY StepOwnsFrames
<1> QED BY <1>1, <1>2, <1>3, PTL DEF TaskRuns, Task!OwnsUniquely, Task!Owner!Spec

\* Both classes that own a handle keep the promise of UniqueOwner
\* (udp_socket.cpp:46-122, coroutine_types.ixx:20-59).
THEOREM HandlesAreAlwaysOwned == MCSpec => HandlesAreOwned
<1> QED BY EachRuns, SocketsOwnUniquely, TasksOwnUniquely, PTL DEF HandlesAreOwned

-----------------------------------------------------------------------------
(* StreamingServer                                                           *)

RelayShape ==
  /\ files \in [FDs -> {"free", "listener", "metrics", "upstream"} \cup Relay!Visitors]
  /\ handler \in [Relay!Visitors -> {"none", "enter", "check", "recv", "open", "ask",
                                     "erase", "close", "request", "done"}]
  /\ socket \in [Relay!Visitors -> FDs \cup {Relay!NoSocket}]
  /\ local_socket \in [Clients -> FDs \cup {Relay!NoSocket}]
  /\ peer \in [Relay!Visitors -> {"away", "queued", "connected", "left", "gone"}]
  /\ m_clients \in Seq(FDs)
  /\ m_running \in BOOLEAN
  /\ m_server_socket \in FDs \cup {Relay!NoSocket}
  /\ main \in {"idle", "running", "join_server", "join_metrics", "close", "stopped"}
  /\ acceptor \in {"off", "check", "accept"}
  /\ metrics \in {"off", "open", "check", "accept"}

NobodyServed ==
  acceptor = "off" /\ metrics = "off" /\ \A v \in Relay!Visitors : handler[v] = "none"

\* The descriptor stop closes is the listener's, or start failed and nobody has any.
ServerOwned ==
  /\ main = "idle" => NobodyServed /\ \A f \in FDs : files[f] = "free"
  /\ main \in {"running", "join_server", "join_metrics", "close"} =>
       /\ m_server_socket \in FDs
       /\ files[m_server_socket] = "listener" \/ (main # "running" /\ NobodyServed)

\* A thread that is under way has its connection, and while it waits for the RTSP
\* server the one to it, for itself.
ThreadsOwn ==
  /\ \A v \in Relay!Visitors : peer[v] \in {"away", "queued"} => handler[v] = "none"
  /\ \A v \in Relay!Visitors : handler[v] \notin {"none", "done"} =>
       socket[v] \in FDs /\ files[socket[v]] = v
  /\ \A c \in Clients : handler[c] = "ask" =>
       local_socket[c] \in FDs /\ files[local_socket[c]] = "upstream"
  /\ \A c, d \in Clients :
       handler[c] = "ask" /\ handler[d] = "ask" /\ local_socket[c] = local_socket[d] => c = d

\* The clients with an entry are those whose threads are between entering and erasing.
Served == {c \in Clients : handler[c] \in {"check", "recv", "open", "ask", "erase"}}

EntriesMatch ==
  /\ \A c \in Clients : handler[c] # "request"
  /\ \A b \in Browsers : handler[b] \in {"none", "request", "done"}
  /\ \A i, j \in 1 .. Len(m_clients) : m_clients[i] = m_clients[j] => i = j
  /\ \A i \in 1 .. Len(m_clients) : \E c \in Served : m_clients[i] = socket[c]
  /\ \A c \in Served : \E i \in 1 .. Len(m_clients) : m_clients[i] = socket[c]

RelayInv == RelayShape /\ ServerOwned /\ ThreadsOwn /\ EntriesMatch

\* The descriptor the system gives out next is free.
LEMMA LowestIsFree ==
  ASSUME Relay!Free # {}
  PROVE  Relay!LowestFree \in FDs /\ files[Relay!LowestFree] = "free"
<1> DEFINE R == OpToRel(<, Nat)
<1>1. IsWellFoundedOn(R, Nat)
  BY NatLessThanWellFounded
<1>2. \A m, n \in Nat : <<n, m>> \in R <=> n < m
  BY DEF OpToRel
<1> HIDE DEF R
<1>3. Relay!Free \subseteq Nat
  BY RelayAssumption DEF Relay!Free
<1>4. PICK m \in Relay!Free : \A n \in Relay!Free : ~(<<n, m>> \in R)
  BY <1>1, <1>3, WFMin
<1>5. \A n \in Relay!Free : m <= n
  <2> TAKE n \in Relay!Free
  <2>1. m \in Nat /\ n \in Nat
    BY <1>3
  <2>2. ~(n < m)
    BY <1>2, <1>4, <2>1
  <2> QED BY <2>1, <2>2
<1>6. Relay!LowestFree \in Relay!Free
  BY <1>5 DEF Relay!LowestFree
<1> QED BY <1>6 DEF Relay!Free

\* Opening takes nothing from anybody, and closing only the descriptor that is closed.
LEMMA OpeningKeeps ==
  ASSUME RelayShape, Relay!Free # {}, NEW what, files' = Relay!Opened(what)
  PROVE  /\ Relay!LowestFree \in FDs
         /\ files[Relay!LowestFree] = "free" /\ files'[Relay!LowestFree] = what
         /\ \A f \in FDs : files[f] # "free" => files'[f] = files[f]
         /\ \A f \in FDs : f # Relay!LowestFree => files'[f] = files[f]
         /\ what \in {"listener", "metrics", "upstream"} \cup Relay!Visitors =>
              files' \in [FDs -> {"free", "listener", "metrics", "upstream"} \cup Relay!Visitors]
BY LowestIsFree DEF Relay!Opened, RelayShape

LEMMA ClosingKeeps ==
  ASSUME RelayShape, NEW fd, files' = Relay!ClosedFile(fd)
  PROVE  /\ \A f \in FDs : f # fd => files'[f] = files[f]
         /\ files' \in [FDs -> {"free", "listener", "metrics", "upstream"} \cup Relay!Visitors]
BY DEF Relay!ClosedFile, RelayShape

\* What is open for a visitor is nothing else.
LEMMA VisitorsAreNoFiles ==
  ASSUME NEW v \in Relay!Visitors
  PROVE  v \notin {"free", "listener", "metrics", "upstream"}
BY RelayAssumption DEF Relay!Visitors

\* The table fits as long as no thread of a client comes to or leaves its part of it.
LEMMA EntriesKept ==
  ASSUME EntriesMatch, UNCHANGED m_clients, Served' = Served,
         \A c \in Served : socket'[c] = socket[c],
         \A c \in Clients : handler'[c] # "request",
         \A b \in Browsers : handler'[b] \in {"none", "request", "done"}
  PROVE  EntriesMatch'
<1>1. \A i \in 1 .. Len(m_clients') : \E c \in Served' : m_clients'[i] = socket'[c]
  BY DEF EntriesMatch
<1>2. \A c \in Served' : \E i \in 1 .. Len(m_clients') : m_clients'[i] = socket'[c]
  BY DEF EntriesMatch
<1> QED BY <1>1, <1>2 DEF EntriesMatch

\* main and the loops, as long as they accept nobody.
LEMMA MainKeepsRelay ==
  ASSUME RelayInv, Relay!start \/ Relay!stop
  PROVE  RelayInv'
<1>0. RelayShape /\ ServerOwned /\ ThreadsOwn /\ EntriesMatch
  BY DEF RelayInv
<1>1. UNCHANGED <<m_clients, local_socket, handler, socket>>
  BY DEF Relay!start, Relay!stop, Relay!relay
<1>2. EntriesMatch'
  BY <1>0, <1>1 DEF EntriesMatch, Served
<1>3. CASE Relay!start
  <2>1. main = "idle" /\ NobodyServed /\ (\A f \in FDs : files[f] = "free") /\ UNCHANGED peer
    BY <1>0, <1>3 DEF Relay!start, ServerOwned
  <2>2. Relay!Free # {}
    BY <2>1, RelayAssumption DEF Relay!Free
  <2>3. Relay!LowestFree \in FDs
    BY <2>2, LowestIsFree
  <2>4. CASE Relay!StartFails
    <3>1. RelayShape'
      BY <1>0, <1>1, <2>1, <2>3, <2>4 DEF Relay!StartFails, RelayShape
    <3>2. ServerOwned'
      BY <1>1, <2>1, <2>3, <2>4 DEF Relay!StartFails, ServerOwned, NobodyServed
    <3>3. ThreadsOwn'
      BY <1>0, <1>1, <2>1, <2>4 DEF Relay!StartFails, ThreadsOwn
    <3> QED BY <1>2, <3>1, <3>2, <3>3 DEF RelayInv
  <2>5. CASE Relay!StartSucceeds
    <3>1. files' = Relay!Opened("listener")
      BY <2>5 DEF Relay!StartSucceeds
    <3>2. RelayShape'
      BY <1>0, <1>1, <2>1, <2>2, <2>3, <2>5, <3>1, OpeningKeeps DEF Relay!StartSucceeds, RelayShape
    <3>3. ServerOwned'
      BY <1>0, <2>2, <2>3, <2>5, <3>1, OpeningKeeps DEF Relay!StartSucceeds, ServerOwned
    <3>4. ThreadsOwn'
      <4>1. \A v \in Relay!Visitors : handler'[v] = "none"
        BY <1>1, <2>1 DEF NobodyServed
      <4>2. \A c \in Clients : handler'[c] = "none"
        BY <4>1 DEF Relay!Visitors
      <4> QED BY <4>1, <4>2 DEF ThreadsOwn
    <3> QED BY <1>2, <3>2, <3>3, <3>4 DEF RelayInv
  <2> QED BY <1>3, <2>4, <2>5 DEF Relay!start
<1>4. CASE (Relay!StopBegins \/ Relay!StopJoins) /\ UNCHANGED peer
  <2>1. UNCHANGED files
    BY <1>4 DEF Relay!StopBegins, Relay!StopJoins
  <2>2. RelayShape'
    BY <1>0, <1>1, <1>4, <2>1 DEF Relay!StopBegins, Relay!StopJoins, RelayShape
  <2>3. ServerOwned'
    BY <1>0, <1>1, <1>4, <2>1 DEF Relay!StopBegins, Relay!StopJoins, ServerOwned, NobodyServed
  <2>4. ThreadsOwn'
    BY <1>0, <1>1, <1>4, <2>1 DEF ThreadsOwn
  <2> QED BY <1>2, <2>2, <2>3, <2>4 DEF RelayInv
<1>5. CASE Relay!StopEnds
  <2>1. /\ main = "close" /\ main' = "stopped" /\ files' = Relay!ClosedFile(m_server_socket)
        /\ m_server_socket' = Relay!NoSocket /\ UNCHANGED <<m_running, acceptor, metrics>>
        /\ peer' = [v \in Relay!Visitors |->
                     IF v \in Clients /\ peer[v] = "queued" THEN "gone" ELSE peer[v]]
    BY <1>5 DEF Relay!StopEnds
  <2>2. RelayShape'
    BY <1>0, <1>1, <2>1, ClosingKeeps DEF RelayShape
  <2>3. ServerOwned'
    BY <2>1 DEF ServerOwned
  <2>4. \A v \in Relay!Visitors : peer'[v] \in {"away", "queued"} => handler'[v] = "none"
    BY <1>0, <1>1, <2>1 DEF ThreadsOwn
  <2>5. CASE NobodyServed
    <3>1. \A v \in Relay!Visitors : handler'[v] = "none"
      BY <1>1, <2>5 DEF NobodyServed
    <3>2. \A c \in Clients : handler'[c] = "none"
      BY <3>1 DEF Relay!Visitors
    <3> QED BY <1>2, <2>2, <2>3, <3>1, <3>2 DEF RelayInv, ThreadsOwn
  <2>6. CASE files[m_server_socket] = "listener"
    <3>1. \A f \in FDs : f # m_server_socket => files'[f] = files[f]
      BY <1>0, <2>1, ClosingKeeps
    <3>2. \A v \in Relay!Visitors : handler[v] \notin {"none", "done"} => files'[socket[v]] = v
      BY <1>0, <2>6, <3>1, VisitorsAreNoFiles DEF ThreadsOwn
    <3>3. \A c \in Clients : handler[c] = "ask" => files'[local_socket[c]] = "upstream"
      BY <1>0, <2>6, <3>1 DEF ThreadsOwn
    <3>4. ThreadsOwn'
      BY <1>0, <1>1, <2>4, <3>2, <3>3 DEF ThreadsOwn
    <3> QED BY <1>2, <2>2, <2>3, <3>4 DEF RelayInv
  <2> QED BY <1>0, <2>1, <2>5, <2>6 DEF ServerOwned
<1> QED BY <1>3, <1>4, <1>5 DEF Relay!stop

\* A visitor that is accepted gets a descriptor nobody has.
LEMMA AcceptKeepsRelay ==
  ASSUME RelayInv, NEW v \in Relay!Visitors, NEW where, Relay!Accept(v, where),
         UNCHANGED <<m_clients, local_socket>>,
         (acceptor = "accept" /\ acceptor' = "check" /\ UNCHANGED metrics
            /\ v \in Clients /\ where = "enter")
         \/ (metrics = "accept" /\ metrics' = "check" /\ UNCHANGED acceptor
               /\ v \in Browsers /\ where = "request")
  PROVE  RelayInv'
<1>0. RelayShape /\ ServerOwned /\ ThreadsOwn /\ EntriesMatch
  BY DEF RelayInv
<1>1. UNCHANGED <<m_running, m_server_socket, main>> /\ peer[v] = "queued" /\ ~NobodyServed
  BY DEF Relay!Accept, NobodyServed
<1>2. handler[v] = "none"
  BY <1>0, <1>1 DEF ThreadsOwn
<1>3. main # "idle"
  BY <1>0, <1>1 DEF ServerOwned
<1>4. CASE UNCHANGED <<socket, files, handler>>
  <2>1. peer' = [peer EXCEPT ![v] = "gone"] \/ UNCHANGED peer
    BY <1>4, <1>0, <1>2 DEF Relay!Accept, RelayShape
  <2>2. RelayShape'
    BY <1>0, <1>1, <1>4, <2>1 DEF RelayShape
  <2>3. ServerOwned'
    BY <1>0, <1>1, <1>3, <1>4 DEF ServerOwned
  <2>4. ThreadsOwn'
    BY <1>0, <1>4, <2>1 DEF ThreadsOwn, RelayShape
  <2>5. EntriesMatch'
    BY <1>0, <1>4 DEF EntriesMatch, Served
  <2> QED BY <2>2, <2>3, <2>4, <2>5 DEF RelayInv
<1>5. CASE /\ Relay!Free # {}
           /\ socket' = [socket EXCEPT ![v] = Relay!LowestFree]
           /\ files' = Relay!Opened(v)
           /\ handler' = [handler EXCEPT ![v] = where]
           /\ peer' = [peer EXCEPT ![v] = "connected"]
  <2>1. /\ Relay!LowestFree \in FDs /\ files'[Relay!LowestFree] = v
        /\ \A f \in FDs : files[f] # "free" => files'[f] = files[f]
        /\ files' \in [FDs -> {"free", "listener", "metrics", "upstream"} \cup Relay!Visitors]
    BY <1>0, <1>5, OpeningKeeps
  <2>2. RelayShape'
    BY <1>0, <1>1, <1>5, <2>1 DEF RelayShape
  <2>3. ServerOwned'
    BY <1>0, <1>1, <1>3, <2>1 DEF ServerOwned
  <2>4. ThreadsOwn'
    <3>1. /\ \A u \in Relay!Visitors : u # v => socket'[u] = socket[u] /\ handler'[u] = handler[u]
                                                 /\ peer'[u] = peer[u]
          /\ socket'[v] = Relay!LowestFree /\ handler'[v] = where /\ peer'[v] = "connected"
      BY <1>0, <1>5 DEF RelayShape
    <3>2. \A u \in Relay!Visitors : handler'[u] \notin {"none", "done"} =>
            socket'[u] \in FDs /\ files'[socket'[u]] = u
      BY <1>0, <2>1, <3>1, VisitorsAreNoFiles DEF ThreadsOwn
    <3>3. \A c \in Clients : c \in Relay!Visitors /\ (handler'[c] = "ask" => handler[c] = "ask")
      BY <3>1 DEF Relay!Visitors
    <3>4. \A c \in Clients : handler'[c] = "ask" =>
            local_socket'[c] \in FDs /\ files'[local_socket'[c]] = "upstream"
      BY <1>0, <2>1, <3>3 DEF ThreadsOwn
    <3>5. \A c, d \in Clients :
            handler'[c] = "ask" /\ handler'[d] = "ask" /\ local_socket'[c] = local_socket'[d] => c = d
      BY <1>0, <3>3 DEF ThreadsOwn
    <3>6. \A u \in Relay!Visitors : peer'[u] \in {"away", "queued"} => handler'[u] = "none"
      BY <1>0, <3>1 DEF ThreadsOwn
    <3> QED BY <3>2, <3>4, <3>5, <3>6 DEF ThreadsOwn
  <2>5. EntriesMatch'
    <3>1. \A u \in Relay!Visitors : u # v => handler'[u] = handler[u] /\ socket'[u] = socket[u]
      BY <1>0, <1>5 DEF RelayShape
    <3>2. handler'[v] = where /\ where \in {"enter", "request"}
      BY <1>0, <1>5 DEF RelayShape
    <3>3. \A u \in Clients \cup Browsers : u \in Relay!Visitors
      BY DEF Relay!Visitors
    <3>4. Served' = Served /\ v \notin Served
      BY <1>2, <3>1, <3>2, <3>3 DEF Served
    <3>5. \A c \in Clients : handler'[c] # "request"
      BY <1>0, <3>1, <3>2, <3>3, RelayAssumption DEF EntriesMatch
    <3>6. \A b \in Browsers : handler'[b] \in {"none", "request", "done"}
      BY <1>0, <3>1, <3>2, <3>3, RelayAssumption DEF EntriesMatch
    <3>7. \A c \in Served : socket'[c] = socket[c]
      BY <3>1, <3>3, <3>4 DEF Served
    <3> QED BY <1>0, <3>4, <3>5, <3>6, <3>7, EntriesKept
  <2> QED BY <2>2, <2>3, <2>4, <2>5 DEF RelayInv
<1> QED BY <1>4, <1>5 DEF Relay!Accept

\* What the steps of a client's thread have in common.
LEMMA HandlerGoes ==
  ASSUME RelayShape, NEW v \in Relay!Visitors, NEW from, NEW to, Relay!Goes(v, from, to)
  PROVE  /\ handler[v] = from /\ handler'[v] = to
         /\ \A u \in Relay!Visitors : u # v => handler'[u] = handler[u]
         /\ handler' = [handler EXCEPT ![v] = to]
BY DEF Relay!Goes, RelayShape

\* Between entering and erasing a client's thread keeps its entry.
LEMMA GoingKeepsEntries ==
  ASSUME RelayShape, EntriesMatch, UNCHANGED <<m_clients, socket>>, NEW c \in Clients,
         NEW from \in {"check", "recv", "open", "ask"},
         NEW to \in {"check", "recv", "open", "ask", "erase"}, Relay!Goes(c, from, to)
  PROVE  EntriesMatch'
<1>0. \A u \in Clients \cup Browsers : u \in Relay!Visitors
  BY DEF Relay!Visitors
<1>1. /\ handler[c] = from /\ handler'[c] = to
      /\ \A u \in Relay!Visitors : u # c => handler'[u] = handler[u]
  BY <1>0, HandlerGoes
<1>2. Served' = Served
  BY <1>0, <1>1 DEF Served
<1>3. \A b \in Browsers : b # c
  BY RelayAssumption
<1>4. \A b \in Browsers : handler'[b] \in {"none", "request", "done"}
  BY <1>0, <1>1, <1>3 DEF EntriesMatch
<1>5. \A d \in Clients : handler'[d] # "request"
  BY <1>0, <1>1 DEF EntriesMatch
<1> QED BY <1>2, <1>4, <1>5, EntriesKept

\* A step of a thread that leaves all descriptors alone.
LEMMA GoingKeepsOwners ==
  ASSUME RelayShape, ServerOwned, ThreadsOwn,
         UNCHANGED <<Relay!loops, local_socket, socket, files, peer>>,
         NEW v \in Relay!Visitors, NEW from,
         NEW to \in {"check", "recv", "open", "erase", "close"},
         from \notin {"none", "done"}, Relay!Goes(v, from, to)
  PROVE  ServerOwned' /\ ThreadsOwn'
<1>1. /\ handler[v] = from /\ handler'[v] = to
      /\ \A u \in Relay!Visitors : u # v => handler'[u] = handler[u]
  BY HandlerGoes
<1>2. UNCHANGED <<m_running, m_server_socket, main, acceptor, metrics>>
  BY DEF Relay!loops
<1>3. ~NobodyServed
  BY <1>1 DEF NobodyServed
<1>4. ServerOwned'
  BY <1>2, <1>3 DEF ServerOwned
<1>5. \A c \in Clients : handler'[c] = "ask" => handler[c] = "ask"
  BY <1>1 DEF Relay!Visitors
<1>6. ThreadsOwn'
  BY <1>1, <1>5 DEF ThreadsOwn
<1> QED BY <1>4, <1>6

\* handle_client on entering: one entry more, for a connection that had none.
LEMMA EnterKeepsRelay ==
  ASSUME RelayInv, NEW c \in Clients, Relay!Enter(c), UNCHANGED <<Relay!loops, socket>>
  PROVE  RelayInv'
<1>0. RelayShape /\ ServerOwned /\ ThreadsOwn /\ EntriesMatch
  BY DEF RelayInv
<1>1. c \in Relay!Visitors /\ \A u \in Clients \cup Browsers : u \in Relay!Visitors
  BY DEF Relay!Visitors
<1>2. /\ Relay!Goes(c, "enter", "check") /\ m_clients' = Append(m_clients, socket[c])
      /\ UNCHANGED <<local_socket, files, peer>>
  BY DEF Relay!Enter
<1>3. /\ handler[c] = "enter" /\ handler'[c] = "check"
      /\ \A u \in Relay!Visitors : u # c => handler'[u] = handler[u]
      /\ handler' = [handler EXCEPT ![c] = "check"]
  BY <1>0, <1>1, <1>2, HandlerGoes
<1>4. ServerOwned' /\ ThreadsOwn'
  BY <1>0, <1>1, <1>2, GoingKeepsOwners
<1>5. socket[c] \in FDs /\ files[socket[c]] = c
  BY <1>0, <1>1, <1>3 DEF ThreadsOwn
<1>6. PICK n \in Nat : n = Len(m_clients)
  BY <1>0, LenProperties DEF RelayShape
<1>7. /\ m_clients' \in Seq(FDs) /\ Len(m_clients') = n + 1
      /\ \A i \in 1 .. n : m_clients'[i] = m_clients[i]
      /\ m_clients'[n + 1] = socket[c]
  BY <1>0, <1>2, <1>5, <1>6, AppendProperties DEF RelayShape
<1>8. RelayShape'
  BY <1>0, <1>1, <1>2, <1>3, <1>7 DEF RelayShape, Relay!loops
<1>9. Served' = Served \cup {c} /\ c \notin Served
  BY <1>1, <1>3 DEF Served
<1>10. \A d \in Served : socket[d] # socket[c]
  BY <1>0, <1>1, <1>5, <1>9 DEF ThreadsOwn, Served
<1>11. \A i \in 1 .. n : m_clients[i] # socket[c]
  BY <1>0, <1>6, <1>10 DEF EntriesMatch
<1>12. \A i \in 1 .. n + 1 : i \in 1 .. n \/ i = n + 1
  BY <1>6
<1>13. \A i, j \in 1 .. n + 1 : m_clients'[i] = m_clients'[j] => i = j
  BY <1>0, <1>6, <1>7, <1>11, <1>12 DEF EntriesMatch
<1>14. \A i \in 1 .. n + 1 : \E d \in Served' : m_clients'[i] = socket'[d]
  BY <1>0, <1>6, <1>7, <1>9, <1>12 DEF EntriesMatch
<1>15. \A d \in Served' : \E i \in 1 .. n + 1 : m_clients'[i] = socket'[d]
  <2>1. \A i \in 1 .. n : i \in 1 .. n + 1
    BY <1>6
  <2>2. n + 1 \in 1 .. n + 1
    BY <1>6
  <2> QED BY <1>0, <1>6, <1>7, <1>9, <2>1, <2>2 DEF EntriesMatch
<1>16. \A b \in Browsers : handler'[b] \in {"none", "request", "done"}
  BY <1>0, <1>1, <1>3, RelayAssumption DEF EntriesMatch
<1>17. \A d \in Clients : handler'[d] # "request"
  BY <1>0, <1>1, <1>3 DEF EntriesMatch
<1>18. EntriesMatch'
  BY <1>7, <1>13, <1>14, <1>15, <1>16, <1>17 DEF EntriesMatch
<1> QED BY <1>4, <1>8, <1>18 DEF RelayInv

\* ... and on leaving: its one entry goes, and the others stay.
LEMMA EraseKeepsRelay ==
  ASSUME RelayInv, NEW c \in Clients, Relay!Erase(c), UNCHANGED <<Relay!loops, socket>>
  PROVE  RelayInv'
<1>0. RelayShape /\ ServerOwned /\ ThreadsOwn /\ EntriesMatch
  BY DEF RelayInv
<1>1. c \in Relay!Visitors /\ \A u \in Clients \cup Browsers : u \in Relay!Visitors
  BY DEF Relay!Visitors
<1>2. Relay!Goes(c, "erase", "close") /\ UNCHANGED <<local_socket, files, peer>>
  BY DEF Relay!Erase
<1>3. /\ handler[c] = "erase" /\ handler'[c] = "close"
      /\ \A u \in Relay!Visitors : u # c => handler'[u] = handler[u]
      /\ handler' = [handler EXCEPT ![c] = "close"]
  BY <1>0, <1>1, <1>2, HandlerGoes
<1>4. ServerOwned' /\ ThreadsOwn'
  BY <1>0, <1>1, <1>2, GoingKeepsOwners
<1>5. PICK n \in Nat : n = Len(m_clients) /\ DOMAIN m_clients = 1 .. n
                         /\ \A i \in 1 .. n : m_clients[i] \in FDs
  BY <1>0, LenProperties, ElementOfSeq DEF RelayShape
<1>6. PICK k \in 1 .. n : /\ m_clients[k] = socket[c]
                          /\ m_clients' = SubSeq(m_clients, 1, k - 1) \o SubSeq(m_clients, k + 1, n)
  BY <1>5 DEF Relay!Erase, Relay!RemoveAt
<1>7. PICK s : s = SubSeq(m_clients, 1, k - 1)
  OBVIOUS
<1>8. PICK t : t = SubSeq(m_clients, k + 1, n)
  OBVIOUS
<1>9. /\ s \in Seq(FDs) /\ Len(s) = k - 1 /\ \A i \in 1 .. k - 1 : s[i] = m_clients[i]
  <2>1. k - 1 \in Int /\ 1 \in Int /\ \A i \in 1 .. k - 1 : m_clients[i] \in FDs
    BY <1>5
  <2>2. /\ s \in Seq(FDs) /\ Len(s) = (IF 1 <= k - 1 THEN k - 1 - 1 + 1 ELSE 0)
        /\ \A i \in 1 .. k - 1 - 1 + 1 : s[i] = m_clients[1 + i - 1]
    BY <1>7, <2>1, SubSeqProperties
  <2>3. Len(s) = k - 1
    BY <1>5, <2>2
  <2>4. \A i \in 1 .. k - 1 : i \in 1 .. k - 1 - 1 + 1 /\ 1 + i - 1 = i
    BY <1>5
  <2> QED BY <2>2, <2>3, <2>4
<1>10. /\ t \in Seq(FDs) /\ Len(t) = n - k /\ \A i \in 1 .. n - k : t[i] = m_clients[k + i]
  <2>1. k + 1 \in Int /\ n \in Int /\ \A i \in k + 1 .. n : m_clients[i] \in FDs
    BY <1>5
  <2>2. /\ t \in Seq(FDs) /\ Len(t) = (IF k + 1 <= n THEN n - (k + 1) + 1 ELSE 0)
        /\ \A i \in 1 .. n - (k + 1) + 1 : t[i] = m_clients[k + 1 + i - 1]
    BY <1>8, <2>1, SubSeqProperties
  <2>3. \A i \in 1 .. n - k : i \in 1 .. n - (k + 1) + 1 /\ k + 1 + i - 1 = k + i
    BY <1>5
  <2> QED BY <1>5, <2>2, <2>3
<1>11. /\ m_clients' \in Seq(FDs) /\ Len(m_clients') = n - 1
       /\ \A i \in 1 .. n - 1 : m_clients'[i] = IF i < k THEN m_clients[i] ELSE m_clients[i + 1]
  <2>1. /\ m_clients' \in Seq(FDs) /\ Len(m_clients') = Len(s) + Len(t)
        /\ \A i \in 1 .. Len(s) + Len(t) :
             m_clients'[i] = IF i <= Len(s) THEN s[i] ELSE t[i - Len(s)]
    <3>1. m_clients' = s \o t
      BY <1>6, <1>7, <1>8
    <3>2. s \in Seq(FDs) /\ t \in Seq(FDs)
      BY <1>9, <1>10
    <3> QED BY <3>1, <3>2, ConcatProperties
  <2>2. Len(s) + Len(t) = n - 1
    BY <1>5, <1>9, <1>10
  <2>3. ASSUME NEW i \in 1 .. n - 1
        PROVE  m_clients'[i] = IF i < k THEN m_clients[i] ELSE m_clients[i + 1]
    <3>1. CASE i < k
      <4>1. i <= Len(s) /\ i \in 1 .. k - 1
        BY <1>5, <1>9, <3>1
      <4> QED BY <1>9, <2>1, <2>2, <3>1, <4>1
    <3>2. CASE ~(i < k)
      <4>1. ~(i <= Len(s)) /\ i - Len(s) \in 1 .. n - k /\ k + (i - Len(s)) = i + 1
        BY <1>5, <1>9, <3>2
      <4> QED BY <1>10, <2>1, <2>2, <3>2, <4>1
    <3> QED BY <3>1, <3>2
  <2> QED BY <2>1, <2>2, <2>3
<1>12. RelayShape'
  BY <1>0, <1>1, <1>2, <1>3, <1>11 DEF RelayShape, Relay!loops
<1>13. Served' = Served \ {c} /\ c \in Served
  BY <1>1, <1>3 DEF Served
<1>14. \A d \in Served : socket[d] = socket[c] => d = c
  BY <1>0, <1>1, <1>13 DEF ThreadsOwn, Served
<1>15. \A i \in 1 .. n - 1 : (IF i < k THEN i ELSE i + 1) \in (1 .. n) \ {k}
  BY <1>5
<1>16. \A i, j \in 1 .. n - 1 : m_clients'[i] = m_clients'[j] => i = j
  <2>1. \A i, j \in 1 .. n - 1 : (IF i < k THEN i ELSE i + 1) = (IF j < k THEN j ELSE j + 1) => i = j
    BY <1>5
  <2>2. \A i \in 1 .. n - 1 : m_clients'[i] = m_clients[IF i < k THEN i ELSE i + 1]
    BY <1>11
  <2>3. \A i, j \in 1 .. n : m_clients[i] = m_clients[j] => i = j
    BY <1>0, <1>5 DEF EntriesMatch
  <2> QED BY <1>15, <2>1, <2>2, <2>3
<1>17. \A i \in 1 .. n - 1 : \E d \in Served' : m_clients'[i] = socket'[d]
  <2> TAKE i \in 1 .. n - 1
  <2>1. PICK j \in (1 .. n) \ {k} : m_clients'[i] = m_clients[j]
    BY <1>11, <1>15
  <2>2. PICK d \in Served : m_clients[j] = socket[d]
    BY <1>0, <1>5, <2>1 DEF EntriesMatch
  <2>3. d # c
    BY <1>0, <1>5, <1>6, <2>1, <2>2 DEF EntriesMatch
  <2> QED BY <1>13, <2>1, <2>2, <2>3
<1>18. \A d \in Served' : \E i \in 1 .. n - 1 : m_clients'[i] = socket'[d]
  <2> TAKE d \in Served'
  <2>1. d \in Served /\ d # c
    BY <1>13
  <2>2. PICK j \in 1 .. n : m_clients[j] = socket[d]
    BY <1>0, <1>5, <2>1 DEF EntriesMatch
  <2>3. j # k
    BY <1>6, <1>14, <2>1, <2>2
  <2>4. PICK i \in 1 .. n - 1 : (IF i < k THEN i ELSE i + 1) = j
    <3>1. CASE j < k
      BY <1>5, <3>1
    <3>2. CASE j > k
      <4>1. j - 1 \in 1 .. n - 1 /\ ~(j - 1 < k) /\ (j - 1) + 1 = j
        BY <1>5, <3>2
      <4> QED BY <4>1
    <3> QED BY <1>5, <2>3, <3>1, <3>2
  <2>5. m_clients'[i] = m_clients[j]
    BY <1>11, <2>4
  <2> QED BY <2>2, <2>5
<1>19. \A b \in Browsers : handler'[b] \in {"none", "request", "done"}
  BY <1>0, <1>1, <1>3, RelayAssumption DEF EntriesMatch
<1>20. \A d \in Clients : handler'[d] # "request"
  BY <1>0, <1>1, <1>3 DEF EntriesMatch
<1>21. EntriesMatch'
  BY <1>11, <1>16, <1>17, <1>18, <1>19, <1>20 DEF EntriesMatch
<1> QED BY <1>4, <1>12, <1>21 DEF RelayInv

\* The connection to the RTSP server is opened for one request and closed after it.
LEMMA AskingKeepsRelay ==
  ASSUME RelayInv, NEW c \in Clients, Relay!OpenLocal(c) \/ Relay!Forward(c),
         UNCHANGED <<Relay!loops, socket>>
  PROVE  RelayInv'
<1>0. RelayShape /\ ServerOwned /\ ThreadsOwn /\ EntriesMatch
  BY DEF RelayInv
<1>1. c \in Relay!Visitors /\ \A u \in Clients \cup Browsers : u \in Relay!Visitors
  BY DEF Relay!Visitors
<1>2. UNCHANGED <<m_clients, peer, m_running, m_server_socket, main, acceptor, metrics>>
  BY DEF Relay!OpenLocal, Relay!Forward, Relay!loops
<1>3. CASE Relay!Goes(c, "open", "check") /\ UNCHANGED <<local_socket, files>>
  <2>1. ServerOwned' /\ ThreadsOwn'
    BY <1>0, <1>1, <1>2, <1>3, GoingKeepsOwners
  <2>2. EntriesMatch'
    BY <1>0, <1>2, <1>3, GoingKeepsEntries
  <2>3. RelayShape'
    BY <1>0, <1>1, <1>2, <1>3 DEF RelayShape, Relay!Goes
  <2> QED BY <2>1, <2>2, <2>3 DEF RelayInv
<1>4. CASE /\ Relay!Goes(c, "open", "ask") /\ Relay!Free # {}
           /\ local_socket' = [local_socket EXCEPT ![c] = Relay!LowestFree]
           /\ files' = Relay!Opened("upstream")
  <2>1. /\ Relay!LowestFree \in FDs /\ files[Relay!LowestFree] = "free"
        /\ files'[Relay!LowestFree] = "upstream"
        /\ \A f \in FDs : files[f] # "free" => files'[f] = files[f]
        /\ files' \in [FDs -> {"free", "listener", "metrics", "upstream"} \cup Relay!Visitors]
    BY <1>0, <1>4, OpeningKeeps
  <2>2. /\ handler[c] = "open" /\ handler'[c] = "ask"
        /\ \A u \in Relay!Visitors : u # c => handler'[u] = handler[u]
        /\ handler' = [handler EXCEPT ![c] = "ask"]
    BY <1>0, <1>1, <1>4, HandlerGoes
  <2>3. RelayShape'
    BY <1>0, <1>1, <1>2, <1>4, <2>1, <2>2 DEF RelayShape
  <2>4. EntriesMatch'
    BY <1>0, <1>2, <1>4, GoingKeepsEntries
  <2>5. ServerOwned'
    <3>1. ~NobodyServed
      BY <1>1, <2>2 DEF NobodyServed
    <3> QED BY <1>0, <1>2, <2>1, <3>1 DEF ServerOwned
  <2>6. ThreadsOwn'
    <3>1. \A v \in Relay!Visitors : peer'[v] \in {"away", "queued"} => handler'[v] = "none"
      BY <1>0, <1>1, <1>2, <2>2 DEF ThreadsOwn
    <3>2. \A v \in Relay!Visitors : handler'[v] \notin {"none", "done"} =>
            socket'[v] \in FDs /\ files'[socket'[v]] = v
      BY <1>0, <1>1, <2>1, <2>2, VisitorsAreNoFiles DEF ThreadsOwn
    <3>3. \A d \in Clients : d # c => local_socket'[d] = local_socket[d]
      BY <1>0, <1>4 DEF RelayShape
    <3>4. local_socket'[c] = Relay!LowestFree
      BY <1>0, <1>4 DEF RelayShape
    <3>5. \A d \in Clients : d # c /\ handler'[d] = "ask" =>
            /\ local_socket'[d] \in FDs /\ files'[local_socket'[d]] = "upstream"
            /\ local_socket'[d] # Relay!LowestFree
      BY <1>0, <1>1, <2>1, <2>2, <3>3 DEF ThreadsOwn
    <3>6. \A d \in Clients : handler'[d] = "ask" =>
            local_socket'[d] \in FDs /\ files'[local_socket'[d]] = "upstream"
      BY <2>1, <3>4, <3>5
    <3>7. \A d, e \in Clients :
            handler'[d] = "ask" /\ handler'[e] = "ask" /\ local_socket'[d] = local_socket'[e] => d = e
      BY <1>0, <1>1, <2>2, <3>3, <3>4, <3>5 DEF ThreadsOwn
    <3> QED BY <3>1, <3>2, <3>6, <3>7 DEF ThreadsOwn
  <2> QED BY <2>3, <2>4, <2>5, <2>6 DEF RelayInv
<1>5. CASE Relay!Forward(c)
  <2>1. /\ Relay!Goes(c, "ask", "check") /\ files' = Relay!ClosedFile(local_socket[c])
        /\ local_socket' = [local_socket EXCEPT ![c] = Relay!NoSocket]
    BY <1>5 DEF Relay!Forward
  <2>2. /\ handler[c] = "ask" /\ handler'[c] = "check"
        /\ \A u \in Relay!Visitors : u # c => handler'[u] = handler[u]
        /\ handler' = [handler EXCEPT ![c] = "check"]
    BY <1>0, <1>1, <2>1, HandlerGoes
  <2>3. /\ \A f \in FDs : f # local_socket[c] => files'[f] = files[f]
        /\ files' \in [FDs -> {"free", "listener", "metrics", "upstream"} \cup Relay!Visitors]
    BY <1>0, <2>1, ClosingKeeps
  <2>4. files[local_socket[c]] = "upstream" /\ local_socket[c] \in FDs
    BY <1>0, <2>2 DEF ThreadsOwn
  <2>5. RelayShape'
    BY <1>0, <1>1, <1>2, <2>1, <2>2, <2>3 DEF RelayShape
  <2>6. EntriesMatch'
    BY <1>0, <1>2, <2>1, GoingKeepsEntries
  <2>7. ServerOwned'
    <3>1. ~NobodyServed
      BY <1>1, <2>2 DEF NobodyServed
    <3> QED BY <1>0, <1>2, <2>3, <2>4, <3>1 DEF ServerOwned
  <2>8. ThreadsOwn'
    <3>1. \A v \in Relay!Visitors : peer'[v] \in {"away", "queued"} => handler'[v] = "none"
      BY <1>0, <1>1, <1>2, <2>2 DEF ThreadsOwn
    <3>2. \A v \in Relay!Visitors : handler'[v] \notin {"none", "done"} =>
            socket'[v] \in FDs /\ files'[socket'[v]] = v
      BY <1>0, <1>1, <2>2, <2>3, <2>4, VisitorsAreNoFiles DEF ThreadsOwn
    <3>3. \A d \in Clients : d # c => local_socket'[d] = local_socket[d]
      BY <1>0, <2>1 DEF RelayShape
    <3>4. \A d \in Clients : handler'[d] = "ask" => d # c /\ handler[d] = "ask"
      BY <1>1, <2>2
    <3>5. \A d \in Clients : handler'[d] = "ask" =>
            local_socket'[d] \in FDs /\ files'[local_socket'[d]] = "upstream"
      BY <1>0, <2>2, <2>3, <3>3, <3>4 DEF ThreadsOwn
    <3>6. \A d, e \in Clients :
            handler'[d] = "ask" /\ handler'[e] = "ask" /\ local_socket'[d] = local_socket'[e] => d = e
      BY <1>0, <3>3, <3>4 DEF ThreadsOwn
    <3> QED BY <3>1, <3>2, <3>5, <3>6 DEF ThreadsOwn
  <2> QED BY <2>5, <2>6, <2>7, <2>8 DEF RelayInv
<1> QED BY <1>3, <1>4, <1>5 DEF Relay!OpenLocal

\* A thread that ends gives back its own connection.
LEMMA CloseKeepsRelay ==
  ASSUME RelayInv, NEW v \in Relay!Visitors, NEW from,
         (v \in Clients /\ from = "close") \/ (v \in Browsers /\ from = "request"),
         Relay!Close(v, from), UNCHANGED <<Relay!loops, socket>>
  PROVE  RelayInv'
<1>0. RelayShape /\ ServerOwned /\ ThreadsOwn /\ EntriesMatch
  BY DEF RelayInv
<1>1. \A u \in Clients \cup Browsers : u \in Relay!Visitors
  BY DEF Relay!Visitors
<1>2. /\ Relay!Goes(v, from, "done") /\ files' = Relay!ClosedFile(socket[v])
      /\ peer' = [peer EXCEPT ![v] = "gone"] /\ UNCHANGED <<m_clients, local_socket>>
  BY DEF Relay!Close, Relay!relay
<1>3. /\ handler[v] = from /\ handler'[v] = "done"
      /\ \A u \in Relay!Visitors : u # v => handler'[u] = handler[u]
      /\ handler' = [handler EXCEPT ![v] = "done"]
  BY <1>0, <1>2, HandlerGoes
<1>4. UNCHANGED <<m_running, m_server_socket, main, acceptor, metrics>>
  BY DEF Relay!loops
<1>5. socket[v] \in FDs /\ files[socket[v]] = v
  BY <1>0, <1>3 DEF ThreadsOwn
<1>6. /\ \A f \in FDs : f # socket[v] => files'[f] = files[f]
      /\ files' \in [FDs -> {"free", "listener", "metrics", "upstream"} \cup Relay!Visitors]
  BY <1>0, <1>2, ClosingKeeps
<1>7. RelayShape'
  BY <1>0, <1>2, <1>3, <1>4, <1>6 DEF RelayShape
<1>8. ServerOwned'
  <2>1. ~NobodyServed
    BY <1>3 DEF NobodyServed
  <2>2. v # "listener"
    BY VisitorsAreNoFiles
  <2> QED BY <1>0, <1>4, <1>5, <1>6, <2>1, <2>2 DEF ServerOwned
<1>9. ThreadsOwn'
  <2>1. \A u \in Relay!Visitors : peer'[u] \in {"away", "queued"} => handler'[u] = "none"
    <3>1. \A u \in Relay!Visitors : peer'[u] = IF u = v THEN "gone" ELSE peer[u]
      BY <1>0, <1>2 DEF RelayShape
    <3> QED BY <1>0, <1>3, <3>1 DEF ThreadsOwn
  <2>2. \A u \in Relay!Visitors : handler'[u] \notin {"none", "done"} =>
          socket'[u] \in FDs /\ files'[socket'[u]] = u
    BY <1>0, <1>3, <1>5, <1>6 DEF ThreadsOwn
  <2>3. \A c \in Clients : handler'[c] = "ask" => handler[c] = "ask"
    BY <1>1, <1>3
  <2>4. \A c \in Clients : handler'[c] = "ask" =>
          local_socket'[c] \in FDs /\ files'[local_socket'[c]] = "upstream"
    BY <1>0, <1>2, <1>5, <1>6, <2>3, VisitorsAreNoFiles DEF ThreadsOwn
  <2> QED BY <1>0, <1>2, <2>1, <2>2, <2>3, <2>4 DEF ThreadsOwn
<1>10. EntriesMatch'
  <2>1. Served' = Served
    BY <1>1, <1>3 DEF Served
  <2>2. \A c \in Clients : handler'[c] # "request"
    BY <1>0, <1>1, <1>3 DEF EntriesMatch
  <2>3. \A b \in Browsers : handler'[b] \in {"none", "request", "done"}
    BY <1>0, <1>1, <1>3 DEF EntriesMatch
  <2> QED BY <1>0, <1>2, <2>1, <2>2, <2>3, EntriesKept
<1> QED BY <1>7, <1>8, <1>9, <1>10 DEF RelayInv

\* handle_client, step by step.
LEMMA ClientKeepsRelay ==
  ASSUME RelayInv, NEW c \in Clients, Relay!handle_client(c)
  PROVE  RelayInv'
<1>0. RelayShape /\ ServerOwned /\ ThreadsOwn /\ EntriesMatch
  BY DEF RelayInv
<1>1. c \in Relay!Visitors /\ UNCHANGED <<Relay!loops, socket>>
  BY DEF Relay!Visitors, Relay!handle_client
<1>2. CASE Relay!HandlerChecks(c) \/ Relay!Receive(c)
  <2>1. PICK from \in {"check", "recv"}, to \in {"recv", "open", "erase"} :
          Relay!Goes(c, from, to)
    BY <1>2 DEF Relay!HandlerChecks, Relay!Receive
  <2>2. UNCHANGED <<m_clients, local_socket, files, peer>>
    BY <1>2 DEF Relay!HandlerChecks, Relay!Receive, Relay!relay
  <2>3. ServerOwned' /\ ThreadsOwn'
    BY <1>0, <1>1, <2>1, <2>2, GoingKeepsOwners
  <2>4. EntriesMatch'
    BY <1>0, <1>1, <2>1, <2>2, GoingKeepsEntries
  <2>5. RelayShape'
    BY <1>0, <1>1, <2>1, <2>2 DEF RelayShape, Relay!Goes, Relay!loops
  <2> QED BY <2>3, <2>4, <2>5 DEF RelayInv
<1>3. CASE Relay!Enter(c)
  BY <1>1, <1>3, EnterKeepsRelay
<1>4. CASE Relay!OpenLocal(c) \/ Relay!Forward(c)
  BY <1>1, <1>4, AskingKeepsRelay
<1>5. CASE Relay!Erase(c)
  BY <1>1, <1>5, EraseKeepsRelay
<1>6. CASE Relay!Close(c, "close")
  BY <1>1, <1>6, CloseKeepsRelay
<1> QED BY <1>2, <1>3, <1>4, <1>5, <1>6 DEF Relay!handle_client

\* The loops, when they accept nobody.
LEMMA LoopKeepsRelay ==
  ASSUME RelayInv, Relay!AcceptorChecks \/ Relay!MetricsChecks \/ Relay!MetricsOpens,
         UNCHANGED <<m_clients, local_socket>>
  PROVE  RelayInv'
<1>0. RelayShape /\ ServerOwned /\ ThreadsOwn /\ EntriesMatch
  BY DEF RelayInv
<1>1. UNCHANGED <<m_running, m_server_socket, main, handler, socket, peer>> /\ ~NobodyServed
  BY DEF Relay!AcceptorChecks, Relay!MetricsChecks, Relay!MetricsOpens, NobodyServed
<1>2. acceptor' \in {"off", "check", "accept"} /\ metrics' \in {"off", "open", "check", "accept"}
  BY <1>0 DEF Relay!AcceptorChecks, Relay!MetricsChecks, Relay!MetricsOpens, RelayShape
<1>3. EntriesMatch'
  BY <1>0, <1>1 DEF EntriesMatch, Served
<1>4. CASE UNCHANGED files
  BY <1>0, <1>1, <1>2, <1>3, <1>4 DEF RelayInv, RelayShape, ServerOwned, ThreadsOwn
<1>5. CASE Relay!Free # {} /\ files' = Relay!Opened("metrics")
  <2>1. /\ \A f \in FDs : files[f] # "free" => files'[f] = files[f]
        /\ files' \in [FDs -> {"free", "listener", "metrics", "upstream"} \cup Relay!Visitors]
    BY <1>0, <1>5, OpeningKeeps
  <2>2. RelayShape'
    BY <1>0, <1>1, <1>2, <2>1 DEF RelayShape
  <2>3. ServerOwned'
    BY <1>0, <1>1, <2>1 DEF ServerOwned
  <2>4. ThreadsOwn'
    BY <1>0, <1>1, <2>1, VisitorsAreNoFiles DEF ThreadsOwn
  <2> QED BY <1>3, <2>2, <2>3, <2>4 DEF RelayInv
<1> QED BY <1>4, <1>5 DEF Relay!AcceptorChecks, Relay!MetricsChecks, Relay!MetricsOpens

\* Visitors come and go.
LEMMA VisitorKeepsRelay ==
  ASSUME RelayInv, (\E v \in Relay!Visitors : Relay!Connect(v))
                     \/ (\E c \in Clients : Relay!Disconnect(c))
  PROVE  RelayInv'
<1>0. RelayShape /\ ServerOwned /\ ThreadsOwn /\ EntriesMatch
  BY DEF RelayInv
<1>1. UNCHANGED <<m_running, m_server_socket, main, acceptor, metrics, m_clients,
                  local_socket, handler, socket, files>>
  BY DEF Relay!Connect, Relay!Disconnect, Relay!loops, Relay!relay
<1>2. EntriesMatch'
  BY <1>0, <1>1 DEF EntriesMatch, Served
<1>3. ServerOwned'
  BY <1>0, <1>1 DEF ServerOwned, NobodyServed
<1>4. /\ peer' \in [Relay!Visitors -> {"away", "queued", "connected", "left", "gone"}]
      /\ \A v \in Relay!Visitors : peer'[v] \in {"away", "queued"} => peer[v] \in {"away", "queued"}
  <2>1. CASE \E v \in Relay!Visitors : Relay!Connect(v)
    BY <1>0, <2>1 DEF Relay!Connect, RelayShape
  <2>2. CASE \E c \in Clients : Relay!Disconnect(c)
    BY <1>0, <2>2 DEF Relay!Disconnect, RelayShape
  <2> QED BY <2>1, <2>2
<1>5. RelayShape' /\ ThreadsOwn'
  BY <1>0, <1>1, <1>4 DEF RelayShape, ThreadsOwn
<1> QED BY <1>2, <1>3, <1>5 DEF RelayInv

LEMMA InitRelay ==
  ASSUME Relay!Init
  PROVE  RelayInv
<1>1. \A u \in Clients \cup Browsers : u \in Relay!Visitors
  BY DEF Relay!Visitors
<1>2. /\ \A v \in Relay!Visitors : handler[v] = "none"
      /\ m_clients = <<>> /\ main = "idle" /\ acceptor = "off" /\ metrics = "off"
      /\ \A f \in FDs : files[f] = "free"
  BY DEF Relay!Init
<1>3. RelayShape
  <2>1. m_clients \in Seq(FDs)
    BY <1>2, EmptySeq
  <2>2. /\ \A v \in Relay!Visitors : Relay!NoSocket \in FDs \cup {Relay!NoSocket}
        /\ socket = [v \in Relay!Visitors |-> Relay!NoSocket]
        /\ local_socket = [c \in Clients |-> Relay!NoSocket]
        /\ handler = [v \in Relay!Visitors |-> "none"]
        /\ peer = [v \in Relay!Visitors |-> "away"]
        /\ files = [f \in FDs |-> "free"]
        /\ m_running = FALSE /\ m_server_socket = Relay!NoSocket
    BY DEF Relay!Init
  <2> QED BY <1>2, <2>1, <2>2 DEF RelayShape
<1>4. ServerOwned /\ ThreadsOwn
  BY <1>1, <1>2 DEF ServerOwned, NobodyServed, ThreadsOwn
<1>5. Len(m_clients) = 0 /\ Served = {}
  BY <1>1, <1>2 DEF Served
<1>6. EntriesMatch
  BY <1>1, <1>2, <1>5 DEF EntriesMatch
<1> QED BY <1>3, <1>4, <1>6 DEF RelayInv

LEMMA StepKeepsRelay ==
  ASSUME RelayInv, [Relay!Next]_(Relay!vars)
  PROVE  RelayInv'
<1>1. CASE Relay!start \/ Relay!stop
  BY <1>1, MainKeepsRelay
<1>2. CASE Relay!server_loop
  <2>1. UNCHANGED <<m_clients, local_socket>>
    BY <1>2 DEF Relay!server_loop, Relay!relay
  <2>2. CASE Relay!AcceptorChecks
    BY <2>1, <2>2, LoopKeepsRelay
  <2>3. CASE Relay!AcceptClient
    <3>1. PICK c \in Clients : Relay!Accept(c, "enter")
      BY <2>3 DEF Relay!AcceptClient
    <3>2. c \in Relay!Visitors /\ acceptor = "accept" /\ acceptor' = "check" /\ UNCHANGED metrics
      BY <2>3 DEF Relay!AcceptClient, Relay!Visitors
    <3> QED BY <2>1, <3>1, <3>2, AcceptKeepsRelay
  <2> QED BY <1>2, <2>2, <2>3 DEF Relay!server_loop
<1>3. CASE Relay!metrics_loop
  <2>1. UNCHANGED <<m_clients, local_socket>>
    BY <1>3 DEF Relay!metrics_loop, Relay!relay
  <2>2. CASE Relay!MetricsOpens \/ Relay!MetricsChecks
    BY <2>1, <2>2, LoopKeepsRelay
  <2>3. CASE Relay!AcceptBrowser
    <3>1. PICK b \in Browsers : Relay!Accept(b, "request")
      BY <2>3 DEF Relay!AcceptBrowser
    <3>2. b \in Relay!Visitors /\ metrics = "accept" /\ metrics' = "check" /\ UNCHANGED acceptor
      BY <2>3 DEF Relay!AcceptBrowser, Relay!Visitors
    <3> QED BY <2>1, <3>1, <3>2, AcceptKeepsRelay
  <2> QED BY <1>3, <2>2, <2>3 DEF Relay!metrics_loop
<1>4. ASSUME NEW c \in Clients, Relay!handle_client(c) PROVE RelayInv'
  BY <1>4, ClientKeepsRelay
<1>5. ASSUME NEW b \in Browsers, Relay!handle_metrics_request(b) PROVE RelayInv'
  <2>1. /\ b \in Relay!Visitors /\ Relay!Close(b, "request")
        /\ UNCHANGED <<Relay!loops, socket>>
    BY <1>5 DEF Relay!handle_metrics_request, Relay!Visitors
  <2> QED BY <2>1, CloseKeepsRelay
<1>6. CASE (\E v \in Relay!Visitors : Relay!Connect(v)) \/ (\E c \in Clients : Relay!Disconnect(c))
  BY <1>6, VisitorKeepsRelay
<1>7. CASE UNCHANGED Relay!vars
  BY <1>7 DEF Relay!vars, Relay!loops, Relay!relay, RelayInv, RelayShape, ServerOwned,
              NobodyServed, ThreadsOwn, EntriesMatch, Served
<1> QED BY <1>1, <1>2, <1>3, <1>4, <1>5, <1>6, <1>7 DEF Relay!Next

\* The instance has its own copy of the library's Cardinality.
LEMMA SameCardinality ==
  ASSUME NEW S
  PROVE  Relay!Cardinality(S) = Cardinality(S)
BY DEF Cardinality, Relay!Cardinality, IsFiniteSet, Relay!IsFiniteSet

\* Entries that match are as many as the threads they match.
LEMMA MatchingIsExact ==
  ASSUME RelayInv
  PROVE  TableIsExact
<1>0. RelayShape /\ ThreadsOwn /\ EntriesMatch
  BY DEF RelayInv
<1>1. PICK n \in Nat : n = Len(m_clients) /\ DOMAIN m_clients = 1 .. n
  BY <1>0, LenProperties DEF RelayShape
<1>2. \A c \in Served : c \in Relay!Visitors /\ files[socket[c]] = c
  BY <1>0 DEF ThreadsOwn, Served, Relay!Visitors
<1>3. PICK f : f = [i \in 1 .. n |-> CHOOSE c \in Served : m_clients[i] = socket[c]]
  OBVIOUS
<1>4. \A i \in 1 .. n : f[i] \in Served /\ m_clients[i] = socket[f[i]]
  BY <1>0, <1>1, <1>3 DEF EntriesMatch
<1>5. f \in Bijection(1 .. n, Served)
  <2>1. f \in [1 .. n -> Served]
    BY <1>3, <1>4
  <2>2. \A i, j \in 1 .. n : f[i] = f[j] => i = j
    <3> TAKE i, j \in 1 .. n
    <3>1. f[i] = f[j] => m_clients[i] = m_clients[j]
      BY <1>4
    <3> QED BY <1>0, <1>1, <3>1 DEF EntriesMatch
  <2>3. \A c \in Served : \E i \in 1 .. n : f[i] = c
    <3> TAKE c \in Served
    <3>1. PICK i \in 1 .. n : m_clients[i] = socket[c]
      BY <1>0, <1>1 DEF EntriesMatch
    <3>2. socket[f[i]] = socket[c]
      BY <1>4, <3>1
    <3>3. f[i] = c
      BY <1>2, <1>4, <3>2
    <3> QED BY <3>3
  <2> QED BY <2>1, <2>2, <2>3 DEF Bijection, Injection, Surjection, IsInjective
<1>6. Cardinality(Served) = n
  <2>1. IsFiniteSet(1 .. n) /\ Cardinality(1 .. n) = n
    BY FS_Interval
  <2> QED BY <1>5, <2>1, FS_Bijection DEF ExistsBijection
<1>7. Served = {c \in Clients : handler[c] \notin {"none", "enter", "close", "done"}}
  <2>1. \A c \in Clients : c \in Relay!Visitors /\ handler[c] # "request"
    BY <1>0 DEF EntriesMatch, Relay!Visitors
  <2> QED BY <1>0, <2>1 DEF Served, RelayShape
<1> QED BY <1>0, <1>1, <1>2, <1>6, <1>7, SameCardinality
        DEF TableIsExact, Relay!TableIsExact, EntriesMatch

\* The relay's list of clients is exact at every moment, whatever clients come and leave,
\* in whichever order their threads run, and though descriptors change hands; so the one
\* iterator erased is always the right one (streaming_server.cpp:84, 130-138).
THEOREM TableIsAlwaysExact == MCSpec => []TableIsExact
<1>1. Relay!Init => RelayInv
  BY InitRelay
<1>2. RelayInv /\ [Relay!Next]_(Relay!vars) => RelayInv'
  BY StepKeepsRelay
<1>3. RelayInv => TableIsExact
  BY MatchingIsExact
<1> QED BY <1>1, <1>2, <1>3, EachRuns, PTL DEF RelayRuns

-----------------------------------------------------------------------------
(* The shape of every program's state.                                       *)

\* Nothing is bound that is not open: who closes a descriptor takes it off both.
LEMMA StepKeepsBound ==
  ASSUME Socket!TypeOK, OwnersInv, Socket!Owner!ExactlyOneOwner, Socket!Owner!ExactlyOneOwner',
         [Socket!Next]_(Socket!vars)
  PROVE  Socket!TypeOK'
<1>1. OwnersInv'
  BY StepKeepsOwners
<1>2. \A s \in Sockets : m_socket'[s] # INVALID_SOCKET => m_socket'[s] \in open_files'
  BY DEF Socket!Owner!ExactlyOneOwner
<1>3. constructed' \subseteq Sockets
  BY DEF Socket!TypeOK, Socket!Next, Socket!vars, Socket!Construct, Socket!Destroy,
         Socket!open, Socket!bind, Socket!close, Socket!MoveConstruct, Socket!MoveAssign
<1>4. bound_files' \subseteq open_files'
  <2>1. CASE UNCHANGED <<open_files, bound_files>>
    BY <2>1 DEF Socket!TypeOK
  <2>2. ASSUME NEW s \in Sockets, Socket!Closed(s) PROVE bound_files' \subseteq open_files'
    BY <2>2 DEF Socket!Closed, Socket!TypeOK
  <2>3. ASSUME NEW s \in Sockets, Socket!open(s) \/ Socket!bind(s) PROVE bound_files' \subseteq open_files'
    <3>1. open_files \subseteq open_files'
      BY <2>3 DEF Socket!open, Socket!bind, Socket!Open
    <3>2. bound_files' \in {bound_files, bound_files \cup ({m_socket'[s]} \ {INVALID_SOCKET})}
      BY <2>3 DEF Socket!open, Socket!bind
    <3>3. {m_socket'[s]} \ {INVALID_SOCKET} \subseteq open_files'
      BY <1>2
    <3> QED BY <3>1, <3>2, <3>3 DEF Socket!TypeOK
  <2>4. \/ UNCHANGED <<open_files, bound_files>>
        \/ \E s \in Sockets : Socket!Closed(s) \/ Socket!open(s) \/ Socket!bind(s)
    BY DEF Socket!Next, Socket!vars, Socket!Construct, Socket!Destroy,
           Socket!close, Socket!MoveConstruct, Socket!MoveAssign
  <2> QED BY <2>1, <2>2, <2>3, <2>4
<1> QED BY <1>1, <1>3, <1>4 DEF Socket!TypeOK, OwnersInv

LEMMA SocketsTyped == SocketRuns => []Socket!TypeOK
<1>1. Socket!Init => Socket!TypeOK /\ OwnersInv
  BY DEF Socket!Init, Socket!TypeOK, OwnersInv
<1>2. OwnersInv /\ [Socket!Next]_(Socket!vars) => OwnersInv'
  BY StepKeepsOwners
<1>3. Socket!TypeOK /\ OwnersInv /\ Socket!Owner!ExactlyOneOwner /\ Socket!Owner!ExactlyOneOwner'
        /\ [Socket!Next]_(Socket!vars) => Socket!TypeOK'
  BY StepKeepsBound
<1> QED BY <1>1, <1>2, <1>3, SocketsAreExact, PTL DEF SocketRuns

LEMMA RelayTyped == RelayRuns => []Relay!TypeOK
<1>1. Relay!Init => RelayInv
  BY InitRelay
<1>2. RelayInv /\ [Relay!Next]_(Relay!vars) => RelayInv'
  BY StepKeepsRelay
<1>3. RelayInv => Relay!TypeOK
  <2> SUFFICES ASSUME RelayInv PROVE Relay!TypeOK
    OBVIOUS
  <2>1. \A i \in DOMAIN m_clients : m_clients[i] \in FDs
    BY LenProperties, ElementOfSeq DEF RelayInv, RelayShape
  <2> QED BY <2>1 DEF RelayInv, RelayShape, Relay!TypeOK
<1> QED BY <1>1, <1>2, <1>3, PTL DEF RelayRuns

LEMMA TaskTyped == TaskRuns => []Task!TypeOK
<1>1. Task!Init => TaskInv
  BY DEF Task!Init, TaskInv
<1>2. TaskInv /\ [Task!Next]_(Task!vars) => TaskInv'
  BY StepKeepsTasks
<1>3. TaskInv => Task!TypeOK
  BY DEF TaskInv, Task!TypeOK
<1> QED BY <1>1, <1>2, <1>3, PTL DEF TaskRuns

\* The sender's frames and packets stay within what the encoder yields.
SessionTypes ==
  /\ session_running \in BOOLEAN /\ m_stop_requested \in BOOLEAN
  /\ session_socket \in {"closed", "open"}
  /\ frame \in [left : 0 .. MaxPackets, sent : 0 .. MaxPackets]
  /\ frame.left + frame.sent <= MaxPackets
  /\ frames \in 0 .. MaxFrames

LEMMA StepKeepsSession ==
  ASSUME SessionTypes, SessionCounts, [Session!Next]_(Session!vars)
  PROVE  SessionTypes'
<1>0. MaxPackets \in Nat /\ MaxFrames \in Nat
  BY BoundsAssumption
<1>1. /\ frame.left \in 0 .. MaxPackets /\ frame.sent \in 0 .. MaxPackets
      /\ frame.left + frame.sent <= MaxPackets /\ frames \in 0 .. MaxFrames
  BY DEF SessionTypes
<1>2. CASE UNCHANGED <<frame, frames>>
  <2>1. /\ session_running' \in BOOLEAN /\ m_stop_requested' \in BOOLEAN
        /\ session_socket' \in {"closed", "open"}
    BY DEF Session!Next, Session!start, Session!StartFails, Session!StartSucceeds, Session!StartEnds,
           Session!stop, Session!StopBegins, Session!StopEnds, Session!Thread, Session!vars,
           SessionTypes
  <2> QED BY <1>2, <2>1 DEF SessionTypes
<1>3. CASE Session!Thread
  <2>1. UNCHANGED <<session_running, m_stop_requested, session_socket>>
    BY <1>3 DEF Session!Thread
  <2>2. CASE Session!Encode /\ ~UNCHANGED <<frame, frames>>
    <3>1. PICK n \in 1 .. MaxPackets : frame' = [left |-> n, sent |-> 0]
      BY <2>2 DEF Session!Encode
    <3>2. frames < MaxFrames /\ frames' = frames + 1
      BY <2>2 DEF Session!Encode
    <3>3. n \in 0 .. MaxPackets /\ 0 \in 0 .. MaxPackets /\ n + 0 <= MaxPackets
      BY <1>0
    <3>4. frames' \in 0 .. MaxFrames
      BY <1>0, <1>1, <3>2
    <3> QED BY <2>1, <3>1, <3>3, <3>4 DEF SessionTypes
  <2>3. CASE Session!SendPacket
    <3>1. frame.left > 0 /\ UNCHANGED frames
      BY <2>3 DEF Session!SendPacket
    <3>2. PICK l \in 0 .. MaxPackets, s \in 0 .. MaxPackets :
            frame' = [left |-> l, sent |-> s] /\ l + s <= MaxPackets
      <4>1. CASE frame' = [left |-> frame.left - 1, sent |-> frame.sent + 1]
        <5>1. frame.left - 1 \in 0 .. MaxPackets /\ frame.sent + 1 \in 0 .. MaxPackets
              /\ (frame.left - 1) + (frame.sent + 1) <= MaxPackets
          BY <1>0, <1>1, <3>1
        <5> QED BY <4>1, <5>1
      <4>2. CASE frame' = [frame EXCEPT !.left = @ - 1]
        <5>1. frame.left - 1 \in 0 .. MaxPackets /\ (frame.left - 1) + frame.sent <= MaxPackets
          BY <1>0, <1>1, <3>1
        <5>2. frame' = [left |-> frame.left - 1, sent |-> frame.sent]
          BY <4>2 DEF SessionTypes
        <5> QED BY <1>1, <5>1, <5>2
      <4>3. CASE frame' = Session!NoPackets
        <5>1. 0 \in 0 .. MaxPackets /\ 0 + 0 <= MaxPackets
          BY <1>0
        <5> QED BY <4>3, <5>1 DEF Session!NoPackets
      <4> QED BY <2>3, <4>1, <4>2, <4>3 DEF Session!SendPacket
    <3> QED BY <2>1, <3>1, <3>2 DEF SessionTypes
  <2>4. CASE Session!CountPackets
    <3>1. frame' = [left |-> 0, sent |-> 0] /\ UNCHANGED frames
      BY <2>4 DEF Session!CountPackets, Session!NoPackets
    <3>2. 0 \in 0 .. MaxPackets /\ 0 + 0 <= MaxPackets
      BY <1>0
    <3> QED BY <2>1, <3>1, <3>2 DEF SessionTypes
  <2>5. CASE Session!Checks \/ Session!generate_frame \/ Session!CountFrame
    BY <1>2, <2>5 DEF Session!Checks, Session!generate_frame, Session!CountFrame
  <2> QED BY <1>2, <1>3, <2>2, <2>3, <2>4, <2>5 DEF Session!Thread
<1>4. CASE Session!start \/ Session!stop \/ UNCHANGED Session!vars
  BY <1>2, <1>4 DEF Session!start, Session!StartFails, Session!StartSucceeds, Session!StartEnds,
         Session!stop, Session!StopBegins, Session!StopEnds, Session!vars, Session!loop_vars
<1> QED BY <1>3, <1>4 DEF Session!Next

LEMMA SessionTyped == SessionRuns => []Session!TypeOK
<1>1. Session!Init => SessionTypes /\ SessionCounts /\ SessionSocket
  <2> SUFFICES ASSUME Session!Init PROVE SessionTypes /\ SessionCounts /\ SessionSocket
    OBVIOUS
  <2>1. 0 \in 0 .. MaxPackets /\ 0 \in 0 .. MaxFrames /\ 0 + 0 <= MaxPackets
    BY BoundsAssumption
  <2>2. SessionTypes
    BY <2>1 DEF Session!Init, Session!NoPackets, SessionTypes
  <2> QED BY <2>2, InitSession
<1>2. SessionCounts /\ SessionSocket /\ [Session!Next]_(Session!vars)
        => (SessionCounts /\ SessionSocket)'
  BY StepKeepsReadings
<1>3. SessionTypes /\ SessionCounts /\ [Session!Next]_(Session!vars) => SessionTypes'
  BY StepKeepsSession
<1>4. SessionTypes /\ SessionCounts => Session!TypeOK
  BY DEF SessionTypes, SessionCounts, Session!TypeOK
<1> QED BY <1>1, <1>2, <1>3, <1>4, PTL DEF SessionRuns

\* No datagram is received that was not sent, however many are lost.
ViewingTypes ==
  /\ m_frames_sent \in 0 .. MaxSent
  /\ m_packets_received \in Nat /\ network \in 0 .. MaxQueued
  /\ network + m_packets_received <= m_frames_sent
  /\ send_loop \in {"off", "check", "encode"}
  /\ receive_loop \in {"off", "check", "recvfrom"}

LEMMA StepKeepsViewing ==
  ASSUME ViewingTypes, [Viewing!Next]_(Viewing!vars)
  PROVE  ViewingTypes'
<1>0. MaxSent \in Nat /\ MaxQueued \in Nat
  BY BoundsAssumption
<1>1. CASE Viewing!SenderMain \/ (Viewing!Generate /\ UNCHANGED Viewing!viewer_vars)
  BY <1>1 DEF Viewing!SenderMain, Viewing!Generate, Viewing!viewer_vars, ViewingTypes
<1>2. CASE Viewing!Encode /\ UNCHANGED Viewing!viewer_vars
  <2>1. UNCHANGED <<m_packets_received, receive_loop>> /\ send_loop' \in {"off", "check", "encode"}
    BY <1>2 DEF Viewing!Encode, Viewing!viewer_vars, ViewingTypes
  <2>2. CASE UNCHANGED <<m_frames_sent, network>>
    BY <2>1, <2>2 DEF ViewingTypes
  <2>3. CASE /\ m_frames_sent < MaxSent /\ m_frames_sent' = m_frames_sent + 1
             /\ (network < MaxQueued /\ network' = network + 1) \/ UNCHANGED network
    BY <1>0, <2>1, <2>3 DEF ViewingTypes
  <2> QED BY <1>2, <2>2, <2>3 DEF Viewing!Encode
<1>3. CASE (Viewing!ViewerMain \/ Viewing!ViewerLoop) /\ UNCHANGED Viewing!sender_vars
  <2>1. CASE Viewing!ViewerMain \/ Viewing!ReceiverChecks
    BY <1>3, <2>1 DEF Viewing!ViewerMain, Viewing!ReceiverChecks, Viewing!sender_vars, ViewingTypes
  <2>2. CASE Viewing!ReceiveAndWrite
    BY <1>0, <1>3, <2>2 DEF Viewing!ReceiveAndWrite, Viewing!sender_vars, ViewingTypes
  <2> QED BY <1>3, <2>1, <2>2 DEF Viewing!ViewerLoop
<1>4. CASE UNCHANGED Viewing!vars
  BY <1>4 DEF Viewing!vars, Viewing!sender_vars, Viewing!viewer_vars, ViewingTypes
<1>5. CASE Viewing!SenderLoop
  <2>1. UNCHANGED Viewing!viewer_vars /\ (Viewing!Generate \/ Viewing!Encode)
    BY <1>5 DEF Viewing!SenderLoop
  <2> QED BY <1>1, <1>2, <2>1
<1> QED BY <1>1, <1>3, <1>4, <1>5 DEF Viewing!Next

LEMMA ViewingTyped == ViewingRuns => []Viewing!TypeOK
<1>1. Viewing!Init => ViewingTypes
  BY BoundsAssumption DEF Viewing!Init, ViewingTypes
<1>2. ViewingTypes /\ [Viewing!Next]_(Viewing!vars) => ViewingTypes'
  BY StepKeepsViewing
<1>3. ViewingTypes => Viewing!TypeOK
  BY BoundsAssumption DEF ViewingTypes, Viewing!TypeOK
<1> QED BY <1>1, <1>2, <1>3, PTL DEF ViewingRuns

\* The measurements and the target are never negative, whatever is measured when.
MetricsTypes ==
  /\ metrics_running \in BOOLEAN
  /\ target_bitrate \in Nat
  /\ m_metrics \in [total_bytes : Nat, total_packets : Nat, lost_packets : Nat,
                    current_bitrate : Nat, frame_count : Nat, keyframe_count : Nat]
  /\ monitoring \in {"off", "check", "sleep"} /\ adaptive \in {"off", "check", "sleep"}
  /\ simulation \in {"none", "ready", "report", "done"}
  /\ starter \in {"idle", "running", "join_monitoring", "join_adaptive", "done", "crashed"}

\* An adjusted target is a target: between the bounds, or as it was.
LEMMA AdjustedIsTarget ==
  ASSUME NEW target \in Nat, NEW current \in Nat, NEW lost \in Nat, NEW packets \in Nat
  PROVE  Metrics!apply_adaptive_adjustments(target, current, lost, packets) \in Nat
<1>1. PICK adjustment \in {-1, 0, 1} : adjustment = Metrics!Adjustment(target, current, lost, packets)
  BY DEF Metrics!Adjustment
<1>2. PICK new : new = Metrics!new_bitrate(target, adjustment)
  OBVIOUS
<1>3. min_bitrate \in Nat /\ max_bitrate \in Nat
  BY BitrateAssumption
<1>4. target * (10 + adjustment) \in Nat
  BY <1>1
<1>5. new \in Nat
  BY <1>2, <1>3, <1>4 DEF Metrics!new_bitrate, Metrics!Larger, Metrics!Smaller
<1>6. new \div 10 \in Nat
  BY <1>5
<1> QED BY <1>1, <1>2, <1>6 DEF Metrics!apply_adaptive_adjustments

LEMMA StepKeepsMetrics ==
  ASSUME MetricsTypes, [Metrics!Next]_(Metrics!vars)
  PROVE  MetricsTypes'
<1>1. /\ \A k \in {"total_bytes", "total_packets", "lost_packets", "current_bitrate",
                   "frame_count", "keyframe_count"} : m_metrics[k] \in Nat
  BY DEF MetricsTypes
<1>2. CASE Metrics!start \/ Metrics!stop \/ UNCHANGED Metrics!vars
  BY <1>2 DEF Metrics!start, Metrics!stop, Metrics!StopBegins, Metrics!StopJoins, Metrics!ReportCrashes,
              Metrics!vars, Metrics!control, MetricsTypes
<1>3. CASE Metrics!monitoring_loop
  <2>1. /\ UNCHANGED <<metrics_running, adaptive, target_bitrate, simulation, starter>>
        /\ monitoring' \in {"off", "check", "sleep"}
        /\ UNCHANGED m_metrics \/ Metrics!update_bitrate_measurement
    BY <1>3 DEF Metrics!monitoring_loop, Metrics!Checks
  <2>2. CASE Metrics!update_bitrate_measurement
    <3>1. PICK rate : m_metrics' = [m_metrics EXCEPT !.current_bitrate = rate]
                      /\ rate = IF m_metrics.total_packets > 0
                                THEN (8 * m_metrics.total_bytes) \div (1000 * measurement_window)
                                ELSE m_metrics.current_bitrate
      <4>1. PICK rate :
              rate = IF m_metrics.total_packets > 0
                     THEN (8 * m_metrics.total_bytes) \div (1000 * measurement_window)
                     ELSE m_metrics.current_bitrate
        OBVIOUS
      <4>2. m_metrics' = [m_metrics EXCEPT !.current_bitrate = rate]
        BY <2>2, <4>1 DEF Metrics!update_bitrate_measurement
      <4> QED BY <4>1, <4>2
    <3>2. 1000 * measurement_window \in Nat \ {0} /\ 8 * m_metrics.total_bytes \in Nat
      BY <1>1, MetricsAssumption
    <3>3. (8 * m_metrics.total_bytes) \div (1000 * measurement_window) \in Nat
      BY <3>2
    <3>4. rate \in Nat
      BY <1>1, <3>1, <3>3
    <3> QED BY <2>1, <3>1, <3>4 DEF MetricsTypes
  <2> QED BY <2>1, <2>2 DEF MetricsTypes
<1>4. CASE Metrics!adaptive_loop
  <2>1. /\ UNCHANGED <<metrics_running, monitoring, m_metrics, simulation, starter>>
        /\ adaptive' \in {"off", "check", "sleep"}
    BY <1>4 DEF Metrics!adaptive_loop, Metrics!Checks
  <2>2. Metrics!apply_adaptive_adjustments(target_bitrate, m_metrics.current_bitrate,
          m_metrics.lost_packets, m_metrics.total_packets) \in Nat
    BY <1>1, AdjustedIsTarget DEF MetricsTypes
  <2>3. target_bitrate' \in Nat
    BY <1>4, <2>2 DEF Metrics!adaptive_loop, MetricsTypes
  <2> QED BY <2>1, <2>3 DEF MetricsTypes
<1>5. CASE Metrics!Simulate
  <2>1. /\ UNCHANGED <<metrics_running, monitoring, adaptive, target_bitrate>>
        /\ simulation' \in {"none", "ready", "report", "done"}
        /\ starter' \in {starter, "crashed"}
        /\ UNCHANGED m_metrics \/ \E u \in Updates : Metrics!update_packet_stats(u)
    BY <1>5 DEF Metrics!Simulate, Metrics!control, Metrics!ReportCrashes
  <2>2. ASSUME NEW u \in Updates, Metrics!update_packet_stats(u)
        PROVE  m_metrics' \in [total_bytes : Nat, total_packets : Nat, lost_packets : Nat,
                    current_bitrate : Nat, frame_count : Nat, keyframe_count : Nat]
    <3>1. u.bytes \in Nat /\ u.packets \in Nat /\ u.lost \in Nat
      BY MetricsAssumption
    <3>2. /\ m_metrics.total_bytes + u.bytes \in Nat /\ m_metrics.total_packets + u.packets \in Nat
          /\ m_metrics.lost_packets + u.lost \in Nat /\ m_metrics.frame_count + 1 \in Nat
          /\ m_metrics.keyframe_count + 1 \in Nat
      BY <1>1, <3>1
    <3> QED BY <1>1, <2>2, <3>2 DEF Metrics!update_packet_stats, MetricsTypes
  <2> QED BY <2>1, <2>2 DEF MetricsTypes
<1> QED BY <1>2, <1>3, <1>4, <1>5 DEF Metrics!Next

LEMMA MetricsTyped == MetricsRuns => []Metrics!TypeOK
<1>1. Metrics!Init => MetricsTypes
  <2> SUFFICES ASSUME Metrics!Init PROVE MetricsTypes
    OBVIOUS
  <2>1. target_bitrate \in Nat
    BY MetricsAssumption DEF Metrics!Init
  <2> QED BY <2>1 DEF Metrics!Init, MetricsTypes
<1>2. MetricsTypes /\ [Metrics!Next]_(Metrics!vars) => MetricsTypes'
  BY StepKeepsMetrics
<1>3. MetricsTypes => Metrics!TypeOK
  BY DEF MetricsTypes, Metrics!TypeOK
<1> QED BY <1>1, <1>2, <1>3, PTL DEF MetricsRuns

\* Every program's state keeps its shape: nothing bound that is not open, no datagram
\* received that was not sent, no target below zero (in the modules).
THEOREM ProgramsAreTyped == MCSpec => []ProgramsTypeOK
<1>1. Socket!TypeOK /\ Relay!TypeOK /\ Metrics!TypeOK /\ Session!TypeOK /\ Viewing!TypeOK /\ Task!TypeOK
        => ProgramsTypeOK
  BY DEF ProgramsTypeOK
<1> QED BY <1>1, EachRuns, SocketsTyped, RelayTyped, MetricsTyped, SessionTyped, ViewingTyped,
           TaskTyped, PTL
=============================================================================
