----------------------- MODULE SimpleRTSPServerProps -----------------------
(* What SimpleRTSPServer promises its clients and the main thread.          *)
EXTENDS SimpleRTSPServer

\* The shape of the state.
TypeOK ==
  /\ m_running \in BOOLEAN
  /\ m_server_socket \in FDs \cup {NoSocket}
  /\ m_client_sockets \subseteq FDs
  /\ DOMAIN m_sessions \subseteq FDs
  /\ \A f \in DOMAIN m_sessions : m_sessions[f] \in BOOLEAN
  /\ m_active_threads \in 0 .. Cardinality(Clients)
  /\ m_rtp_sequence \in 0 .. MaxPackets
  /\ accepted \in Clients \cup {"none"}
  /\ target_sockets \subseteq FDs
  /\ client_socket \in [Clients -> FDs \cup {NoSocket}]
  /\ files \in [FDs -> Clients \cup {"free", "listener"}]
  /\ seq \in [Clients -> 0 .. MaxPackets \cup {NotYet}]
  /\ announced \in [Clients -> 0 .. MaxPackets \cup {NotYet}]

\* While the server runs, the two tables agree, and an entry stands for the open
\* connection of the very client whose handler was given that descriptor, however
\* often descriptors are reused (simple_rtsp_server.cpp:326-330, 434-440).
TablesAgree ==
  m_running =>
    /\ m_client_sockets = DOMAIN m_sessions
    /\ \A f \in m_client_sockets :
         \E c \in Clients : /\ files[f] = c
                            /\ client_socket[c] = f
                            /\ handler[c] \in {"check", "recv", "play", "load", "answer", "erase"}

\* From the number on that the client's own thread announced in its answer to PLAY,
\* the client misses no packet: playing is set before m_rtp_sequence is read, and a
\* packet takes its number before the list of targets is made. (While stop closes
\* the connections, the answer of another thread may reach a client instead, with a
\* number of its own: simple_rtsp_server.cpp:243, 415-431, 529-565.)
NothingMissedAfterPlay ==
  \A c \in Clients : announced[c] # NotYet =>
    \A n \in got[c] : announced[c] .. n \subseteq got[c]

\* When stop is over nothing is left: neither loop runs, and there is no descriptor and
\* no session, not even one that a late PLAY made again or a late accept brought in
\* (simple_rtsp_server.cpp:233-261).
NothingLeft ==
  main = "idle" /\ ~m_running =>
    /\ acceptor = "off" /\ streamer = "off"
    /\ \A f \in FDs : files[f] = "free"
    /\ m_client_sockets = {} /\ DOMAIN m_sessions = {}

\* simple_rtsp_server.cpp:567, "to avoid deadlock with stop()": stop ends, whatever
\* the other threads were doing, at the latest when accept and recv time out.
StopCompletes == main = "clear" ~> main = "idle"

\* docs/ADVANCED.md:35, "PLAY: Stream start". A client that has not asked may be
\* sent media, as the list of targets outlives the lock and the descriptors in it,
\* but no more than the one packet (simple_rtsp_server.cpp:557-572).
StrayMediaIsOnePacket ==
  \A c \in Clients : c \notin asked => Cardinality(got[c]) <= 1

\* While the server runs a handler answers PLAY to its own client and closes its own
\* connection, and nobody else's; only stop, which closes the handlers' descriptors
\* too, lets one do that (simple_rtsp_server.cpp:243, 431, 440).
OwnConnectionWhileRunning ==
  [][\A c, d \in Clients :
       \/ AnswerPlay(c) /\ d \in Connection(client_socket[c])
       \/ Close(c) /\ \E f \in FDs : files[f] = d /\ files'[f] = "free"
       => d = c \/ ~m_running]_vars

\* When stop is over a handler has nothing left to do but to notify.
OnlyNotifyAfterStop ==
  main = "idle" /\ ~m_running => \A c \in Clients : handler[c] \in {"none", "notify", "done"}
=============================================================================
