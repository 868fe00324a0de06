-------------------------- MODULE SimpleRTSPServer --------------------------
(***************************************************************************)
(* apps/rtsp/simple_rtsp_server.cpp: the main thread starts and stops the  *)
(* server, server_loop accepts connections, one detached thread per        *)
(* connection answers its requests, streaming_loop sends every packet to   *)
(* the sessions that play.  Connections are known to the program only by   *)
(* file descriptor, and the system gives the lowest free one to the next   *)
(* connection: the table of descriptors is part of the model.              *)
(***************************************************************************)
EXTENDS Integers, FiniteSets

CONSTANTS
  Clients,    \* a client connects once: it names its connection and handler
  FDs,        \* file descriptors
  MaxPackets  \* bound: the encoder yields so many packets

ASSUME ClientsAssumption ==
  IsFiniteSet(Clients) /\ Clients \cap {"none", "free", "listener"} = {}
ASSUME FDsAssumption == FDs \subseteq Nat /\ Cardinality(FDs) > Cardinality(Clients)
ASSUME MaxPacketsAssumption == MaxPackets \in Nat

NoSocket == -1
NotYet == -1

VARIABLES
  m_running,
  m_server_socket,
  m_client_sockets, \* descriptors of the connections
  m_sessions,       \* descriptor -> is it playing, a partial function
  m_active_threads,
  m_rtp_sequence,
  main,             \* "idle", or where stop is: "clear", "close", "join"
  acceptor,         \* m_server_thread: "off", "check", "accept", "register"
  accepted,         \* the client it has just accepted
  streamer,         \* m_streaming_thread: "off", "check", "snapshot", "send"
  target_sockets,   \* descriptors the packet has yet to be sent to
  handler,          \* client -> where its thread is in handle_client
  client_socket,    \* client -> the descriptor its thread was given
  seq,              \* client -> the number its thread has read for an answer to PLAY
  files,            \* descriptor -> what the system has open there
  peer,             \* client -> "away", "queued", "connected", "gone"
  asked,            \* history: clients whose PLAY was received
  announced,        \* history: client -> seq its own thread first answered to PLAY
  got               \* history: client -> numbers of the packets sent to it

tables   == <<m_client_sockets, m_sessions>>
threads  == <<handler, client_socket, seq, m_active_threads>>
stream   == <<streamer, target_sockets, m_rtp_sequence>>
history  == <<asked, announced, got>>
vars == <<m_running, m_server_socket, main, acceptor, accepted, files, peer,
          tables, threads, stream, history>>

Init ==
  /\ m_running = FALSE
  /\ m_server_socket = NoSocket
  /\ m_client_sockets = {}
  /\ m_sessions = [f \in {} |-> FALSE]
  /\ m_active_threads = 0
  /\ m_rtp_sequence = 0
  /\ main = "idle" /\ acceptor = "off" /\ streamer = "off"
  /\ accepted = "none"
  /\ target_sockets = {}
  /\ handler = [c \in Clients |-> "none"]
  /\ client_socket = [c \in Clients |-> NoSocket]
  /\ seq = [c \in Clients |-> NotYet]
  /\ files = [f \in FDs |-> "free"]
  /\ peer = [c \in Clients |-> "away"]
  /\ asked = {}
  /\ announced = [c \in Clients |-> NotYet]
  /\ got = [c \in Clients |-> {}]

-----------------------------------------------------------------------------
(* The system's side: descriptors and connections.                           *)

Free == {f \in FDs : files[f] = "free"}
Lowest(fs) == CHOOSE f \in fs : \A g \in fs : f <= g

\* close() of a set of numbers: whoever holds a number loses it
Closed(fs) == [f \in FDs |-> IF f \in fs THEN "free" ELSE files[f]]

\* The connection a descriptor stands for now, if any
Connection(f) == IF f \in FDs /\ files[f] \in Clients THEN {files[f]} ELSE {}

Listening == \E f \in FDs : files[f] = "listener"

Connect(c) ==
  /\ peer[c] = "away"
  /\ Listening
  /\ peer' = [peer EXCEPT ![c] = "queued"]
  /\ UNCHANGED <<m_running, m_server_socket, main, acceptor, accepted, files,
                 tables, threads, stream, history>>

-----------------------------------------------------------------------------
(* main: start and stop *)

\* bind or listen fails: the socket is closed, its number kept.
StartFails ==
  /\ m_server_socket' = Lowest(Free)
  /\ UNCHANGED <<m_running, acceptor, streamer, files>>

StartSucceeds ==
  /\ m_server_socket' = Lowest(Free)
  /\ files' = [files EXCEPT ![Lowest(Free)] = "listener"]
  /\ m_running' = TRUE
  /\ acceptor' = "check"
  /\ streamer' = "check"

start ==
  /\ main = "idle"
  /\ ~m_running
  /\ StartFails \/ StartSucceeds
  /\ UNCHANGED <<main, accepted, peer, tables, threads, target_sockets,
                 m_rtp_sequence, history>>

StopBegins ==
  /\ main = "idle"
  /\ m_running
  /\ m_running' = FALSE
  /\ main' = "clear"
  /\ UNCHANGED <<m_server_socket, acceptor, accepted, files, peer, tables,
                 threads, stream, history>>

\* Under m_clients_mutex; the handlers are not told that their sockets are gone.
StopClearsClients ==
  /\ main = "clear"
  /\ files' = Closed(m_client_sockets)
  /\ m_client_sockets' = {}
  /\ m_sessions' = [f \in {} |-> FALSE]
  /\ main' = "close"
  /\ UNCHANGED <<m_running, m_server_socket, acceptor, accepted, peer, threads,
                 stream, history>>

StopClosesListener ==
  /\ main = "close"
  /\ files' = Closed({m_server_socket})
  /\ m_server_socket' = NoSocket
  /\ peer' = [c \in Clients |-> IF peer[c] = "queued" THEN "gone" ELSE peer[c]]
  /\ main' = "join"
  /\ UNCHANGED <<m_running, acceptor, accepted, tables, threads, stream, history>>

LoopsJoined == acceptor = "off" /\ streamer = "off" \* mutant: detached threads left

AllJoined ==
  /\ acceptor = "off"
  /\ streamer = "off"
  /\ m_active_threads = 0

StopEnds ==
  /\ main = "join"
  /\ AllJoined
  /\ main' = "idle"
  /\ UNCHANGED <<m_running, m_server_socket, acceptor, accepted, files, peer,
                 tables, threads, stream, history>>

Stop == StopClearsClients \/ StopClosesListener \/ StopEnds

-----------------------------------------------------------------------------
(* server_loop *)

AcceptorChecks ==
  /\ acceptor = "check"
  /\ acceptor' = IF m_running THEN "accept" ELSE "off"
  /\ UNCHANGED <<accepted, files, peer, tables, threads>>

\* Nobody comes within 500 ms, or the socket was shut down.
AcceptNobody ==
  /\ acceptor = "accept"
  /\ acceptor' = "check"
  /\ UNCHANGED <<accepted, files, peer, tables, threads>>

Accept(c) ==
  /\ acceptor = "accept"
  /\ m_server_socket # NoSocket
  /\ peer[c] = "queued"
  /\ peer' = [peer EXCEPT ![c] = "connected"]
  /\ files' = [files EXCEPT ![Lowest(Free)] = c]
  /\ client_socket' = [client_socket EXCEPT ![c] = Lowest(Free)]
  /\ accepted' = c
  /\ acceptor' = "register"
  /\ UNCHANGED <<tables, handler, seq, m_active_threads>>

EnteredPlaying(f, playing) == \* mutant: sessions play from the start
  [g \in DOMAIN m_sessions \cup {f} |-> IF g = f THEN TRUE ELSE m_sessions[g]]
Entered(f, playing) ==
  [g \in DOMAIN m_sessions \cup {f} |-> IF g = f THEN playing ELSE m_sessions[g]]

\* Threads are counted before they start and uncounted as they end.
UncountsOnly(n) == m_active_threads' = m_active_threads + (IF n < 0 THEN n ELSE 0) \* mutant
CountsOnly(n) == m_active_threads' = m_active_threads + (IF n > 0 THEN n ELSE 0)   \* mutant
Count(n) == m_active_threads' = m_active_threads + n

Register ==
  LET f == client_socket[accepted]
  IN  /\ acceptor = "register"
      /\ m_client_sockets' = m_client_sockets \cup {f}
      /\ m_sessions' = Entered(f, FALSE)
      /\ Count(1)
      /\ handler' = [handler EXCEPT ![accepted] = "check"]
      /\ accepted' = "none"
      /\ acceptor' = "check"
      /\ UNCHANGED <<files, peer, client_socket, seq>>

Acceptor ==
  /\ AcceptorChecks \/ AcceptNobody \/ (\E c \in Clients : Accept(c)) \/ Register
  /\ UNCHANGED <<m_running, m_server_socket, main, stream, history>>

-----------------------------------------------------------------------------
(* handle_client, in the thread that was started for client c *)

Goto(c, pc) == handler' = [handler EXCEPT ![c] = pc]

HandlerChecks(c) ==
  /\ handler[c] = "check"
  /\ Goto(c, IF m_running THEN "recv" ELSE "erase")
  /\ UNCHANGED <<files, tables, m_active_threads, seq, asked, announced>>

\* Nothing within 2 s, connection closed, or no such socket (any more).
ReceiveNothing(c) ==
  /\ handler[c] = "recv"
  /\ Goto(c, "erase")
  /\ UNCHANGED <<files, tables, m_active_threads, seq, asked, announced>>

\* A request of whoever is connected there now. OPTIONS, DESCRIBE, SETUP and
\* whatever is unknown are answered and change nothing.
ReceiveRequest(c) ==
  /\ handler[c] = "recv"
  /\ Connection(client_socket[c]) # {}
  /\ \/ Goto(c, "check") /\ UNCHANGED asked
     \/ Goto(c, "play") /\ asked' = asked \cup Connection(client_socket[c])
     \/ Goto(c, "erase") /\ UNCHANGED asked \* TEARDOWN
  /\ UNCHANGED <<files, tables, m_active_threads, seq, announced>>

\* m_sessions[client_socket] makes a session if there is none.
Play(c) ==
  /\ handler[c] = "play"
  /\ m_sessions' = Entered(client_socket[c], TRUE)
  /\ Goto(c, "load")
  /\ UNCHANGED <<files, m_client_sockets, m_active_threads, seq, asked, announced>>

\* The number for the answer is read without the lock ...
LastSeq == m_rtp_sequence - 1 \* mutant: the last packet's number, not the next one's
RtpInfoSeq == m_rtp_sequence

LoadSeq(c) ==
  /\ handler[c] = "load"
  /\ seq' = [seq EXCEPT ![c] = RtpInfoSeq]
  /\ Goto(c, "answer")
  /\ UNCHANGED <<files, tables, m_active_threads, asked, announced>>

\* ... and sent to whoever has the descriptor by then: nobody, the handler's client
\* or, once stop has closed it, a client that was accepted on it.
AnswerPlay(c) ==
  /\ handler[c] = "answer"
  /\ announced' = [announced EXCEPT ![c] =
                     IF @ = NotYet /\ c \in Connection(client_socket[c]) THEN seq[c] ELSE @]
  /\ seq' = [seq EXCEPT ![c] = NotYet]
  /\ Goto(c, "check")
  /\ UNCHANGED <<files, tables, m_active_threads, asked>>

KeepsSession(f) == m_sessions \* mutant: only the socket is erased
Erased(f) == [g \in DOMAIN m_sessions \ {f} |-> m_sessions[g]]

Forget(c) ==
  /\ handler[c] = "erase"
  /\ m_sessions' = Erased(client_socket[c])
  /\ m_client_sockets' = m_client_sockets \ {client_socket[c]}
  /\ Goto(c, "close")
  /\ UNCHANGED <<files, m_active_threads, seq, asked, announced>>

Close(c) ==
  /\ handler[c] = "close"
  /\ files' = Closed({client_socket[c]})
  /\ Goto(c, "leave")
  /\ UNCHANGED <<tables, m_active_threads, seq, asked, announced>>

\* m_active_threads--, and then notify_all() on the same member
Leave(c) ==
  /\ handler[c] = "leave"
  /\ Count(-1)
  /\ Goto(c, "notify")
  /\ UNCHANGED <<files, tables, seq, asked, announced>>

Notify(c) ==
  /\ handler[c] = "notify"
  /\ Goto(c, "done")
  /\ UNCHANGED <<files, tables, m_active_threads, seq, asked, announced>>

Handler(c) ==
  /\ \/ HandlerChecks(c) \/ ReceiveNothing(c) \/ ReceiveRequest(c) \/ Play(c)
     \/ LoadSeq(c) \/ AnswerPlay(c) \/ Forget(c) \/ Close(c) \/ Leave(c) \/ Notify(c)
  /\ UNCHANGED <<m_running, m_server_socket, main, acceptor, accepted, peer,
                 client_socket, stream, got>>

-----------------------------------------------------------------------------
(* streaming_loop *)

\* av_buffersink_get_frame may have nothing: that ends the loop (EAGAIN, EOF) or
\* the round (any other error).
StreamerChecks ==
  /\ streamer = "check"
  /\ \/ streamer' = "off"
     \/ m_running /\ streamer' = "check"
  /\ UNCHANGED <<m_rtp_sequence, target_sockets, got>>

\* encode_and_send, broadcast_packet up to the lock
TakePacket ==
  /\ streamer = "check"
  /\ m_running
  /\ m_rtp_sequence < MaxPackets
  /\ m_rtp_sequence' = m_rtp_sequence + 1
  /\ streamer' = "snapshot"
  /\ UNCHANGED <<target_sockets, got>>

Snapshot ==
  /\ streamer = "snapshot"
  /\ target_sockets' = {f \in DOMAIN m_sessions : m_sessions[f]}
  /\ streamer' = "send"
  /\ UNCHANGED <<m_rtp_sequence, got>>

\* The lock is not held any more.
SendToNext ==
  LET f == Lowest(target_sockets)
  IN  /\ streamer = "send"
      /\ target_sockets # {}
      /\ target_sockets' = target_sockets \ {f}
      /\ got' = [c \in Clients |->
                  IF c \in Connection(f) THEN got[c] \cup {m_rtp_sequence - 1} ELSE got[c]]
      /\ UNCHANGED <<m_rtp_sequence, streamer>>

SentToAll ==
  /\ streamer = "send"
  /\ target_sockets = {}
  /\ streamer' = "check"
  /\ UNCHANGED <<m_rtp_sequence, target_sockets, got>>

Streamer ==
  /\ StreamerChecks \/ TakePacket \/ Snapshot \/ SendToNext \/ SentToAll
  /\ UNCHANGED <<m_running, m_server_socket, main, acceptor, accepted, files, peer,
                 tables, threads, asked, announced>>

-----------------------------------------------------------------------------
Next ==
  \/ start \/ StopBegins \/ Stop
  \/ Acceptor
  \/ Streamer
  \/ \E c \in Clients : Connect(c) \/ Handler(c)

Spec == Init /\ [][Next]_vars

\* Every thread runs; accept and recv time out; nobody has to call start or stop,
\* and the stream neither has to yield a packet nor to end while the server runs.
Fairness ==
  /\ WF_vars(Stop)
  /\ WF_vars(Acceptor)
  /\ WF_vars((streamer # "check" \/ ~m_running) /\ Streamer)
  /\ \A c \in Clients : WF_vars(Handler(c))

FairSpec == Spec /\ Fairness
=============================================================================
