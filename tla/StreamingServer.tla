--------------------------- MODULE StreamingServer --------------------------
(***************************************************************************)
(* apps/exp/streaming_server.cpp: server_loop accepts clients, a detached  *)
(* thread per client takes each of its requests to the RTSP server over a  *)
(* connection of its own, metrics_loop accepts browsers and a detached     *)
(* thread answers each with a page.  No socket has a time-out.  As in      *)
(* SimpleRTSPServer a connection is known by its descriptor only, and the  *)
(* lowest free one is given out next.                                      *)
(***************************************************************************)
EXTENDS Integers, FiniteSets, SequencesExt

CONSTANTS
  Clients,     \* of the relay port; each connects once and names its thread
  Browsers,    \* of the metrics port, likewise
  FDs          \* file descriptors

NoSocket == -1

VARIABLES
  m_running, m_server_socket,
  m_clients,       \* descriptors in the order of their entries
  main,            \* "idle", "running", where stop is, or "stopped"
  acceptor,        \* m_server_thread: "off", "check", "accept"
  metrics,         \* m_metrics_thread: "off", "open", "check", "accept"
  handler,         \* thread of a client or browser -> where it is
  socket,          \* ... and the descriptor it was given
  local_socket,    \* client -> its connection to the RTSP server
  files,           \* descriptor -> what the system has open there
  peer             \* "away", "queued", "connected", "left" or "gone"

Visitors == Clients \cup Browsers
loops == <<m_running, m_server_socket, main, acceptor, metrics>>
relay == <<m_clients, local_socket>>
vars == <<loops, relay, handler, socket, files, peer>>

Init ==
  /\ m_running = FALSE /\ m_server_socket = NoSocket
  /\ m_clients = <<>>
  /\ main = "idle" /\ acceptor = "off" /\ metrics = "off"
  /\ handler = [v \in Visitors |-> "none"]
  /\ socket = [v \in Visitors |-> NoSocket]
  /\ local_socket = [c \in Clients |-> NoSocket]
  /\ files = [f \in FDs |-> "free"]
  /\ peer = [v \in Visitors |-> "away"]

Free == {f \in FDs : files[f] = "free"}
LowestFree == CHOOSE f \in Free : \A g \in Free : f <= g
Opened(what) == [files EXCEPT ![LowestFree] = what]
ClosedFile(fd) == [f \in FDs |-> IF f = fd THEN "free" ELSE files[f]]
Queued(vs) == \E v \in vs : peer[v] = "queued"

-----------------------------------------------------------------------------
(* main *)

\* bind or listen fails: the socket is closed, its number kept, and the
\* destructor's stop closes the number again.
StartFails ==
  /\ m_server_socket' = LowestFree
  /\ main' = "join_server"
  /\ UNCHANGED <<m_running, acceptor, metrics, files>>

StartSucceeds ==
  /\ m_server_socket' = LowestFree
  /\ files' = Opened("listener")
  /\ m_running' = TRUE
  /\ acceptor' = "check"
  /\ metrics' \in {"off", "open"} \* enable_metrics
  /\ main' = "running"

StopBegins ==
  /\ main = "running"
  /\ m_running' = FALSE
  /\ main' = "join_server"
  /\ UNCHANGED <<m_server_socket, acceptor, metrics, files>>

StopJoins ==
  /\ \/ main = "join_server" /\ acceptor = "off" /\ main' = "join_metrics"
     \/ main = "join_metrics" /\ metrics = "off" /\ main' = "close"
  /\ UNCHANGED <<m_running, m_server_socket, acceptor, metrics, files>>

\* Handlers are not told, and the metrics socket stays open.
StopEnds ==
  /\ main = "close"
  /\ files' = ClosedFile(m_server_socket)
  /\ m_server_socket' = NoSocket
  /\ peer' = [v \in Visitors |-> IF v \in Clients /\ peer[v] = "queued" THEN "gone" ELSE peer[v]]
  /\ main' = "stopped"
  /\ UNCHANGED <<m_running, acceptor, metrics>>

start ==
  /\ main = "idle"
  /\ StartFails \/ StartSucceeds
  /\ UNCHANGED <<relay, handler, socket, peer>>

stop ==
  /\ \/ (StopBegins \/ StopJoins) /\ UNCHANGED peer
     \/ StopEnds
  /\ UNCHANGED <<relay, handler, socket>>

-----------------------------------------------------------------------------
(* The loops.  accept blocks until there is somebody. *)

AcceptorChecksLate == \* mutant: the flag is not looked at again
  /\ acceptor = "check" /\ acceptor' = "accept"
  /\ UNCHANGED <<m_running, m_server_socket, main, metrics, handler, socket, files, peer>>
AcceptorChecks ==
  /\ acceptor = "check"
  /\ acceptor' = IF m_running THEN "accept" ELSE "off"
  /\ UNCHANGED <<m_running, m_server_socket, main, metrics, handler, socket, files, peer>>

AcceptUnchecked(v, where) == \* mutant: what accept returns is not looked at
  /\ peer[v] = "queued"
  /\ handler' = [handler EXCEPT ![v] = where]
  /\ \/ /\ Free # {}
        /\ socket' = [socket EXCEPT ![v] = LowestFree]
        /\ files' = Opened(v)
        /\ peer' = [peer EXCEPT ![v] = "connected"]
     \/ Free = {} /\ UNCHANGED <<socket, files, peer>>
  /\ UNCHANGED <<m_running, m_server_socket, main>>
\* v gets a descriptor and a detached thread; or it has gone again, or there is no
\* descriptor left and it stays in the queue.
Accept(v, where) ==
  /\ peer[v] = "queued"
  /\ \/ /\ Free # {}
        /\ socket' = [socket EXCEPT ![v] = LowestFree]
        /\ files' = Opened(v)
        /\ handler' = [handler EXCEPT ![v] = where]
        /\ peer' = [peer EXCEPT ![v] = "connected"]
     \/ /\ peer' = [peer EXCEPT ![v] = "gone"]
        /\ UNCHANGED <<socket, files, handler>>
     \/ Free = {} /\ UNCHANGED <<socket, files, handler, peer>>
  /\ UNCHANGED <<m_running, m_server_socket, main>>

AcceptClient ==
  /\ acceptor = "accept" /\ acceptor' = "check"
  /\ \E c \in Clients : Accept(c, "enter")
  /\ UNCHANGED metrics

server_loop == (AcceptorChecks \/ AcceptClient) /\ UNCHANGED relay

\* socket, bind and listen may fail, then the thread ends.
MetricsOpens ==
  /\ metrics = "open"
  /\ \/ metrics' = "off" /\ UNCHANGED files
     \/ Free # {} /\ metrics' = "check" /\ files' = Opened("metrics")
  /\ UNCHANGED <<m_running, m_server_socket, main, acceptor, handler, socket, peer>>

MetricsChecks ==
  /\ metrics = "check"
  /\ metrics' = IF m_running THEN "accept" ELSE "off"
  /\ UNCHANGED <<m_running, m_server_socket, main, acceptor, handler, socket, files, peer>>

AcceptBrowser ==
  /\ metrics = "accept" /\ metrics' = "check"
  /\ \E b \in Browsers : Accept(b, "request")
  /\ UNCHANGED acceptor

metrics_loop == (MetricsOpens \/ MetricsChecks \/ AcceptBrowser) /\ UNCHANGED relay

-----------------------------------------------------------------------------
(* The detached threads *)

Goes(v, from, to) == handler[v] = from /\ handler' = [handler EXCEPT ![v] = to]

Enter(c) ==
  /\ Goes(c, "enter", "check")
  /\ m_clients' = Append(m_clients, socket[c])
  /\ UNCHANGED <<local_socket, files, peer>>

HandlerChecks(c) ==
  /\ Goes(c, "check", IF m_running THEN "recv" ELSE "erase")
  /\ UNCHANGED <<relay, files, peer>>

\* recv: a request, or the end of the connection
Receive(c) ==
  /\ \/ Goes(c, "recv", "open") /\ peer[c] = "connected"
     \/ Goes(c, "recv", "erase") /\ peer[c] = "left"
  /\ UNCHANGED <<relay, files, peer>>

OpenLocal(c) ==
  /\ \/ /\ Goes(c, "open", "ask")
        /\ Free # {}
        /\ local_socket' = [local_socket EXCEPT ![c] = LowestFree]
        /\ files' = Opened("upstream")
     \/ Goes(c, "open", "check") /\ Free = {} /\ UNCHANGED <<local_socket, files>>
  /\ UNCHANGED <<m_clients, peer>>

\* The answer, or the end of that connection, is passed on or dropped; the totals
\* only the page shows are left out. The RTSP server may be silent for ever.
Forward(c) ==
  /\ Goes(c, "ask", "check")
  /\ files' = ClosedFile(local_socket[c])
  /\ local_socket' = [local_socket EXCEPT ![c] = NoSocket]
  /\ UNCHANGED <<m_clients, peer>>

EraseAndClose(c) == \* mutant: the socket is closed here and again in Close
  /\ Goes(c, "erase", "close")
  /\ \E i \in DOMAIN m_clients :
       /\ m_clients[i] = socket[c]
       /\ m_clients' = RemoveAt(m_clients, i)
  /\ files' = ClosedFile(socket[c])
  /\ UNCHANGED <<local_socket, peer>>

\* erase(remove_if(...)) erases one element, and the one it means when exactly one
\* entry has the descriptor (see TableIsExact).
Erase(c) ==
  /\ Goes(c, "erase", "close")
  /\ \E i \in DOMAIN m_clients :
       /\ m_clients[i] = socket[c]
       /\ m_clients' = RemoveAt(m_clients, i)
  /\ UNCHANGED <<local_socket, files, peer>>

Close(v, from) ==
  /\ Goes(v, from, "done")
  /\ files' = ClosedFile(socket[v])
  /\ peer' = [peer EXCEPT ![v] = "gone"]
  /\ UNCHANGED relay

handle_client(c) ==
  /\ \/ Enter(c) \/ HandlerChecks(c) \/ Receive(c) \/ OpenLocal(c)
     \/ Forward(c) \/ Erase(c) \/ Close(c, "close")
  /\ UNCHANGED <<loops, socket>>

\* The page is made of m_clients, under its lock.
handle_metrics_request(b) == Close(b, "request") /\ UNCHANGED <<loops, socket>>

-----------------------------------------------------------------------------
(* The world outside: visitors come while the port is open, and clients leave. *)

Port(v) == IF v \in Clients THEN "listener" ELSE "metrics"

Connect(v) ==
  /\ peer[v] = "away"
  /\ \E f \in FDs : files[f] = Port(v)
  /\ peer' = [peer EXCEPT ![v] = "queued"]
  /\ UNCHANGED <<loops, relay, handler, socket, files>>

Disconnect(c) ==
  /\ peer[c] = "connected"
  /\ peer' = [peer EXCEPT ![c] = "left"]
  /\ UNCHANGED <<loops, relay, handler, socket, files>>

Next ==
  \/ start \/ stop \/ server_loop \/ metrics_loop
  \/ \E c \in Clients : handle_client(c)
  \/ \E b \in Browsers : handle_metrics_request(b)
  \/ \E v \in Visitors : Connect(v)
  \/ \E c \in Clients : Disconnect(c)

\* main, the loops and the threads run; a request or an answer need never come.
Fairness ==
  /\ WF_vars(main # "running" /\ stop)
  /\ WF_vars(server_loop)
  /\ WF_vars(metrics_loop)

Spec == Init /\ [][Next]_vars /\ Fairness

-----------------------------------------------------------------------------
\* The shape of the state.
TypeOK ==
  /\ m_running \in BOOLEAN /\ m_server_socket \in FDs \cup {NoSocket}
  /\ \A i \in DOMAIN m_clients : m_clients[i] \in FDs
  /\ acceptor \in {"off", "check", "accept"}
  /\ metrics \in {"off", "open", "check", "accept"}
  /\ \A v \in Visitors : socket[v] \in FDs \cup {NoSocket}

\* The list of clients is exact at every moment, though descriptors change hands: a
\* thread between entering and erasing has one entry, which stands for its own
\* connection, and there is no other (streaming_server.cpp:84, 130-138). Erasing
\* one iterator is right only because of it: with no entry or two it is not.
TableIsExact ==
  LET Served == {c \in Clients : handler[c] \notin {"none", "enter", "close", "done"}}
  IN  /\ Len(m_clients) = Cardinality(Served)
      /\ \A c \in Served : /\ files[socket[c]] = c
                           /\ \E i \in DOMAIN m_clients : m_clients[i] = socket[c]

\* stop joins before it closes, so each of its joins waits for a caller (streaming_
\* server.cpp:357-366); but one caller is enough, and it may be one in the queue.
StopNeedsOneCaller ==
  /\ (main = "join_server" /\ (acceptor # "accept" \/ Queued(Clients)))
       ~> main \in {"join_metrics", "close", "stopped"}
  /\ (main = "join_metrics" /\ (metrics # "accept" \/ Queued(Browsers)))
       ~> main = "stopped"
=============================================================================
