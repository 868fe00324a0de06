----------------------- MODULE SimpleRTSPServerProofs ----------------------
(* Proofs about SimpleRTSPServer for any number of clients, descriptors and *)
(* packets, and any order of connections, requests, starts and stops.       *)
EXTENDS SimpleRTSPServerProps, FiniteSetTheorems, TLAPS

\* A handler that has an entry in the tables; one that has its descriptor; and one
\* that stop waits for.
Serving == {"check", "recv", "play", "load", "answer", "erase"}
Holding == Serving \cup {"close"}
Counted == {c \in Clients : handler[c] \in Holding \cup {"leave"}}

\* TypeOK and what it does not say.
TypesInv ==
  /\ TypeOK
  /\ main \in {"idle", "clear", "close", "join"}
  /\ acceptor \in {"off", "check", "accept", "register"}
  /\ handler \in [Clients -> Holding \cup {"none", "leave", "notify", "done"}]
  /\ peer \in [Clients -> {"away", "queued", "connected", "gone"}]

\* The count is exact, every thread stands for one connection, and stop ends when
\* all of them have.
ThreadsInv ==
  /\ m_active_threads = Cardinality(Counted)
  /\ acceptor = "register" =>
       /\ accepted \in Clients /\ handler[accepted] = "none"
       /\ peer[accepted] = "connected" /\ client_socket[accepted] \in FDs
  /\ \A c \in Clients : handler[c] # "none" =>
       peer[c] = "connected" /\ client_socket[c] \in FDs
  /\ m_running => main = "idle"
  /\ main = "idle" /\ ~m_running => acceptor = "off" /\ streamer = "off" /\ Counted = {}

\* A descriptor that is open is a connection whose thread has it, or is about to be
\* made, or the listener of a server not yet closed; an entry is of a thread that
\* will erase it.
FilesInv ==
  /\ \A f \in FDs : files[f] \in Clients =>
       /\ client_socket[files[f]] = f
       /\ handler[files[f]] \in Holding \/ (acceptor = "register" /\ accepted = files[f])
  /\ \A f \in FDs : files[f] = "listener" =>
       m_server_socket = f /\ (m_running \/ main \in {"clear", "close"})
  /\ \A f \in m_client_sockets \cup DOMAIN m_sessions :
       \E c \in Clients : handler[c] \in Serving /\ client_socket[c] = f

\* Until stop clears the tables nobody has a descriptor that is not his.
TablesKept == m_running \/ main = "clear"

RunningInv ==
  TablesKept =>
    /\ m_client_sockets = DOMAIN m_sessions
    /\ \A c \in Clients : handler[c] \in Holding => files[client_socket[c]] = c
    /\ \A c \in Clients : handler[c] \in Serving => client_socket[c] \in m_client_sockets
    /\ acceptor = "register" => files[client_socket[accepted]] = accepted

Inv == TypesInv /\ ThreadsInv /\ FilesInv /\ RunningInv

-----------------------------------------------------------------------------
(* Counting and descriptors                                                  *)

\* Handlers are finitely many, and so are those stop waits for.
LEMMA CountedFinite ==
  /\ IsFiniteSet(Counted) /\ Cardinality(Counted) \in Nat
  /\ Cardinality(Counted) <= Cardinality(Clients)
  /\ Cardinality(Clients) \in Nat
<1>1. Counted \in SUBSET Clients
  BY DEF Counted
<1> QED BY <1>1, ClientsAssumption, FS_Subset, FS_CardinalityType

\* The order of the naturals, as a relation that the library's theorem on minima takes.
LEMMA DescriptorOrder ==
  \E R : IsWellFoundedOn(R, Nat) /\ \A f, g \in Nat : <<g, f>> \in R <=> g < f
<1> DEFINE R == OpToRel(<, Nat)
<1>1. IsWellFoundedOn(R, Nat) /\ \A f, g \in Nat : <<g, f>> \in R <=> g < f
  <2>1. IsWellFoundedOn(R, Nat)
    BY NatLessThanWellFounded
  <2>2. \A f, g \in Nat : <<g, f>> \in R <=> g < f
    BY DEF OpToRel
  <2> QED BY <2>1, <2>2
<1> HIDE DEF R
<1> QED BY <1>1

\* A nonempty set of naturals has a lowest.
LEMMA LowestExists ==
  ASSUME NEW fs \in SUBSET Nat, fs # {}
  PROVE  \E f \in fs : \A g \in fs : f <= g
<1>1. PICK R : IsWellFoundedOn(R, Nat) /\ \A f, g \in Nat : <<g, f>> \in R <=> g < f
  BY DescriptorOrder
<1>2. PICK f \in fs : \A g \in fs : ~(<<g, f>> \in R)
  BY <1>1, WFMin
<1>3. ASSUME NEW g \in fs PROVE f <= g
  <2>1. f \in Nat /\ g \in Nat /\ ~(g < f)
    BY <1>1, <1>2
  <2> QED BY <2>1
<1> QED BY <1>3

\* The lowest of some descriptors is one of them.
LEMMA LowestIsOne ==
  ASSUME NEW fs \in SUBSET FDs, fs # {}
  PROVE  Lowest(fs) \in fs
<1>1. fs \in SUBSET Nat
  BY FDsAssumption
<1>2. \E f \in fs : \A g \in fs : f <= g
  BY <1>1, LowestExists
<1> QED BY <1>2 DEF Lowest

\* Before there is a descriptor for c there is a free one: each of the others is one
\* other client's, or the listener.
LEMMA OneIsFree ==
  ASSUME Inv, NEW c \in Clients, \A f \in FDs : files[f] # c
  PROVE  Free # {} /\ Lowest(Free) \in FDs /\ files[Lowest(Free)] = "free"
<1>1. SUFFICES Free # {}
  BY LowestIsOne DEF Free
<1>2. SUFFICES ASSUME Free = {} PROVE FALSE
  OBVIOUS
<1>3. \A f \in FDs : files[f] \in Clients \cup {"listener"}
  BY <1>2 DEF Free, Inv, TypesInv, TypeOK
<1>4. PICK g : g = [f \in FDs |-> IF files[f] = "listener" THEN c ELSE files[f]]
  OBVIOUS
<1>5. g \in [FDs -> Clients]
  BY <1>3, <1>4
<1>6. ASSUME NEW a \in FDs, NEW b \in FDs, g[a] = g[b] PROVE a = b
  BY <1>3, <1>4, <1>6 DEF Inv, FilesInv
<1>7. g \in Injection(FDs, Clients)
  BY <1>5, <1>6 DEF Injection, IsInjective
<1>8. Cardinality(FDs) <= Cardinality(Clients)
  BY <1>7, ClientsAssumption, FS_Injection
<1> QED BY <1>8, FDsAssumption, FS_CardinalityType, ClientsAssumption, <1>7, FS_Injection

-----------------------------------------------------------------------------
(* main                                                                      *)

\* A server that has been stopped, or never started, has nothing open.
LEMMA StoppedHasNothing ==
  ASSUME Inv, main = "idle", ~m_running
  PROVE  /\ acceptor = "off" /\ streamer = "off"
         /\ \A f \in FDs : files[f] = "free"
         /\ m_client_sockets = {} /\ DOMAIN m_sessions = {}
         /\ \A c \in Clients : handler[c] \in {"none", "notify", "done"}
<1>1. acceptor = "off" /\ streamer = "off" /\ Counted = {}
  BY DEF Inv, ThreadsInv
<1>2. \A c \in Clients : handler[c] \in {"none", "notify", "done"}
  BY <1>1 DEF Counted, Inv, TypesInv
<1>3. \A f \in FDs : files[f] = "free"
  BY <1>1, <1>2 DEF Inv, TypesInv, TypeOK, FilesInv, Holding, Serving
<1>4. m_client_sockets \cup DOMAIN m_sessions = {}
  BY <1>2 DEF Inv, FilesInv, Serving
<1> QED BY <1>1, <1>2, <1>3, <1>4

LEMMA StartKeepsInv ==
  ASSUME Inv, start
  PROVE  Inv'
<1>1. /\ main = "idle" /\ ~m_running /\ acceptor = "off" /\ streamer = "off" /\ Counted = {}
      /\ UNCHANGED <<main, accepted, peer, tables, threads, history>>
  BY DEF start, Inv, ThreadsInv
<1>2. /\ \A f \in FDs : files[f] = "free"
      /\ m_client_sockets = {} /\ DOMAIN m_sessions = {}
      /\ \A c \in Clients : handler[c] \in {"none", "notify", "done"}
  BY <1>1, StoppedHasNothing
<1>3. Free = FDs /\ FDs # {}
  <2>1. Cardinality({}) = 0 /\ Cardinality(Clients) \in Nat
    BY ClientsAssumption, FS_CardinalityType, FS_EmptySet
  <2>2. FDs # {}
    BY <2>1, FDsAssumption
  <2> QED BY <2>2, <1>2 DEF Free
<1>4. Lowest(Free) \in FDs
  BY <1>3, LowestIsOne
<1>5. Counted' = Counted
  BY <1>1 DEF Counted, threads
<1>6. CASE StartFails
  <2>1. TypesInv'
    BY <1>1, <1>4, <1>6 DEF StartFails, start, Inv, TypesInv, TypeOK, tables, threads, history
  <2>2. ThreadsInv'
    BY <1>1, <1>5, <1>6 DEF StartFails, Inv, ThreadsInv, threads
  <2>3. FilesInv' /\ RunningInv'
    BY <1>1, <1>2, <1>6, ClientsAssumption DEF StartFails, FilesInv, RunningInv, TablesKept, tables
  <2> QED BY <2>1, <2>2, <2>3 DEF Inv
<1>7. CASE StartSucceeds
  <2>1. TypesInv'
    BY <1>1, <1>4, <1>7 DEF StartSucceeds, start, Inv, TypesInv, TypeOK, tables, threads, history
  <2>2. ThreadsInv'
    BY <1>1, <1>5, <1>7 DEF StartSucceeds, Inv, ThreadsInv, threads
  <2>3. FilesInv'
    BY <1>1, <1>2, <1>4, <1>7, ClientsAssumption
       DEF StartSucceeds, Inv, TypesInv, TypeOK, FilesInv, tables
  <2>4. RunningInv'
    BY <1>1, <1>2, <1>7 DEF StartSucceeds, RunningInv, TablesKept, tables, threads, Holding, Serving
  <2> QED BY <2>1, <2>2, <2>3, <2>4 DEF Inv
<1> QED BY <1>6, <1>7 DEF start

LEMMA StopKeepsInv ==
  ASSUME Inv, StopBegins \/ Stop
  PROVE  Inv'
<1>0. /\ Counted' = Counted
      /\ UNCHANGED <<acceptor, accepted, streamer, threads, history, m_rtp_sequence,
                     target_sockets>>
  BY DEF StopBegins, Stop, StopClearsClients, StopClosesListener, StopEnds, Counted, threads, stream
<1>1. CASE StopBegins
  <2>1. TypesInv'
    BY <1>0, <1>1 DEF StopBegins, Inv, TypesInv, TypeOK, tables, threads, history
  <2>2. ThreadsInv'
    BY <1>0, <1>1 DEF StopBegins, Inv, ThreadsInv, threads
  <2>3. FilesInv' /\ RunningInv'
    BY <1>0, <1>1 DEF StopBegins, Inv, FilesInv, RunningInv, TablesKept, tables, threads
  <2> QED BY <2>1, <2>2, <2>3 DEF Inv
<1>2. CASE StopClearsClients
  <2>0. ~m_running /\ ~m_running'
    BY <1>2 DEF StopClearsClients, Inv, ThreadsInv
  <2>1. TypesInv'
    BY <1>0, <1>2 DEF StopClearsClients, Closed, Inv, TypesInv, TypeOK, threads, history
  <2>2. ThreadsInv'
    BY <1>0, <1>2, <2>0 DEF StopClearsClients, Inv, ThreadsInv, threads
  <2>3. FilesInv' /\ RunningInv'
    BY <1>0, <1>2, <2>0, ClientsAssumption
       DEF StopClearsClients, Closed, Inv, FilesInv, RunningInv, TablesKept, threads
  <2> QED BY <2>1, <2>2, <2>3 DEF Inv
<1>3. CASE StopClosesListener
  <2>0. ~m_running /\ ~m_running'
    BY <1>3 DEF StopClosesListener, Inv, ThreadsInv
  <2>1. TypesInv'
    BY <1>0, <1>3 DEF StopClosesListener, Closed, Inv, TypesInv, TypeOK, tables, threads, history
  <2>2. ThreadsInv'
    <3>1. \A c \in Clients : peer[c] = "connected" => peer'[c] = "connected"
      BY <1>3 DEF StopClosesListener
    <3> QED BY <1>0, <1>3, <2>0, <3>1 DEF StopClosesListener, Inv, ThreadsInv, threads
  <2>3. FilesInv' /\ RunningInv'
    BY <1>0, <1>3, <2>0, ClientsAssumption
       DEF StopClosesListener, Closed, Inv, FilesInv, RunningInv, TablesKept, tables, threads
  <2> QED BY <2>1, <2>2, <2>3 DEF Inv
<1>4. CASE StopEnds
  <2>0. ~m_running /\ ~m_running' /\ Counted = {} /\ acceptor = "off" /\ streamer = "off"
    BY <1>4, CountedFinite, FS_EmptySet DEF StopEnds, AllJoined, Inv, ThreadsInv
  <2>1. TypesInv'
    BY <1>0, <1>4 DEF StopEnds, Inv, TypesInv, TypeOK, tables, threads, history
  <2>2. ThreadsInv'
    BY <1>0, <1>4, <2>0 DEF StopEnds, Inv, ThreadsInv, threads
  <2>3. FilesInv' /\ RunningInv'
    BY <1>0, <1>4, <2>0 DEF StopEnds, Inv, FilesInv, RunningInv, TablesKept, tables, threads
  <2> QED BY <2>1, <2>2, <2>3 DEF Inv
<1> QED BY <1>1, <1>2, <1>3, <1>4 DEF Stop

-----------------------------------------------------------------------------
(* server_loop                                                               *)

LEMMA AcceptorKeepsInv ==
  ASSUME Inv, Acceptor
  PROVE  Inv'
<1>0. UNCHANGED <<m_running, m_server_socket, main, stream, history>>
  BY DEF Acceptor
<1>1. CASE AcceptorChecks \/ AcceptNobody
  <2>0. /\ UNCHANGED <<accepted, files, peer, tables, threads>> /\ Counted' = Counted
        /\ acceptor # "register" /\ acceptor \in {"check", "accept"}
        /\ acceptor' \in {"check", "accept", "off"}
    BY <1>1 DEF AcceptorChecks, AcceptNobody, Counted, threads
  <2>1. TypesInv'
    BY <1>0, <2>0 DEF Inv, TypesInv, TypeOK, tables, threads, history, stream
  <2>2. ThreadsInv'
    BY <1>0, <2>0 DEF Inv, ThreadsInv, threads, stream
  <2>3. FilesInv' /\ RunningInv'
    BY <1>0, <2>0 DEF Inv, FilesInv, RunningInv, TablesKept, tables, threads
  <2> QED BY <2>1, <2>2, <2>3 DEF Inv
<1>2. ASSUME NEW c \in Clients, Accept(c) PROVE Inv'
  <2>0. /\ acceptor = "accept" /\ acceptor' = "register" /\ accepted' = c
        /\ UNCHANGED <<tables, handler, seq, m_active_threads>> /\ Counted' = Counted
        /\ peer[c] = "queued" /\ peer' = [peer EXCEPT ![c] = "connected"]
        /\ handler[c] = "none"
    BY <1>2 DEF Accept, Counted, Inv, ThreadsInv
  <2>1. \A f \in FDs : files[f] # c
    BY <2>0 DEF Inv, FilesInv, Holding, Serving
  <2>2. PICK fd \in FDs : fd = Lowest(Free) /\ files[fd] = "free"
    BY <2>1, OneIsFree
  <2>3. /\ files' = [files EXCEPT ![fd] = c]
        /\ client_socket' = [client_socket EXCEPT ![c] = fd]
    BY <1>2, <2>2 DEF Accept
  <2>4. TypesInv'
    BY <1>0, <2>0, <2>3 DEF Inv, TypesInv, TypeOK, tables, history, stream
  <2>5. ThreadsInv'
    BY <1>0, <2>0, <2>3 DEF Inv, TypesInv, TypeOK, ThreadsInv
  <2>6. FilesInv'
    BY <1>0, <2>0, <2>1, <2>3, ClientsAssumption
       DEF Inv, TypesInv, TypeOK, FilesInv, tables, Holding, Serving
  <2>7. RunningInv'
    BY <1>0, <2>0, <2>2, <2>3, ClientsAssumption
       DEF Inv, TypesInv, TypeOK, ThreadsInv, RunningInv, TablesKept, tables, Holding, Serving
  <2> QED BY <2>4, <2>5, <2>6, <2>7 DEF Inv
<1>3. CASE Register
  <2>1. PICK c \in Clients : c = accepted /\ handler[c] = "none" /\ peer[c] = "connected"
    BY <1>3 DEF Register, Inv, ThreadsInv
  <2>2. /\ acceptor = "register" /\ acceptor' = "check" /\ accepted' = "none"
        /\ m_client_sockets' = m_client_sockets \cup {client_socket[c]}
        /\ DOMAIN m_sessions' = DOMAIN m_sessions \cup {client_socket[c]}
        /\ m_sessions' = Entered(client_socket[c], FALSE)
        /\ m_active_threads' = m_active_threads + 1
        /\ handler' = [handler EXCEPT ![c] = "check"]
        /\ UNCHANGED <<files, peer, client_socket, seq>>
    BY <1>3, <2>1 DEF Register, Count, Entered
  <2>3. c \notin Counted /\ Counted' = Counted \cup {c} /\ client_socket[c] \in FDs
    BY <2>1, <2>2, <1>3 DEF Counted, Holding, Serving, Inv, TypesInv, ThreadsInv, Register
  <2>4. m_active_threads' = Cardinality(Counted')
    BY <2>2, <2>3, CountedFinite, FS_AddElement DEF Inv, ThreadsInv
  <2>5. m_active_threads' \in 0 .. Cardinality(Clients)
    <3>1. Counted' \in SUBSET Clients
      BY DEF Counted
    <3> QED BY <3>1, <2>4, ClientsAssumption, FS_Subset, FS_CardinalityType
  <2>6. TypesInv'
    <3>1. \A f \in DOMAIN m_sessions' : m_sessions'[f] \in BOOLEAN
      BY <2>2 DEF Entered, Inv, TypesInv, TypeOK
    <3> QED BY <1>0, <2>2, <2>3, <2>5, <3>1
            DEF Inv, TypesInv, TypeOK, history, stream, Holding, Serving
  <2>7. ThreadsInv'
    <3>1. main = "idle" => m_running
      BY <2>2 DEF Inv, ThreadsInv
    <3> QED BY <1>0, <2>1, <2>2, <2>3, <2>4, <3>1 DEF Inv, TypesInv, ThreadsInv, stream
  <2>8. FilesInv'
    BY <1>0, <2>1, <2>2 DEF Inv, TypesInv, FilesInv, Holding, Serving
  <2>9. RunningInv'
    BY <1>0, <2>1, <2>2 DEF Inv, TypesInv, RunningInv, TablesKept, Holding, Serving
  <2> QED BY <2>6, <2>7, <2>8, <2>9 DEF Inv
<1> QED BY <1>1, <1>2, <1>3 DEF Acceptor

-----------------------------------------------------------------------------
(* handle_client, streaming_loop and the clients                             *)

\* What no step of a handler touches.
LEMMA HandlerFrame ==
  ASSUME Inv, NEW c \in Clients, Handler(c)
  PROVE  /\ UNCHANGED <<m_running, m_server_socket, main, acceptor, accepted, peer,
                        client_socket, stream>>
         /\ handler[c] # "none" /\ peer[c] = "connected" /\ client_socket[c] \in FDs
         /\ handler[c] \in Holding \cup {"leave"} => ~(main = "idle" /\ ~m_running)
         /\ acceptor = "register" => accepted # c
<1>1. handler[c] # "none"
  BY DEF Handler, HandlerChecks, ReceiveNothing, ReceiveRequest, Play, LoadSeq, AnswerPlay,
         Forget, Close, Leave, Notify
<1>2. handler[c] \in Holding \cup {"leave"} => Counted # {}
  BY DEF Counted
<1> QED BY <1>1, <1>2 DEF Handler, Inv, ThreadsInv

\* A step that changes neither descriptors nor the list of sockets, from one state of
\* those that will erase an entry to another, or entering a session.
LEMMA ServingKeepsInv ==
  ASSUME Inv, NEW c \in Clients, Handler(c),
         HandlerChecks(c) \/ ReceiveNothing(c) \/ ReceiveRequest(c)
           \/ Play(c) \/ LoadSeq(c) \/ AnswerPlay(c)
  PROVE  Inv'
<1>1. /\ UNCHANGED <<m_running, m_server_socket, main, acceptor, accepted, peer,
                     client_socket, stream>>
      /\ client_socket[c] \in FDs /\ peer[c] = "connected"
      /\ acceptor = "register" => accepted # c
  BY HandlerFrame
<1>2. /\ handler[c] \in Serving
      /\ handler' \in {[handler EXCEPT ![c] = pc] : pc \in Serving}
      /\ UNCHANGED <<files, m_client_sockets, m_active_threads>>
      /\ m_sessions' = m_sessions \/ m_sessions' = Entered(client_socket[c], TRUE)
  BY DEF HandlerChecks, ReceiveNothing, ReceiveRequest, Play, LoadSeq, AnswerPlay, Goto,
         Serving, tables
<1>3. /\ seq' \in [Clients -> 0 .. MaxPackets \cup {NotYet}]
      /\ announced' \in [Clients -> 0 .. MaxPackets \cup {NotYet}]
  <2>1. /\ seq \in [Clients -> 0 .. MaxPackets \cup {NotYet}]
        /\ announced \in [Clients -> 0 .. MaxPackets \cup {NotYet}]
        /\ m_rtp_sequence \in 0 .. MaxPackets
    BY DEF Inv, TypesInv, TypeOK
  <2>2. CASE HandlerChecks(c) \/ ReceiveNothing(c) \/ ReceiveRequest(c) \/ Play(c)
    BY <2>1, <2>2 DEF HandlerChecks, ReceiveNothing, ReceiveRequest, Play
  <2>3. CASE LoadSeq(c)
    BY <2>1, <2>3 DEF LoadSeq, RtpInfoSeq
  <2>4. CASE AnswerPlay(c)
    BY <2>1, <2>4 DEF AnswerPlay
  <2> QED BY <2>2, <2>3, <2>4
<1>4. PICK pc \in Serving : handler' = [handler EXCEPT ![c] = pc]
  BY <1>2
<1>5. Counted' = Counted /\ c \in Counted
  BY <1>2, <1>4 DEF Counted, Holding, Inv, TypesInv
<1>6. /\ DOMAIN m_sessions' = DOMAIN m_sessions \/ DOMAIN m_sessions' = DOMAIN m_sessions \cup {client_socket[c]}
      /\ \A f \in DOMAIN m_sessions' : m_sessions'[f] \in BOOLEAN
  BY <1>2 DEF Entered, Inv, TypesInv, TypeOK
<1>7. TypesInv'
  BY <1>1, <1>2, <1>3, <1>4, <1>6 DEF Inv, TypesInv, TypeOK, stream, Holding
<1>8. ThreadsInv'
  BY <1>1, <1>2, <1>4, <1>5 DEF Inv, TypesInv, ThreadsInv, stream
<1>9. FilesInv'
  BY <1>1, <1>2, <1>4, <1>6 DEF Inv, TypesInv, FilesInv, Holding, Serving
<1>10. RunningInv'
  BY <1>1, <1>2, <1>4, <1>6 DEF Inv, TypesInv, RunningInv, TablesKept, Holding
<1> QED BY <1>7, <1>8, <1>9, <1>10 DEF Inv

LEMMA ForgetKeepsInv ==
  ASSUME Inv, NEW c \in Clients, Handler(c), Forget(c)
  PROVE  Inv'
<1>1. /\ UNCHANGED <<m_running, m_server_socket, main, acceptor, accepted, peer,
                     client_socket, stream>>
      /\ client_socket[c] \in FDs /\ peer[c] = "connected"
      /\ acceptor = "register" => accepted # c
  BY HandlerFrame
<1>2. /\ handler[c] = "erase" /\ handler' = [handler EXCEPT ![c] = "close"]
      /\ DOMAIN m_sessions' = DOMAIN m_sessions \ {client_socket[c]}
      /\ \A f \in DOMAIN m_sessions' : m_sessions'[f] = m_sessions[f]
      /\ m_client_sockets' = m_client_sockets \ {client_socket[c]}
      /\ UNCHANGED <<files, m_active_threads, seq, announced>>
  BY DEF Forget, Erased, Goto
<1>3. Counted' = Counted
  BY <1>2 DEF Counted, Holding, Serving, Inv, TypesInv
<1>4. TypesInv'
  BY <1>1, <1>2 DEF Inv, TypesInv, TypeOK, stream, Holding
<1>5. ThreadsInv'
  BY <1>1, <1>2, <1>3 DEF Inv, TypesInv, ThreadsInv, stream
<1>6. FilesInv'
  BY <1>1, <1>2 DEF Inv, TypesInv, FilesInv, Holding, Serving
<1>7. RunningInv'
  BY <1>1, <1>2 DEF Inv, TypesInv, RunningInv, TablesKept, Holding, Serving
<1> QED BY <1>4, <1>5, <1>6, <1>7 DEF Inv

LEMMA CloseKeepsInv ==
  ASSUME Inv, NEW c \in Clients, Handler(c), Close(c)
  PROVE  Inv'
<1>1. /\ UNCHANGED <<m_running, m_server_socket, main, acceptor, accepted, peer,
                     client_socket, stream>>
      /\ client_socket[c] \in FDs /\ peer[c] = "connected"
      /\ acceptor = "register" => accepted # c
  BY HandlerFrame
<1>2. /\ handler[c] = "close" /\ handler' = [handler EXCEPT ![c] = "leave"]
      /\ files' = [f \in FDs |-> IF f = client_socket[c] THEN "free" ELSE files[f]]
      /\ UNCHANGED <<m_sessions, m_client_sockets, m_active_threads, seq, announced>>
  BY DEF Close, Closed, Goto, tables
<1>3. Counted' = Counted
  BY <1>2 DEF Counted, Holding, Serving, Inv, TypesInv
<1>4. TypesInv'
  BY <1>1, <1>2 DEF Inv, TypesInv, TypeOK, stream, Holding
<1>5. ThreadsInv'
  BY <1>1, <1>2, <1>3 DEF Inv, TypesInv, ThreadsInv, stream
<1>6. FilesInv'
  BY <1>1, <1>2, ClientsAssumption DEF Inv, TypesInv, FilesInv, Holding, Serving
<1>7. RunningInv'
  BY <1>1, <1>2 DEF Inv, TypesInv, ThreadsInv, RunningInv, TablesKept, Holding, Serving
<1> QED BY <1>4, <1>5, <1>6, <1>7 DEF Inv

LEMMA LeavingKeepsInv ==
  ASSUME Inv, NEW c \in Clients, Handler(c), Leave(c) \/ Notify(c)
  PROVE  Inv'
<1>1. /\ UNCHANGED <<m_running, m_server_socket, main, acceptor, accepted, peer,
                     client_socket, stream>>
      /\ client_socket[c] \in FDs /\ peer[c] = "connected"
      /\ handler[c] \in Holding \cup {"leave"} => ~(main = "idle" /\ ~m_running)
      /\ acceptor = "register" => accepted # c
  BY HandlerFrame
<1>2. /\ handler[c] \in {"leave", "notify"}
      /\ handler' \in {[handler EXCEPT ![c] = pc] : pc \in {"notify", "done"}}
      /\ UNCHANGED <<files, m_sessions, m_client_sockets, seq, announced>>
  BY DEF Leave, Notify, Goto, tables
<1>3. PICK pc \in {"notify", "done"} : handler' = [handler EXCEPT ![c] = pc]
  BY <1>2
<1>4. /\ m_active_threads' = Cardinality(Counted')
      /\ m_active_threads' \in 0 .. Cardinality(Clients)
      /\ main = "idle" /\ ~m_running => Counted' = {}
  <2>1. CASE Leave(c)
    <3>1. c \in Counted /\ Counted' = Counted \ {c}
      BY <1>3, <2>1 DEF Leave, Counted, Holding, Serving, Inv, TypesInv
    <3>2. m_active_threads' = m_active_threads - 1
      BY <2>1, CountedFinite DEF Leave, Count, Inv, ThreadsInv
    <3>3. Cardinality(Counted') = Cardinality(Counted) - 1 /\ Cardinality(Counted') \in Nat
      BY <3>1, CountedFinite, FS_RemoveElement, FS_CardinalityType
    <3> QED BY <3>1, <3>2, <3>3, <1>1, <2>1, CountedFinite DEF Leave, Inv, ThreadsInv
  <2>2. CASE Notify(c)
    <3>1. Counted' = Counted /\ UNCHANGED m_active_threads
      BY <1>3, <2>2 DEF Notify, Counted, Holding, Serving, Inv, TypesInv
    <3> QED BY <3>1 DEF Inv, TypesInv, TypeOK, ThreadsInv
  <2> QED BY <2>1, <2>2
<1>5. TypesInv'
  BY <1>1, <1>2, <1>3, <1>4 DEF Inv, TypesInv, TypeOK, stream, Holding
<1>6. ThreadsInv'
  BY <1>1, <1>2, <1>3, <1>4 DEF Inv, TypesInv, ThreadsInv, stream
<1>7. FilesInv'
  BY <1>1, <1>2, <1>3 DEF Inv, TypesInv, FilesInv, Holding, Serving
<1>8. RunningInv'
  BY <1>1, <1>2, <1>3 DEF Inv, TypesInv, RunningInv, TablesKept, Holding, Serving
<1> QED BY <1>5, <1>6, <1>7, <1>8 DEF Inv

\* The streaming thread reads the tables and changes nothing but the stream.
LEMMA StreamerKeepsInv ==
  ASSUME Inv, Streamer
  PROVE  Inv'
<1>1. UNCHANGED <<m_running, m_server_socket, main, acceptor, accepted, files, peer,
                  tables, threads, announced>>
  BY DEF Streamer
<1>2. m_rtp_sequence' \in 0 .. MaxPackets /\ target_sockets' \subseteq FDs
  <2>1. CASE StreamerChecks \/ SentToAll \/ SendToNext
    BY <2>1 DEF StreamerChecks, SentToAll, SendToNext, Inv, TypesInv, TypeOK
  <2>2. CASE TakePacket
    BY <2>2, MaxPacketsAssumption DEF TakePacket, Inv, TypesInv, TypeOK
  <2>3. CASE Snapshot
    BY <2>3 DEF Snapshot, Inv, TypesInv, TypeOK
  <2> QED BY <2>1, <2>2, <2>3 DEF Streamer
<1>3. Counted' = Counted
  BY <1>1 DEF Counted, threads
<1>4. TypesInv'
  BY <1>1, <1>2 DEF Inv, TypesInv, TypeOK, tables, threads
<1>5. ThreadsInv'
  <2>1. streamer # "off"
    BY DEF Streamer, StreamerChecks, TakePacket, Snapshot, SendToNext, SentToAll
  <2> QED BY <1>1, <1>3, <2>1 DEF Inv, ThreadsInv, threads
<1>6. FilesInv' /\ RunningInv'
  BY <1>1 DEF Inv, FilesInv, RunningInv, TablesKept, tables, threads
<1> QED BY <1>4, <1>5, <1>6 DEF Inv

LEMMA ConnectKeepsInv ==
  ASSUME Inv, NEW c \in Clients, Connect(c)
  PROVE  Inv'
<1>1. /\ UNCHANGED <<m_running, m_server_socket, main, acceptor, accepted, files, tables,
                     threads, stream, history>>
      /\ peer[c] = "away" /\ peer' = [peer EXCEPT ![c] = "queued"]
  BY DEF Connect
<1>2. Counted' = Counted
  BY <1>1 DEF Counted, threads
<1>3. TypesInv'
  BY <1>1 DEF Inv, TypesInv, TypeOK, tables, threads, stream, history
<1>4. ThreadsInv'
  BY <1>1, <1>2 DEF Inv, TypesInv, ThreadsInv, threads, stream
<1>5. FilesInv' /\ RunningInv'
  BY <1>1 DEF Inv, FilesInv, RunningInv, TablesKept, tables, threads
<1> QED BY <1>3, <1>4, <1>5 DEF Inv

-----------------------------------------------------------------------------
(* The media.  Once stop begins no packet gets a number any more; until it has
   cleared the tables every handler's descriptor is its own client's.  So a client
   either plays by its own request, or is sent the last packet at most.         *)

\* The number from which on client c is to get every packet: the one announced to it,
\* or the one its thread has read and is about to announce.
Promised(c) == IF announced[c] # NotYet THEN announced[c] ELSE seq[c]

\* Client c was sent whatever was numbered from the promised one up to n.
HasAllBelow(c, n) == \A k \in Int : Promised(c) <= k /\ k < n => k \in got[c]

\* The packet taken last has yet to be sent to f, if f plays.
ToBeSent(f) == streamer = "snapshot" \/ (streamer = "send" /\ f \in target_sockets)

Plays(f) == f \in DOMAIN m_sessions /\ m_sessions[f]

\* What was sent has a number, no number is promised that is not yet due, one is in a
\* thread's hands only while it answers, and a client that was not accepted has
\* neither asked nor been promised or sent anything.
NumbersInv ==
  /\ \A c \in Clients : \A n \in got[c] : n \in Int /\ n < m_rtp_sequence
  /\ \A c \in Clients : Promised(c) <= m_rtp_sequence
  /\ \A c \in Clients : handler[c] = "answer" <=> seq[c] # NotYet
  /\ \A c \in Clients : handler[c] = "none" => announced[c] = NotYet
  /\ \A c \in Clients : peer[c] \in {"away", "queued"} => got[c] = {} /\ c \notin asked

NoGaps ==
  \A c \in Clients : Promised(c) # NotYet =>
    \A n \in got[c] : \A k \in Int : Promised(c) <= k /\ k <= n => k \in got[c]

\* One that was promised a number has everything before the packet being sent, and that
\* one too or is about to be sent it, as long as its session plays ...
AnsweredInv ==
  \A f \in FDs : \A c \in Clients : files[f] = c /\ Promised(c) # NotYet =>
    /\ Plays(f) => /\ HasAllBelow(c, m_rtp_sequence - 1)
                   /\ HasAllBelow(c, m_rtp_sequence) \/ ToBeSent(f)
    /\ streamer = "send" /\ f \in target_sockets => HasAllBelow(c, m_rtp_sequence - 1)

\* ... which it does, until stop clears the tables, while its handler has not begun to
\* leave. After that no handler on its way to an answer has its connection any more,
\* and one that was promised a number and still has is about to close it: its session is
\* gone, and no other thread can make it again.
Answering == {"recv", "play", "load", "answer"}

AnswersInv ==
  /\ TablesKept => \A c \in Clients :
       \/ handler[c] \in {"load", "answer"}
       \/ handler[c] \in Serving \ {"erase"} /\ announced[c] # NotYet
       => Plays(client_socket[c])
  /\ ~TablesKept => \A c \in Clients : handler[c] \in Answering => files[client_socket[c]] # c
  /\ ~TablesKept => \A f \in FDs : \A c \in Clients : files[f] = c /\ Promised(c) # NotYet =>
       /\ handler[c] = "close" /\ ~Plays(f)
       /\ \A d \in Clients : handler[d] \in {"recv", "play"} => client_socket[d] # f

\* Who has not asked plays by the request of another only, when numbers have ended,
\* and was sent no packet but the last.
OnlyTheLast(c) == got[c] \subseteq {m_rtp_sequence - 1}

StrayInv ==
  /\ \A c \in Clients : c \notin asked => \E n \in Int : got[c] \subseteq {n}
  /\ \A c \in Clients : TablesKept /\ handler[c] = "play" => c \in asked
  /\ \A f \in FDs : \A c \in Clients : files[f] = c /\ c \notin asked =>
       /\ streamer = "send" /\ f \in target_sockets => OnlyTheLast(c)
       /\ Plays(f) => ~TablesKept /\ OnlyTheLast(c)
       /\ \A d \in Clients :
            handler[d] \in {"recv", "play"} /\ client_socket[d] = f /\ ~TablesKept
            => OnlyTheLast(c)

MediaInv == NumbersInv /\ NoGaps /\ AnsweredInv /\ AnswersInv /\ StrayInv

\* An open descriptor stands for one connection, which is its own.
LEMMA OwnFile ==
  ASSUME Inv, NEW f \in FDs, NEW c \in Clients, files[f] = c
  PROVE  /\ client_socket[c] = f /\ peer[c] = "connected"
         /\ handler[c] \in Holding \/ (acceptor = "register" /\ accepted = c /\ handler[c] = "none")
<1>1. files[f] \in Clients
  OBVIOUS
<1>2. /\ client_socket[c] = f
      /\ handler[c] \in Holding \/ (acceptor = "register" /\ accepted = c)
  BY <1>1 DEF Inv, FilesInv
<1> QED BY <1>2 DEF Inv, ThreadsInv, Holding, Serving

\* A connection that is served is, until stop clears the tables, at the descriptor its
\* thread was given and nobody else's.
LEMMA OwnThread ==
  ASSUME Inv, TablesKept, NEW c \in Clients, NEW d \in Clients, NEW f \in FDs,
         files[f] = c, handler[d] \in Holding, client_socket[d] = f
  PROVE  d = c
BY DEF Inv, RunningInv

LEMMA StartKeepsMedia ==
  ASSUME Inv, MediaInv, start
  PROVE  MediaInv'
<1>1. /\ main = "idle" /\ ~m_running
      /\ UNCHANGED <<main, accepted, peer, handler, client_socket, seq, m_sessions,
                     target_sockets, m_rtp_sequence, asked, announced, got>>
  BY DEF start, tables, threads, history
<1>2. /\ \A f \in FDs : files[f] = "free"
      /\ DOMAIN m_sessions = {}
      /\ \A c \in Clients : handler[c] \in {"none", "notify", "done"}
  BY <1>1, StoppedHasNothing
<1>3. \A f \in FDs : files'[f] \notin Clients
  BY <1>1, <1>2, ClientsAssumption
     DEF start, StartFails, StartSucceeds, Inv, TypesInv, TypeOK
<1>4. NumbersInv' /\ NoGaps'
  BY <1>1 DEF MediaInv, NumbersInv, NoGaps, Promised
<1>5. AnsweredInv'
  BY <1>3 DEF AnsweredInv
<1>6. AnswersInv'
  BY <1>1, <1>2, <1>3 DEF AnswersInv, Serving, Answering
<1>7. StrayInv'
  BY <1>1, <1>2, <1>3 DEF MediaInv, StrayInv
<1> QED BY <1>4, <1>5, <1>6, <1>7 DEF MediaInv

LEMMA StopKeepsMedia ==
  ASSUME Inv, MediaInv, StopBegins \/ Stop
  PROVE  MediaInv'
<1>0. UNCHANGED <<acceptor, accepted, handler, client_socket, seq, streamer, target_sockets,
                  m_rtp_sequence, asked, announced, got>>
  BY DEF StopBegins, Stop, StopClearsClients, StopClosesListener, StopEnds, threads, stream, history
<1>1. \A c \in Clients : peer'[c] \in {"away", "queued"} => peer[c] \in {"away", "queued"}
  BY DEF StopBegins, Stop, StopClearsClients, StopClosesListener, StopEnds
<1>2. NumbersInv' /\ NoGaps'
  BY <1>0, <1>1 DEF MediaInv, NumbersInv, NoGaps, Promised
<1>3. \A f \in FDs : files'[f] \in Clients => files'[f] = files[f]
  BY ClientsAssumption
     DEF StopBegins, Stop, StopClearsClients, StopClosesListener, StopEnds, Closed
<1>4. \A f : Plays(f)' => Plays(f)
  BY DEF StopBegins, Stop, StopClearsClients, StopClosesListener, StopEnds, tables, Plays
<1>5. AnsweredInv'
  BY <1>0, <1>3, <1>4 DEF MediaInv, AnsweredInv, HasAllBelow, ToBeSent, Promised
<1>6. CASE StopBegins
  <2>1. /\ TablesKept /\ TablesKept' /\ UNCHANGED <<m_sessions, files>> /\ main = "idle"
    BY <1>6 DEF StopBegins, TablesKept, tables
  <2>2. AnswersInv'
    BY <1>0, <2>1 DEF MediaInv, AnswersInv, Plays
  <2>3. StrayInv'
    BY <1>0, <2>1 DEF MediaInv, StrayInv, Plays, OnlyTheLast
  <2> QED BY <1>2, <1>5, <2>2, <2>3 DEF MediaInv
<1>7. CASE StopClearsClients
  <2>1. /\ TablesKept /\ ~TablesKept' /\ main = "clear" /\ DOMAIN m_sessions' = {}
    BY <1>7 DEF StopClearsClients, TablesKept, Inv, ThreadsInv
  <2>2. \A f \in FDs : \A d \in Clients : handler[d] \in Serving /\ client_socket[d] = f => files'[f] \notin Clients
    BY <1>7, <2>1, ClientsAssumption DEF StopClearsClients, Closed, Inv, RunningInv
  <2>3. AnswersInv'
    <3>1. ASSUME NEW c \in Clients, handler[c] \in Answering PROVE files'[client_socket[c]] # c
      <4>1. handler[c] \in Serving /\ client_socket[c] \in FDs
        BY <3>1 DEF Answering, Serving, Inv, ThreadsInv
      <4> QED BY <2>2, <4>1
    <3>2. ASSUME NEW f \in FDs, NEW c \in Clients, files'[f] = c, Promised(c) # NotYet
          PROVE  handler[c] = "close"
      <4>1. client_socket[c] = f /\ (handler[c] \in Holding \/ handler[c] = "none")
        BY <1>3, <3>2, OwnFile
      <4>2. handler[c] # "none"
        BY <3>2 DEF MediaInv, NumbersInv, Promised
      <4> QED BY <2>2, <3>2, <4>1, <4>2 DEF Holding
    <3>3. ASSUME NEW f \in FDs, files'[f] \in Clients, NEW d \in Clients,
                 handler[d] \in {"recv", "play"}
          PROVE  client_socket[d] # f
      BY <2>2, <3>3 DEF Serving
    <3>4. \A f : ~Plays(f)'
      BY <2>1 DEF Plays
    <3> QED BY <1>0, <2>1, <3>1, <3>2, <3>3, <3>4 DEF AnswersInv, Promised
  <2>4. StrayInv'
    BY <1>0, <1>3, <2>1, <2>2 DEF MediaInv, StrayInv, Plays, OnlyTheLast, Serving
  <2> QED BY <1>2, <1>5, <2>3, <2>4 DEF MediaInv
<1>8. CASE StopClosesListener \/ StopEnds
  <2>1. ~TablesKept /\ ~TablesKept' /\ m_sessions' = m_sessions
    BY <1>8 DEF StopClosesListener, StopEnds, AllJoined, TablesKept, tables, Inv, ThreadsInv
  <2>2. AnswersInv'
    <3>1. ASSUME NEW c \in Clients, handler[c] \in Answering PROVE files'[client_socket[c]] # c
      <4>1. client_socket[c] \in FDs
        BY <3>1 DEF Answering, Inv, ThreadsInv
      <4> QED BY <1>3, <2>1, <3>1, <4>1 DEF MediaInv, AnswersInv
    <3> QED BY <1>0, <1>3, <2>1, <3>1 DEF MediaInv, AnswersInv, Plays, Promised
  <2>3. StrayInv'
    BY <1>0, <1>3, <2>1 DEF MediaInv, StrayInv, Plays, OnlyTheLast
  <2> QED BY <1>2, <1>5, <2>2, <2>3 DEF MediaInv
<1> QED BY <1>6, <1>7, <1>8 DEF Stop

LEMMA AcceptorKeepsMedia ==
  ASSUME Inv, MediaInv, Acceptor
  PROVE  MediaInv'
<1>0. /\ UNCHANGED <<m_running, main, streamer, target_sockets, m_rtp_sequence, asked,
                     announced, got>>
      /\ TablesKept' = TablesKept
  BY DEF Acceptor, stream, history, TablesKept
<1>1. CASE AcceptorChecks \/ AcceptNobody
  <2>1. UNCHANGED <<files, peer, m_sessions, handler, client_socket, seq>>
    BY <1>1 DEF AcceptorChecks, AcceptNobody, tables, threads
  <2>2. NumbersInv' /\ NoGaps' /\ AnsweredInv'
    BY <1>0, <2>1 DEF MediaInv, NumbersInv, NoGaps, AnsweredInv, HasAllBelow,
                      ToBeSent, Plays, Promised
  <2>3. AnswersInv' /\ StrayInv'
    BY <1>0, <2>1 DEF MediaInv, AnswersInv, StrayInv, OnlyTheLast, Plays, Promised
  <2> QED BY <2>2, <2>3 DEF MediaInv
<1>2. ASSUME NEW c \in Clients, Accept(c) PROVE MediaInv'
  <2>1. /\ UNCHANGED <<m_sessions, handler, seq>>
        /\ peer[c] = "queued" /\ peer' = [peer EXCEPT ![c] = "connected"]
        /\ handler[c] = "none"
    BY <1>2 DEF Accept, Inv, ThreadsInv, tables
  <2>2. \A f \in FDs : files[f] # c
    BY <1>2, <2>1 DEF Accept, Inv, FilesInv, Holding, Serving
  <2>3. PICK fd \in FDs : fd = Lowest(Free) /\ files[fd] = "free"
    BY <2>2, OneIsFree
  <2>4. /\ files' = [files EXCEPT ![fd] = c]
        /\ client_socket' = [client_socket EXCEPT ![c] = fd]
    BY <1>2, <2>3 DEF Accept
  <2>5. got[c] = {} /\ c \notin asked /\ Promised(c) = NotYet
    BY <2>1 DEF MediaInv, NumbersInv, Promised
  <2>6. /\ \A f \in FDs : files'[f] = files[f] \/ files'[f] = c
        /\ \A d \in Clients : d # c => client_socket'[d] = client_socket[d]
    BY <2>4 DEF Inv, TypesInv, TypeOK
  <2>7. NumbersInv' /\ NoGaps'
    BY <1>0, <2>1 DEF MediaInv, NumbersInv, NoGaps, Promised, Inv, TypesInv
  <2>8. AnsweredInv'
    BY <1>0, <2>1, <2>5, <2>6 DEF MediaInv, AnsweredInv, HasAllBelow, ToBeSent, Plays, Promised
  <2>9. AnswersInv'
    <3>1. ASSUME NEW d \in Clients, handler[d] # "none"
          PROVE  d # c /\ client_socket'[d] = client_socket[d] /\ client_socket[d] \in FDs
      BY <2>1, <2>6, <3>1 DEF Inv, ThreadsInv
    <3>2. TablesKept => \A d \in Clients :
            \/ handler[d] \in {"load", "answer"}
            \/ handler[d] \in Serving \ {"erase"} /\ announced[d] # NotYet
            => Plays(client_socket'[d])
      BY <3>1 DEF MediaInv, AnswersInv, Serving
    <3>3. ~TablesKept => \A d \in Clients :
            handler[d] \in Answering => files'[client_socket'[d]] # d
      BY <2>6, <3>1 DEF MediaInv, AnswersInv, Answering
    <3>4. ~TablesKept => \A f \in FDs : \A b \in Clients : files'[f] = b /\ Promised(b) # NotYet =>
            /\ handler[b] = "close" /\ ~Plays(f)
            /\ \A d \in Clients : handler[d] \in {"recv", "play"} => client_socket'[d] # f
      BY <2>5, <2>6, <3>1 DEF MediaInv, AnswersInv
    <3> QED BY <1>0, <2>1, <3>2, <3>3, <3>4 DEF AnswersInv, Plays, Promised
  <2>10. StrayInv'
    <3>1. /\ \A b \in Clients : b \notin asked' => \E n \in Int : got'[b] \subseteq {n}
          /\ \A b \in Clients : TablesKept' /\ handler'[b] = "play" => b \in asked'
      BY <1>0, <2>1 DEF MediaInv, StrayInv
    <3>2. ASSUME NEW f \in FDs, NEW b \in Clients, files'[f] = b, b \notin asked
          PROVE  /\ streamer = "send" /\ f \in target_sockets => OnlyTheLast(b)
                 /\ Plays(f) => ~TablesKept /\ OnlyTheLast(b)
                 /\ \A d \in Clients :
                      handler[d] \in {"recv", "play"} /\ client_socket'[d] = f /\ ~TablesKept
                      => OnlyTheLast(b)
      <4>1. CASE b = c
        <5>1. OnlyTheLast(b)
          BY <2>5, <4>1 DEF OnlyTheLast
        <5>2. f = fd
          BY <2>2, <2>4, <3>2, <4>1 DEF Inv, TypesInv, TypeOK
        <5>3. TablesKept => f \notin DOMAIN m_sessions
          BY <2>3, <5>2, ClientsAssumption DEF Inv, FilesInv, RunningInv, Holding
        <5> QED BY <5>1, <5>3 DEF Plays
      <4>2. CASE b # c
        BY <2>1, <2>6, <3>2, <4>2 DEF MediaInv, StrayInv
      <4> QED BY <4>1, <4>2
    <3> QED BY <1>0, <2>1, <3>1, <3>2 DEF StrayInv, OnlyTheLast, Plays
  <2> QED BY <2>7, <2>8, <2>9, <2>10 DEF MediaInv
<1>3. CASE Register
  <2>1. PICK c \in Clients : c = accepted /\ handler[c] = "none" /\ peer[c] = "connected"
    BY <1>3 DEF Register, Inv, ThreadsInv
  <2>2. /\ m_sessions' = Entered(client_socket[c], FALSE)
        /\ handler' = [handler EXCEPT ![c] = "check"]
        /\ UNCHANGED <<files, peer, client_socket, seq>>
        /\ Promised(c) = NotYet
    BY <1>3, <2>1 DEF Register, MediaInv, NumbersInv, Promised
  <2>3. \A f : Plays(f)' <=> Plays(f) /\ f # client_socket[c]
    BY <2>2 DEF Plays, Entered
  <2>4. /\ handler'[c] = "check"
        /\ \A d \in Clients : d # c => handler'[d] = handler[d]
    BY <2>2 DEF Inv, TypesInv
  <2>5. NumbersInv' /\ NoGaps'
    BY <1>0, <2>1, <2>2, <2>4 DEF MediaInv, NumbersInv, NoGaps, Promised
  <2>6. AnsweredInv'
    BY <1>0, <2>2, <2>3 DEF MediaInv, AnsweredInv, HasAllBelow, ToBeSent, Promised
  <2>7. AnswersInv'
    <3>1. announced[c] = NotYet
      BY <2>1 DEF MediaInv, NumbersInv
    <3>2. ASSUME NEW d \in Clients, d # c, TablesKept, handler[d] \in Serving
          PROVE  client_socket[d] # client_socket[c]
      BY <1>3, <2>1, <3>2 DEF Register, Inv, RunningInv, Holding
    <3>3. TablesKept => \A d \in Clients :
            \/ handler'[d] \in {"load", "answer"}
            \/ handler'[d] \in Serving \ {"erase"} /\ announced[d] # NotYet
            => Plays(client_socket[d])'
      BY <2>2, <2>3, <2>4, <3>1, <3>2 DEF MediaInv, AnswersInv, Serving
    <3>4. ~TablesKept => \A d \in Clients :
            handler'[d] \in Answering => files[client_socket[d]] # d
      BY <2>4 DEF MediaInv, AnswersInv, Answering
    <3>5. ~TablesKept => \A f \in FDs : \A b \in Clients : files[f] = b /\ Promised(b) # NotYet =>
            /\ handler'[b] = "close" /\ ~Plays(f)'
            /\ \A d \in Clients : handler'[d] \in {"recv", "play"} => client_socket[d] # f
      BY <2>2, <2>3, <2>4 DEF MediaInv, AnswersInv
    <3> QED BY <1>0, <2>2, <3>3, <3>4, <3>5 DEF AnswersInv, Promised
  <2>8. StrayInv'
    BY <1>0, <2>2, <2>3, <2>4 DEF MediaInv, StrayInv, OnlyTheLast
  <2> QED BY <2>5, <2>6, <2>7, <2>8 DEF MediaInv
<1> QED BY <1>1, <1>2, <1>3 DEF Acceptor

\* A handler goes on to pc, and nobody's descriptor, session or answer changes.
LEMMA MovingKeepsMedia ==
  ASSUME Inv, MediaInv, NEW c \in Clients, Handler(c), NEW pc,
         handler' = [handler EXCEPT ![c] = pc],
         UNCHANGED <<files, m_sessions, seq, announced>>,
         asked \subseteq asked',
         \A d \in Clients : d \in asked' => d \in asked \/ peer[d] = "connected",
         handler[c] \notin {"answer", "close"},
         pc \notin {"none", "load", "answer"},
         pc \in Serving \ {"erase"} => handler[c] \in Serving \ {"erase"},
         pc = "recv" => TablesKept,
         pc = "play" => handler[c] = "recv" /\ (TablesKept => c \in asked')
  PROVE  MediaInv'
<1>1. /\ UNCHANGED <<main, acceptor, accepted, peer, client_socket, streamer, target_sockets,
                     m_rtp_sequence, got>>
      /\ TablesKept' = TablesKept
  BY DEF Handler, stream, TablesKept
<1>2. /\ \A d \in Clients : d # c => handler'[d] = handler[d]
      /\ handler'[c] = pc
  BY DEF Inv, TypesInv
<1>3. NumbersInv' /\ NoGaps'
  BY <1>1, <1>2 DEF MediaInv, NumbersInv, NoGaps, Promised
<1>4. AnsweredInv'
  BY <1>1 DEF MediaInv, AnsweredInv, HasAllBelow, ToBeSent, Plays, Promised
<1>5. AnswersInv'
  <2>1. TablesKept => \A d \in Clients :
          \/ handler'[d] \in {"load", "answer"}
          \/ handler'[d] \in Serving \ {"erase"} /\ announced[d] # NotYet
          => Plays(client_socket[d])
    BY <1>2 DEF MediaInv, AnswersInv
  <2>2. ~TablesKept => \A d \in Clients :
          handler'[d] \in Answering => files[client_socket[d]] # d
    BY <1>2 DEF MediaInv, AnswersInv, Answering
  <2>3. ~TablesKept => \A f \in FDs : \A b \in Clients : files[f] = b /\ Promised(b) # NotYet =>
          /\ handler'[b] = "close" /\ ~Plays(f)
          /\ \A d \in Clients : handler'[d] \in {"recv", "play"} => client_socket[d] # f
    BY <1>2 DEF MediaInv, AnswersInv
  <2> QED BY <1>1, <2>1, <2>2, <2>3 DEF AnswersInv, Plays, Promised
<1>6. StrayInv'
  BY <1>1, <1>2 DEF MediaInv, StrayInv, Plays, OnlyTheLast
<1> QED BY <1>3, <1>4, <1>5, <1>6 DEF MediaInv

\* The request is of whoever is connected to the handler's descriptor: until stop
\* clears the tables, of the handler's own client.
LEMMA ReceivingKeepsMedia ==
  ASSUME Inv, MediaInv, NEW c \in Clients, Handler(c),
         HandlerChecks(c) \/ ReceiveNothing(c) \/ ReceiveRequest(c)
  PROVE  MediaInv'
<1>1. UNCHANGED <<files, m_sessions, seq, announced>> /\ handler[c] \in {"check", "recv"}
  BY DEF HandlerChecks, ReceiveNothing, ReceiveRequest, tables
<1>2. CASE HandlerChecks(c)
  BY <1>1, <1>2, MovingKeepsMedia DEF HandlerChecks, Goto, TablesKept, Serving
<1>3. CASE ReceiveNothing(c)
  BY <1>1, <1>3, MovingKeepsMedia DEF ReceiveNothing, Goto, Serving
<1>4. CASE ReceiveRequest(c)
  <2>1. CASE asked' = asked /\ (Goto(c, "check") \/ Goto(c, "erase"))
    BY <1>1, <2>1, MovingKeepsMedia DEF Goto, Serving
  <2>2. CASE Goto(c, "play") /\ asked' = asked \cup Connection(client_socket[c])
    <3>1. TablesKept => c \in asked'
      BY <1>1, <2>2, HandlerFrame DEF Connection, Inv, RunningInv, Holding, Serving
    <3>2. \A d \in Clients : d \in asked' => d \in asked \/ peer[d] = "connected"
      BY <2>2, OwnFile DEF Connection
    <3>3. handler[c] = "recv"
      BY <1>4 DEF ReceiveRequest
    <3> QED BY <1>1, <2>2, <3>1, <3>2, <3>3, MovingKeepsMedia DEF Goto, Serving
  <2> QED BY <1>4, <2>1, <2>2 DEF ReceiveRequest
<1> QED BY <1>2, <1>3, <1>4

\* A session is made to play before m_rtp_sequence is read for the answer. Whoever is
\* connected there and was promised a number plays already.
LEMMA PlayKeepsMedia ==
  ASSUME Inv, MediaInv, NEW c \in Clients, Handler(c), Play(c)
  PROVE  MediaInv'
<1>1. /\ UNCHANGED <<main, acceptor, accepted, peer, client_socket, streamer, target_sockets,
                     m_rtp_sequence, got, files, seq, asked, announced>>
      /\ TablesKept' = TablesKept
  BY DEF Handler, Play, stream, TablesKept
<1>2. /\ \A d \in Clients : d # c => handler'[d] = handler[d]
      /\ handler'[c] = "load" /\ handler[c] = "play"
  BY DEF Play, Goto, Inv, TypesInv
<1>3. \A f : Plays(f)' <=> Plays(f) \/ f = client_socket[c]
  BY DEF Play, Entered, Plays
<1>4. NumbersInv' /\ NoGaps'
  BY <1>1, <1>2 DEF MediaInv, NumbersInv, NoGaps, Promised
<1>5. ASSUME NEW f \in FDs, NEW d \in Clients, files[f] = d, Promised(d) # NotYet,
             f = client_socket[c]
      PROVE  TablesKept /\ Plays(f)
  <2>1. TablesKept
    BY <1>2, <1>5 DEF MediaInv, AnswersInv
  <2>2. d = c
    BY <1>2, <1>5, <2>1, OwnThread DEF Holding, Serving
  <2>3. announced[c] # NotYet
    BY <1>2, <1>5, <2>2 DEF MediaInv, NumbersInv, Promised
  <2> QED BY <1>2, <1>5, <2>1, <2>3 DEF MediaInv, AnswersInv, Serving
<1>6. AnsweredInv'
  BY <1>1, <1>3, <1>5 DEF MediaInv, AnsweredInv, HasAllBelow, ToBeSent, Promised
<1>7. AnswersInv'
  <2>1. TablesKept => \A d \in Clients :
          \/ handler'[d] \in {"load", "answer"}
          \/ handler'[d] \in Serving \ {"erase"} /\ announced[d] # NotYet
          => Plays(client_socket[d])'
    BY <1>1, <1>2, <1>3 DEF MediaInv, AnswersInv
  <2>2. ~TablesKept => \A d \in Clients :
          handler'[d] \in Answering => files[client_socket[d]] # d
    BY <1>2 DEF MediaInv, AnswersInv, Answering
  <2>3. ~TablesKept => \A f \in FDs : \A b \in Clients : files[f] = b /\ Promised(b) # NotYet =>
          /\ handler'[b] = "close" /\ ~Plays(f)'
          /\ \A d \in Clients : handler'[d] \in {"recv", "play"} => client_socket[d] # f
    BY <1>2, <1>3, <1>5 DEF MediaInv, AnswersInv
  <2> QED BY <1>1, <2>1, <2>2, <2>3 DEF AnswersInv, Promised
<1>8. StrayInv'
  <2>1. ASSUME NEW f \in FDs, NEW d \in Clients, files[f] = d, d \notin asked,
               f = client_socket[c]
        PROVE  ~TablesKept /\ OnlyTheLast(d)
    <3>1. ~TablesKept
      BY <1>2, <2>1, OwnThread DEF MediaInv, StrayInv, Holding, Serving
    <3> QED BY <1>2, <2>1, <3>1 DEF MediaInv, StrayInv
  <2> QED BY <1>1, <1>2, <1>3, <2>1 DEF MediaInv, StrayInv, OnlyTheLast
<1> QED BY <1>4, <1>6, <1>7, <1>8 DEF MediaInv

\* A number that is read now promises nothing that was sent before, and a thread that
\* still has its connection then has a session that plays.
LEMMA LoadKeepsMedia ==
  ASSUME Inv, MediaInv, NEW c \in Clients, Handler(c), LoadSeq(c)
  PROVE  MediaInv'
<1>1. /\ UNCHANGED <<main, acceptor, accepted, peer, client_socket, streamer, target_sockets,
                     m_rtp_sequence, m_sessions, got, files, asked, announced>>
      /\ TablesKept' = TablesKept
  BY DEF Handler, LoadSeq, stream, tables, TablesKept
<1>2. /\ \A d \in Clients : d # c => handler'[d] = handler[d] /\ seq'[d] = seq[d]
      /\ handler'[c] = "answer" /\ handler[c] = "load" /\ seq'[c] = m_rtp_sequence
  BY DEF LoadSeq, RtpInfoSeq, Goto, Inv, TypesInv, TypeOK
<1>3. /\ \A d \in Clients : d # c => Promised(d)' = Promised(d)
      /\ \/ Promised(c)' = Promised(c)
         \/ Promised(c)' = m_rtp_sequence
  BY <1>1, <1>2 DEF Promised
<1>4. m_rtp_sequence \in Nat /\ m_rtp_sequence # NotYet /\ client_socket[c] \in FDs
  BY HandlerFrame DEF Inv, TypesInv, TypeOK, NotYet
<1>5. NumbersInv'
  BY <1>1, <1>2, <1>3, <1>4 DEF MediaInv, NumbersInv
<1>6. NoGaps'
  <2>1. \A n \in got[c] : n \in Int /\ n < m_rtp_sequence
    BY DEF MediaInv, NumbersInv
  <2> QED BY <1>1, <1>3, <1>4, <2>1 DEF MediaInv, NoGaps
<1>7. AnsweredInv'
  <2>1. ASSUME NEW d \in Clients, Promised(d)' # NotYet
        PROVE  \/ Promised(d)' = Promised(d) /\ Promised(d) # NotYet
               \/ Promised(d)' = m_rtp_sequence
    BY <1>3, <2>1
  <2>2. ASSUME NEW d \in Clients, Promised(d)' = m_rtp_sequence
        PROVE  HasAllBelow(d, m_rtp_sequence - 1)' /\ HasAllBelow(d, m_rtp_sequence)'
    BY <1>1, <1>4, <2>2 DEF HasAllBelow
  <2>3. ASSUME NEW d \in Clients, Promised(d)' = Promised(d)
        PROVE  /\ HasAllBelow(d, m_rtp_sequence - 1)' <=> HasAllBelow(d, m_rtp_sequence - 1)
               /\ HasAllBelow(d, m_rtp_sequence)' <=> HasAllBelow(d, m_rtp_sequence)
    BY <1>1, <2>3 DEF HasAllBelow
  <2>4. \A f : (Plays(f)' <=> Plays(f)) /\ (ToBeSent(f)' <=> ToBeSent(f))
    BY <1>1 DEF Plays, ToBeSent
  <2>5. ASSUME NEW f \in FDs, NEW d \in Clients, files[f] = d, Promised(d)' # NotYet
        PROVE  /\ Plays(f) => /\ HasAllBelow(d, m_rtp_sequence - 1)'
                              /\ HasAllBelow(d, m_rtp_sequence)' \/ ToBeSent(f)
               /\ streamer = "send" /\ f \in target_sockets => HasAllBelow(d, m_rtp_sequence - 1)'
    BY <2>1, <2>2, <2>3, <2>5 DEF MediaInv, AnsweredInv
  <2> QED BY <1>1, <2>4, <2>5 DEF AnsweredInv
<1>8. AnswersInv'
  <2>1. TablesKept => \A d \in Clients :
          \/ handler'[d] \in {"load", "answer"}
          \/ handler'[d] \in Serving \ {"erase"} /\ announced[d] # NotYet
          => Plays(client_socket[d])
    BY <1>2 DEF MediaInv, AnswersInv
  <2>2. ~TablesKept => \A d \in Clients :
          handler'[d] \in Answering => files[client_socket[d]] # d
    BY <1>2 DEF MediaInv, AnswersInv, Answering
  <2>3. ASSUME ~TablesKept, NEW f \in FDs, NEW b \in Clients, files[f] = b, Promised(b)' # NotYet
        PROVE  /\ handler'[b] = "close" /\ ~Plays(f)
               /\ \A d \in Clients : handler'[d] \in {"recv", "play"} => client_socket[d] # f
    <3>1. b # c
      BY <1>2, <2>3, OwnFile DEF MediaInv, AnswersInv, Answering
    <3> QED BY <1>2, <1>3, <2>3, <3>1 DEF MediaInv, AnswersInv
  <2> QED BY <1>1, <2>1, <2>2, <2>3 DEF AnswersInv, Plays
<1>9. StrayInv'
  BY <1>1, <1>2 DEF MediaInv, StrayInv, OnlyTheLast, Plays
<1> QED BY <1>5, <1>6, <1>7, <1>8, <1>9 DEF MediaInv

\* The answer keeps the promise or, if it goes to nobody or another, takes it back.
LEMMA AnswerKeepsMedia ==
  ASSUME Inv, MediaInv, NEW c \in Clients, Handler(c), AnswerPlay(c)
  PROVE  MediaInv'
<1>1. /\ UNCHANGED <<main, acceptor, accepted, peer, client_socket, streamer, target_sockets,
                     m_rtp_sequence, m_sessions, got, files, asked>>
      /\ TablesKept' = TablesKept
  BY DEF Handler, AnswerPlay, stream, tables, TablesKept
<1>2. /\ \A d \in Clients : d # c => /\ handler'[d] = handler[d] /\ seq'[d] = seq[d]
                                     /\ announced'[d] = announced[d]
      /\ handler'[c] = "check" /\ handler[c] = "answer" /\ seq'[c] = NotYet
      /\ announced'[c] \in {announced[c], seq[c]}
      /\ announced'[c] # announced[c] => announced[c] = NotYet
  BY DEF AnswerPlay, Goto, Inv, TypesInv, TypeOK
<1>3. \A d \in Clients : Promised(d)' \in {Promised(d), NotYet}
  BY <1>2 DEF Promised
<1>4. m_rtp_sequence \in Nat
  BY DEF Inv, TypesInv, TypeOK
<1>5. NumbersInv'
  <2>1. NotYet <= m_rtp_sequence
    BY <1>4 DEF NotYet
  <2>2. \A d \in Clients : Promised(d)' <= m_rtp_sequence
    BY <1>3, <2>1 DEF MediaInv, NumbersInv
  <2> QED BY <1>1, <1>2, <2>2 DEF MediaInv, NumbersInv
<1>6. NoGaps'
  BY <1>1, <1>3 DEF MediaInv, NoGaps
<1>7. AnsweredInv'
  <2>1. ASSUME NEW d \in Clients, Promised(d)' # NotYet
        PROVE  /\ Promised(d) # NotYet
               /\ HasAllBelow(d, m_rtp_sequence - 1)' <=> HasAllBelow(d, m_rtp_sequence - 1)
               /\ HasAllBelow(d, m_rtp_sequence)' <=> HasAllBelow(d, m_rtp_sequence)
    BY <1>1, <1>3, <2>1 DEF HasAllBelow
  <2>2. \A f : (Plays(f)' <=> Plays(f)) /\ (ToBeSent(f)' <=> ToBeSent(f))
    BY <1>1 DEF Plays, ToBeSent
  <2> QED BY <1>1, <2>1, <2>2 DEF MediaInv, AnsweredInv
<1>8. AnswersInv'
  <2>1. TablesKept => \A d \in Clients :
          \/ handler'[d] \in {"load", "answer"}
          \/ handler'[d] \in Serving \ {"erase"} /\ announced'[d] # NotYet
          => Plays(client_socket[d])
    BY <1>2 DEF MediaInv, AnswersInv
  <2>2. ~TablesKept => \A d \in Clients :
          handler'[d] \in Answering => files[client_socket[d]] # d
    BY <1>2 DEF MediaInv, AnswersInv, Answering
  <2>3. ASSUME ~TablesKept, NEW f \in FDs, NEW b \in Clients, files[f] = b, Promised(b)' # NotYet
        PROVE  /\ handler'[b] = "close" /\ ~Plays(f)
               /\ \A d \in Clients : handler'[d] \in {"recv", "play"} => client_socket[d] # f
    <3>1. b # c
      BY <1>2, <2>3, OwnFile DEF MediaInv, AnswersInv, Answering
    <3>2. Promised(b) # NotYet
      BY <1>3, <2>3
    <3> QED BY <1>2, <2>3, <3>1, <3>2 DEF MediaInv, AnswersInv
  <2> QED BY <1>1, <2>1, <2>2, <2>3 DEF AnswersInv, Plays
<1>9. StrayInv'
  BY <1>1, <1>2 DEF MediaInv, StrayInv, OnlyTheLast, Plays
<1> QED BY <1>5, <1>6, <1>7, <1>8, <1>9 DEF MediaInv

\* Until stop clears the tables, a handler that erases its session leaves no other at
\* the same descriptor without one.
LEMMA LeavingKeepsMedia ==
  ASSUME Inv, MediaInv, NEW c \in Clients, Handler(c),
         Forget(c) \/ Close(c) \/ Leave(c) \/ Notify(c)
  PROVE  MediaInv'
<1>1. /\ UNCHANGED <<main, acceptor, accepted, peer, client_socket, seq, streamer,
                     target_sockets, m_rtp_sequence, got, asked, announced>>
      /\ TablesKept' = TablesKept
  BY DEF Handler, Forget, Close, Leave, Notify, stream, TablesKept
<1>2. CASE Forget(c)
  <2>1. /\ \A d \in Clients : d # c => handler'[d] = handler[d]
        /\ handler'[c] = "close" /\ handler[c] = "erase" /\ files' = files
    BY <1>2 DEF Forget, Goto, Inv, TypesInv
  <2>2. \A f : Plays(f)' <=> Plays(f) /\ f # client_socket[c]
    BY <1>2 DEF Forget, Erased, Plays
  <2>3. NumbersInv' /\ NoGaps'
    BY <1>1, <2>1 DEF MediaInv, NumbersInv, NoGaps, Promised
  <2>4. AnsweredInv'
    BY <1>1, <2>1, <2>2 DEF MediaInv, AnsweredInv, HasAllBelow, ToBeSent, Promised
  <2>5. AnswersInv'
    <3>1. ASSUME NEW d \in Clients, d # c, TablesKept, handler[d] \in Serving
          PROVE  client_socket[d] # client_socket[c]
      BY <2>1, <3>1 DEF Inv, RunningInv, Holding, Serving
    <3>2. TablesKept => \A d \in Clients :
            \/ handler'[d] \in {"load", "answer"}
            \/ handler'[d] \in Serving \ {"erase"} /\ announced[d] # NotYet
            => Plays(client_socket[d])'
      BY <1>1, <2>1, <2>2, <3>1 DEF MediaInv, AnswersInv, Serving
    <3>3. ~TablesKept => \A d \in Clients :
            handler'[d] \in Answering => files[client_socket[d]] # d
      BY <2>1 DEF MediaInv, AnswersInv, Answering
    <3>4. ~TablesKept => \A f \in FDs : \A b \in Clients : files[f] = b /\ Promised(b) # NotYet =>
            /\ handler'[b] = "close" /\ ~Plays(f)'
            /\ \A d \in Clients : handler'[d] \in {"recv", "play"} => client_socket[d] # f
      BY <2>1, <2>2 DEF MediaInv, AnswersInv
    <3> QED BY <1>1, <2>1, <3>2, <3>3, <3>4 DEF AnswersInv, Promised
  <2>6. StrayInv'
    BY <1>1, <2>1, <2>2 DEF MediaInv, StrayInv, OnlyTheLast
  <2> QED BY <2>3, <2>4, <2>5, <2>6 DEF MediaInv
<1>3. CASE Close(c)
  <2>1. /\ \A d \in Clients : d # c => handler'[d] = handler[d]
        /\ handler'[c] = "leave" /\ handler[c] = "close" /\ m_sessions' = m_sessions
        /\ \A f \in FDs : files'[f] \in Clients => files'[f] = files[f] /\ f # client_socket[c]
    BY <1>3, ClientsAssumption DEF Close, Closed, Goto, Inv, TypesInv, tables
  <2>2. NumbersInv' /\ NoGaps'
    BY <1>1, <2>1 DEF MediaInv, NumbersInv, NoGaps, Promised
  <2>3. AnsweredInv'
    BY <1>1, <2>1 DEF MediaInv, AnsweredInv, HasAllBelow, ToBeSent, Plays, Promised
  <2>4. AnswersInv'
    <3>1. TablesKept => \A d \in Clients :
            \/ handler'[d] \in {"load", "answer"}
            \/ handler'[d] \in Serving \ {"erase"} /\ announced[d] # NotYet
            => Plays(client_socket[d])
      BY <2>1 DEF MediaInv, AnswersInv, Serving
    <3>2. ASSUME ~TablesKept, NEW d \in Clients, handler'[d] \in Answering
          PROVE  files'[client_socket[d]] # d
      <4>1. handler[d] \in Answering /\ client_socket[d] \in FDs
        BY <2>1, <3>2 DEF Answering, Inv, ThreadsInv
      <4> QED BY <2>1, <3>2, <4>1 DEF MediaInv, AnswersInv
    <3>3. ASSUME ~TablesKept, NEW f \in FDs, NEW b \in Clients, files'[f] = b, Promised(b) # NotYet
          PROVE  /\ handler'[b] = "close" /\ ~Plays(f)
                 /\ \A d \in Clients : handler'[d] \in {"recv", "play"} => client_socket[d] # f
      <4>1. files[f] = b /\ b # c
        BY <2>1, <3>3, OwnFile
      <4> QED BY <2>1, <3>3, <4>1 DEF MediaInv, AnswersInv
    <3> QED BY <1>1, <2>1, <3>1, <3>2, <3>3 DEF AnswersInv, Promised, Plays
  <2>5. StrayInv'
    BY <1>1, <2>1 DEF MediaInv, StrayInv, OnlyTheLast, Plays
  <2> QED BY <2>2, <2>3, <2>4, <2>5 DEF MediaInv
<1>4. CASE Leave(c) \/ Notify(c)
  <2>1. /\ UNCHANGED <<files, m_sessions, seq, announced, asked>>
        /\ handler[c] \in {"leave", "notify"}
    BY <1>4 DEF Leave, Notify, tables
  <2>2. Goto(c, "notify") \/ Goto(c, "done")
    BY <1>4 DEF Leave, Notify
  <2> QED BY <2>1, <2>2, MovingKeepsMedia DEF Goto, Serving
<1> QED BY <1>2, <1>3, <1>4

\* A packet takes its number before the list of those it is for is made.
LEMMA StreamerKeepsMedia ==
  ASSUME Inv, MediaInv, Streamer
  PROVE  MediaInv'
<1>1. /\ UNCHANGED <<main, acceptor, accepted, peer, client_socket, files, m_sessions,
                     handler, seq, asked, announced>>
      /\ TablesKept' = TablesKept
  BY DEF Streamer, tables, threads, TablesKept
<1>2. m_rtp_sequence \in Nat /\ \A c \in Clients : Promised(c) \in Int
  BY DEF Inv, TypesInv, TypeOK, NotYet, Promised
<1>3. \A c \in Clients : \A n \in got[c] : n \in Int /\ n < m_rtp_sequence
  BY <1>2 DEF MediaInv, NumbersInv
<1>4. acceptor = "register" => accepted \in Clients
  BY DEF Inv, ThreadsInv
<1>5. CASE StreamerChecks \/ SentToAll
  <2>1. /\ UNCHANGED <<m_rtp_sequence, target_sockets, got>>
        /\ streamer' \in {"off", "check"} /\ \A f : ~ToBeSent(f)
    BY <1>5 DEF StreamerChecks, SentToAll, ToBeSent
  <2>2. NumbersInv' /\ NoGaps'
    BY <1>1, <2>1 DEF MediaInv, NumbersInv, NoGaps, Promised
  <2>3. AnsweredInv'
    BY <1>1, <2>1 DEF MediaInv, AnsweredInv, HasAllBelow, Plays, Promised
  <2>4. AnswersInv'
    BY <1>1, <2>1 DEF MediaInv, AnswersInv, Plays, Promised
  <2>5. StrayInv'
    BY <1>1, <2>1 DEF MediaInv, StrayInv, OnlyTheLast, Plays
  <2> QED BY <2>2, <2>3, <2>4, <2>5 DEF MediaInv
<1>6. CASE TakePacket
  <2>1. /\ m_running /\ TablesKept /\ main = "idle" /\ UNCHANGED <<target_sockets, got>>
        /\ streamer = "check" /\ streamer' = "snapshot" /\ m_rtp_sequence' = m_rtp_sequence + 1
    BY <1>6 DEF TakePacket, TablesKept, Inv, ThreadsInv
  <2>2. NumbersInv' /\ NoGaps'
    BY <1>1, <1>2, <2>1 DEF MediaInv, NumbersInv, NoGaps, Promised
  <2>3. AnsweredInv'
    BY <1>1, <1>2, <2>1 DEF MediaInv, AnsweredInv, HasAllBelow, ToBeSent, Plays, Promised
  <2>4. AnswersInv'
    BY <1>1, <2>1 DEF MediaInv, AnswersInv, Plays, Promised
  <2>5. StrayInv'
    BY <1>1, <2>1 DEF MediaInv, StrayInv, Plays
  <2> QED BY <2>2, <2>3, <2>4, <2>5 DEF MediaInv
<1>7. CASE Snapshot
  <2>1. /\ UNCHANGED <<m_rtp_sequence, got>> /\ streamer = "snapshot" /\ streamer' = "send"
        /\ \A f : f \in target_sockets' <=> Plays(f)
    BY <1>7 DEF Snapshot, Plays
  <2>2. NumbersInv' /\ NoGaps'
    BY <1>1, <2>1 DEF MediaInv, NumbersInv, NoGaps, Promised
  <2>3. AnsweredInv'
    BY <1>1, <2>1 DEF MediaInv, AnsweredInv, HasAllBelow, ToBeSent, Plays, Promised
  <2>4. AnswersInv'
    BY <1>1, <2>1 DEF MediaInv, AnswersInv, Plays, Promised
  <2>5. StrayInv'
    BY <1>1, <2>1 DEF MediaInv, StrayInv, OnlyTheLast, Plays
  <2> QED BY <2>2, <2>3, <2>4, <2>5 DEF MediaInv
<1>8. CASE SendToNext
  <2>1. PICK f0 \in FDs : f0 = Lowest(target_sockets) /\ f0 \in target_sockets
    BY <1>8, LowestIsOne DEF SendToNext, Inv, TypesInv, TypeOK
  <2>2. /\ UNCHANGED <<m_rtp_sequence, streamer>> /\ streamer = "send"
        /\ target_sockets' = target_sockets \ {f0}
        /\ \A c \in Clients : files[f0] # c => got'[c] = got[c]
        /\ \A c \in Clients : files[f0] = c =>
             \A n : n \in got'[c] <=> n \in got[c] \/ n = m_rtp_sequence - 1
    BY <1>8, <2>1 DEF SendToNext, Connection
  <2>3. \A f \in FDs : \A c \in Clients : files[f] = c /\ files[f0] = c => f = f0
    BY OwnFile
  <2>4. NumbersInv'
    <3>1. \A c \in Clients : files[f0] = c => peer[c] = "connected"
      BY OwnFile
    <3>2. \A c \in Clients : \A n \in got'[c] : n \in Int /\ n < m_rtp_sequence
      BY <1>2, <1>3, <2>2
    <3>3. \A c \in Clients : peer[c] \in {"away", "queued"} => got'[c] = {} /\ c \notin asked
      BY <2>2, <3>1 DEF MediaInv, NumbersInv
    <3>4. \A c \in Clients : Promised(c)' <= m_rtp_sequence'
      BY <1>1, <2>2 DEF MediaInv, NumbersInv, Promised
    <3> QED BY <1>1, <2>2, <3>2, <3>3, <3>4 DEF MediaInv, NumbersInv
  <2>5. NoGaps'
    <3>1. ASSUME NEW c \in Clients, files[f0] = c, Promised(c) # NotYet
          PROVE  HasAllBelow(c, m_rtp_sequence - 1)
      BY <2>1, <2>2, <3>1 DEF MediaInv, AnsweredInv
    <3>2. ASSUME NEW c \in Clients, Promised(c) # NotYet, NEW n \in got'[c],
                 NEW k \in Int, Promised(c) <= k, k <= n
          PROVE  k \in got'[c]
      <4>1. CASE n \in got[c]
        BY <2>2, <3>2, <4>1 DEF MediaInv, NoGaps
      <4>2. CASE n \notin got[c]
        <5>1. files[f0] = c /\ n = m_rtp_sequence - 1
          BY <2>2, <3>2, <4>2
        <5> QED BY <1>2, <2>2, <3>1, <3>2, <5>1 DEF HasAllBelow
      <4> QED BY <4>1, <4>2
    <3> QED BY <1>1, <3>2 DEF NoGaps, Promised
  <2>6. AnsweredInv'
    <3>1. ASSUME NEW f \in FDs, NEW c \in Clients, files[f] = c, Promised(c) # NotYet
          PROVE  /\ Plays(f) => /\ HasAllBelow(c, m_rtp_sequence - 1)'
                                /\ HasAllBelow(c, m_rtp_sequence)' \/ ToBeSent(f)'
                 /\ f \in target_sockets' => HasAllBelow(c, m_rtp_sequence - 1)'
      <4>1. /\ HasAllBelow(c, m_rtp_sequence - 1) => HasAllBelow(c, m_rtp_sequence - 1)'
            /\ HasAllBelow(c, m_rtp_sequence) => HasAllBelow(c, m_rtp_sequence)'
        BY <1>1, <2>2 DEF HasAllBelow, Promised
      <4>2. CASE f = f0
        <5>1. HasAllBelow(c, m_rtp_sequence - 1)
          BY <2>1, <2>2, <3>1, <4>2 DEF MediaInv, AnsweredInv
        <5>2. HasAllBelow(c, m_rtp_sequence)'
          BY <1>1, <1>2, <2>2, <3>1, <4>2, <5>1 DEF HasAllBelow, Promised
        <5> QED BY <4>1, <5>1, <5>2
      <4>3. CASE f # f0
        <5>1. /\ ToBeSent(f)' <=> ToBeSent(f)
              /\ f \in target_sockets' <=> f \in target_sockets
          BY <2>2, <4>3 DEF ToBeSent
        <5> QED BY <2>2, <3>1, <4>1, <5>1 DEF MediaInv, AnsweredInv
      <4> QED BY <4>2, <4>3
    <3> QED BY <1>1, <2>2, <3>1 DEF AnsweredInv, Plays, Promised
  <2>7. AnswersInv'
    BY <1>1, <2>2 DEF MediaInv, AnswersInv, Plays, Promised
  <2>8. StrayInv'
    <3>1. \A c \in Clients : files[f0] = c /\ c \notin asked => OnlyTheLast(c)
      BY <2>1, <2>2 DEF MediaInv, StrayInv
    <3>2. \A c \in Clients : c \notin asked => \E n \in Int : got'[c] \subseteq {n}
      BY <1>2, <2>2, <3>1 DEF MediaInv, StrayInv, OnlyTheLast
    <3>3. \A c \in Clients : OnlyTheLast(c) => OnlyTheLast(c)'
      BY <2>2 DEF OnlyTheLast
    <3> QED BY <1>1, <2>2, <3>2, <3>3 DEF MediaInv, StrayInv, Plays
  <2> QED BY <2>4, <2>5, <2>6, <2>7, <2>8 DEF MediaInv
<1> QED BY <1>5, <1>6, <1>7, <1>8 DEF Streamer

LEMMA ConnectKeepsMedia ==
  ASSUME Inv, MediaInv, NEW c \in Clients, Connect(c)
  PROVE  MediaInv'
<1>1. /\ UNCHANGED <<m_running, main, acceptor, accepted, client_socket, files, m_sessions,
                     handler, seq, streamer, target_sockets, m_rtp_sequence, asked, announced, got>>
      /\ TablesKept' = TablesKept
      /\ \A d \in Clients : peer'[d] \in {"away", "queued"} => peer[d] \in {"away", "queued"}
  BY DEF Connect, tables, threads, stream, history, TablesKept, Inv, TypesInv
<1>2. NumbersInv' /\ NoGaps'
  BY <1>1 DEF MediaInv, NumbersInv, NoGaps, Promised
<1>3. AnsweredInv'
  BY <1>1 DEF MediaInv, AnsweredInv, HasAllBelow, ToBeSent, Plays, Promised
<1>4. AnswersInv'
  BY <1>1 DEF MediaInv, AnswersInv, Plays, Promised
<1>5. StrayInv'
  BY <1>1 DEF MediaInv, StrayInv, OnlyTheLast, Plays
<1> QED BY <1>2, <1>3, <1>4, <1>5 DEF MediaInv

-----------------------------------------------------------------------------
(* The theorems                                                              *)

LEMMA InitIsInv == Init => Inv
<1> SUFFICES ASSUME Init PROVE Inv
  OBVIOUS
<1>1. Counted = {}
  BY DEF Init, Counted, Holding, Serving
<1>2. Cardinality(Counted) = 0 /\ Cardinality(Clients) \in Nat
  BY <1>1, FS_EmptySet, CountedFinite
<1>3. TypesInv
  <2>1. 0 \in 0 .. MaxPackets /\ 0 \in 0 .. Cardinality(Clients)
    BY <1>2, MaxPacketsAssumption
  <2>2. DOMAIN m_sessions = {}
    BY DEF Init
  <2>3. /\ client_socket \in [Clients -> FDs \cup {NoSocket}]
        /\ files \in [FDs -> Clients \cup {"free", "listener"}]
        /\ seq \in [Clients -> 0 .. MaxPackets \cup {NotYet}]
        /\ announced \in [Clients -> 0 .. MaxPackets \cup {NotYet}]
        /\ handler \in [Clients -> Holding \cup {"none", "leave", "notify", "done"}]
        /\ peer \in [Clients -> {"away", "queued", "connected", "gone"}]
    BY DEF Init
  <2> QED BY <2>1, <2>2, <2>3 DEF Init, TypesInv, TypeOK
<1>4. ThreadsInv
  BY <1>1, <1>2 DEF Init, ThreadsInv
<1>5. FilesInv /\ RunningInv
  BY ClientsAssumption DEF Init, FilesInv, RunningInv, TablesKept
<1> QED BY <1>3, <1>4, <1>5 DEF Inv

LEMMA StepKeepsInv == Inv /\ [Next]_vars => Inv'
<1> SUFFICES ASSUME Inv, [Next]_vars PROVE Inv'
  OBVIOUS
<1>1. CASE start
  BY <1>1, StartKeepsInv
<1>2. CASE StopBegins \/ Stop
  BY <1>2, StopKeepsInv
<1>3. CASE Acceptor
  BY <1>3, AcceptorKeepsInv
<1>4. CASE Streamer
  BY <1>4, StreamerKeepsInv
<1>5. ASSUME NEW c \in Clients, Connect(c) PROVE Inv'
  BY <1>5, ConnectKeepsInv
<1>6. ASSUME NEW c \in Clients, Handler(c) PROVE Inv'
  BY <1>6, ServingKeepsInv, ForgetKeepsInv, CloseKeepsInv, LeavingKeepsInv DEF Handler
<1>7. CASE UNCHANGED vars
  <2>1. Counted' = Counted
    BY <1>7 DEF vars, threads, Counted
  <2>2. TypesInv' /\ ThreadsInv'
    BY <1>7, <2>1 DEF vars, tables, threads, stream, history, Inv, TypesInv, TypeOK, ThreadsInv
  <2>3. FilesInv' /\ RunningInv'
    BY <1>7 DEF vars, tables, threads, Inv, FilesInv, RunningInv, TablesKept
  <2> QED BY <2>2, <2>3 DEF Inv
<1> QED BY <1>1, <1>2, <1>3, <1>4, <1>5, <1>6, <1>7 DEF Next

\* The shape of the state; m_active_threads, which stop waits for, is never negative
\* and never more than the clients (simple_rtsp_server.cpp:333, 442).
THEOREM ServerTypeCorrect == Spec => []TypeOK
<1>1. Inv => TypeOK
  BY DEF Inv, TypesInv
<1> QED BY <1>1, InitIsInv, StepKeepsInv, PTL DEF Spec

\* For any number of clients: while the server runs, both tables have an entry for the
\* same descriptors, each of the open connection whose handler was given it, however
\* often the system gives the same number again (simple_rtsp_server.cpp:326-330,
\* 434-440).
THEOREM TablesAlwaysAgree == Spec => []TablesAgree
<1>1. Inv => TablesAgree
  <2> SUFFICES ASSUME Inv, m_running, NEW f \in m_client_sockets
               PROVE  /\ m_client_sockets = DOMAIN m_sessions
                      /\ \E c \in Clients : /\ files[f] = c /\ client_socket[c] = f
                                            /\ handler[c] \in Serving
    BY DEF TablesAgree, Serving, Inv, RunningInv, TablesKept
  <2>1. m_client_sockets = DOMAIN m_sessions
    BY DEF Inv, RunningInv, TablesKept
  <2>2. PICK c \in Clients : handler[c] \in Serving /\ client_socket[c] = f
    BY DEF Inv, FilesInv
  <2>3. files[f] = c
    BY <2>2 DEF Inv, RunningInv, TablesKept, Holding
  <2> QED BY <2>1, <2>2, <2>3
<1> QED BY <1>1, InitIsInv, StepKeepsInv, PTL DEF Spec

\* When stop is over neither loop runs and no descriptor, socket or session is left, for
\* any number of clients that were being accepted, answered or erased when it was called
\* (simple_rtsp_server.cpp:233-261).
THEOREM NothingIsLeft == Spec => []NothingLeft
<1>1. Inv => NothingLeft
  BY StoppedHasNothing DEF NothingLeft
<1> QED BY <1>1, InitIsInv, StepKeepsInv, PTL DEF Spec

\* ... and no thread has anything left to do but to notify, which it does on a member
\* of the server (simple_rtsp_server.cpp:253-259, 442-444).
THEOREM OnlyNotifiesAreLeft == Spec => []OnlyNotifyAfterStop
<1>1. Inv => OnlyNotifyAfterStop
  BY StoppedHasNothing DEF OnlyNotifyAfterStop
<1> QED BY <1>1, InitIsInv, StepKeepsInv, PTL DEF Spec

\* While the server runs a handler answers PLAY to no client but its own and closes no
\* connection but its own (simple_rtsp_server.cpp:431, 440).
THEOREM OnlyItsOwn == Spec => OwnConnectionWhileRunning
<1>1. Inv /\ [Next]_vars =>
        [\A c, d \in Clients :
           \/ AnswerPlay(c) /\ d \in Connection(client_socket[c])
           \/ Close(c) /\ \E f \in FDs : files[f] = d /\ files'[f] = "free"
           => d = c \/ ~m_running]_vars
  <2> SUFFICES ASSUME Inv, NEW c \in Clients, NEW d \in Clients, m_running,
                      \/ AnswerPlay(c) /\ d \in Connection(client_socket[c])
                      \/ Close(c) /\ \E f \in FDs : files[f] = d /\ files'[f] = "free"
               PROVE  d = c
    OBVIOUS
  <2>1. handler[c] \in Holding => files[client_socket[c]] = c
    BY DEF Inv, RunningInv, TablesKept
  <2>2. CASE AnswerPlay(c) /\ d \in Connection(client_socket[c])
    BY <2>1, <2>2 DEF AnswerPlay, Connection, Holding, Serving
  <2>3. CASE Close(c) /\ \E f \in FDs : files[f] = d /\ files'[f] = "free"
    <3>1. PICK f \in FDs : files[f] = d /\ files'[f] = "free"
      BY <2>3
    <3>2. f = client_socket[c]
      BY <2>3, <3>1, ClientsAssumption DEF Close, Closed
    <3> QED BY <2>1, <2>3, <3>1, <3>2 DEF Close, Holding
  <2> QED BY <2>2, <2>3
<1> QED BY <1>1, InitIsInv, StepKeepsInv, PTL DEF Spec, OwnConnectionWhileRunning

LEMMA InitIsMedia == Init => MediaInv
<1> SUFFICES ASSUME Init PROVE MediaInv
  OBVIOUS
<1>1. \A c \in Clients : /\ got[c] = {} /\ Promised(c) = NotYet /\ c \notin asked
                         /\ seq[c] = NotYet /\ announced[c] = NotYet /\ handler[c] = "none"
  BY DEF Init, Promised
<1>2. \A f \in FDs : files[f] \notin Clients
  BY ClientsAssumption DEF Init
<1>3. NumbersInv
  BY <1>1 DEF Init, NumbersInv, NotYet
<1>4. NoGaps /\ AnsweredInv
  BY <1>1 DEF NoGaps, AnsweredInv
<1>5. AnswersInv
  BY <1>1, <1>2 DEF AnswersInv, Serving, Answering
<1>6. StrayInv
  BY <1>1, <1>2 DEF Init, StrayInv
<1> QED BY <1>3, <1>4, <1>5, <1>6 DEF MediaInv

LEMMA StepKeepsMedia == Inv /\ MediaInv /\ [Next]_vars => MediaInv'
<1> SUFFICES ASSUME Inv, MediaInv, [Next]_vars PROVE MediaInv'
  OBVIOUS
<1>1. CASE start
  BY <1>1, StartKeepsMedia
<1>2. CASE StopBegins \/ Stop
  BY <1>2, StopKeepsMedia
<1>3. CASE Acceptor
  BY <1>3, AcceptorKeepsMedia
<1>4. CASE Streamer
  BY <1>4, StreamerKeepsMedia
<1>5. ASSUME NEW c \in Clients, Connect(c) PROVE MediaInv'
  BY <1>5, ConnectKeepsMedia
<1>6. ASSUME NEW c \in Clients, Handler(c) PROVE MediaInv'
  BY <1>6, ReceivingKeepsMedia, PlayKeepsMedia, LoadKeepsMedia,
     AnswerKeepsMedia, LeavingKeepsMedia DEF Handler
<1>7. CASE UNCHANGED vars
  <2>1. UNCHANGED <<m_running, main, acceptor, accepted, peer, client_socket, files, m_sessions,
                    handler, seq, streamer, target_sockets, m_rtp_sequence, asked, announced, got>>
    BY <1>7 DEF vars, tables, threads, stream, history
  <2>2. NumbersInv' /\ NoGaps' /\ AnsweredInv'
    BY <2>1 DEF MediaInv, NumbersInv, NoGaps, AnsweredInv, HasAllBelow, ToBeSent, Plays,
                Promised
  <2>3. AnswersInv' /\ StrayInv'
    BY <2>1 DEF MediaInv, AnswersInv, StrayInv, OnlyTheLast, Plays, Promised, TablesKept
  <2> QED BY <2>2, <2>3 DEF MediaInv
<1> QED BY <1>1, <1>2, <1>3, <1>4, <1>5, <1>6, <1>7 DEF Next

\* From the number in its own thread's answer to PLAY on no client misses a packet, for
\* any number of clients and packets and whatever the other threads do between the
\* session being made, the number being read and the answer being sent
\* (simple_rtsp_server.cpp:415-431, 529-565).
THEOREM NothingIsMissed == Spec => []NothingMissedAfterPlay
<1>1. Init => Inv /\ MediaInv
  BY InitIsInv, InitIsMedia
<1>2. Inv /\ MediaInv /\ [Next]_vars => (Inv /\ MediaInv)'
  BY StepKeepsInv, StepKeepsMedia
<1>3. Inv /\ MediaInv => NothingMissedAfterPlay
  <2> SUFFICES ASSUME Inv, MediaInv, NEW c \in Clients, announced[c] # NotYet,
                      NEW n \in got[c], NEW k \in announced[c] .. n
               PROVE  k \in got[c]
    BY DEF NothingMissedAfterPlay
  <2>1. Promised(c) = announced[c]
    BY DEF Promised
  <2>2. announced[c] \in Int /\ n \in Int
    BY DEF Inv, TypesInv, TypeOK, NotYet, MediaInv, NumbersInv
  <2>3. k \in Int /\ Promised(c) <= k /\ k <= n
    BY <2>1, <2>2
  <2> QED BY <2>1, <2>3 DEF MediaInv, NoGaps
<1> QED BY <1>1, <1>2, <1>3, PTL DEF Spec

\* The list of targets outlives the lock, and descriptors in it are given to others: a
\* client that never asked is still sent one packet at most, however many connections
\* come and go (simple_rtsp_server.cpp:557-572).
THEOREM StrayMediaIsBounded == Spec => []StrayMediaIsOnePacket
<1>1. Init => Inv /\ MediaInv
  BY InitIsInv, InitIsMedia
<1>2. Inv /\ MediaInv /\ [Next]_vars => (Inv /\ MediaInv)'
  BY StepKeepsInv, StepKeepsMedia
<1>3. MediaInv => StrayMediaIsOnePacket
  <2> SUFFICES ASSUME MediaInv, NEW c \in Clients, c \notin asked
               PROVE  Cardinality(got[c]) <= 1
    BY DEF StrayMediaIsOnePacket
  <2>1. PICK n \in Int : got[c] \subseteq {n}
    BY DEF MediaInv, StrayInv
  <2>2. IsFiniteSet({n}) /\ Cardinality({n}) = 1
    BY FS_Singleton
  <2>3. Cardinality(got[c]) <= Cardinality({n})
    BY <2>1, <2>2, FS_Subset
  <2> QED BY <2>2, <2>3
<1> QED BY <1>1, <1>2, <1>3, PTL DEF Spec
=============================================================================
