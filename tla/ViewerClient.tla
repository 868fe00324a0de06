---------------------------- MODULE ViewerClient ----------------------------
(***************************************************************************)
(* apps/rtsp/viewer_client.cpp: a thread asks an RTSP server for a stream  *)
(* and takes the interleaved packets out of the bytes that recv returns;   *)
(* main starts it and, later, stops it.                                    *)
(*                                                                         *)
(* A byte is a pair <<packet, offset>>; packet 0 is the text of a response.*)
(* A packet is known by its first byte, which is a '$'. So may other bytes *)
(* of it be: look-alikes, from which the code reads a size and a kind too. *)
(***************************************************************************)
EXTENDS Integers, SequencesExt, FiniteSetsExt

CONSTANTS
  Media,        \* the packets of the stream: a sequence of [kind, size]
  LookAlikes,   \* bytes inside a packet that are a '$' -> [kind, size]
  ResponseSize  \* bytes of the answer to a request

\* What the payload says; "unknown": nothing is assembled from it
Kinds == {"single", "fu_start", "fu_middle", "fu_end", "unknown"}

\* '$', channel and length, then as many bytes as the length says
Interleaved == [kind : Kinds, size : {n \in Nat : n >= 4}]

ASSUME MediaAssumption == Media \in Seq(Interleaved)
ASSUME LookAlikesAssumption ==
  \A b \in DOMAIN LookAlikes :
    /\ b[1] \in DOMAIN Media /\ b[2] \in 2 .. Media[b[1]].size
    /\ LookAlikes[b] \in Interleaved
ASSUME ResponseSizeAssumption == ResponseSize \in Nat \ {0}

\* OPTIONS, DESCRIBE, SETUP, PLAY
Requests == 4

VARIABLES
  main,       \* "new", "running", "joining", "over"
  m_running,
  thread,     \* m_receive_thread, in receive_loop
  m_socket,   \* "none", "open", or "stale": closed, its number kept
  requests,   \* how many requests were sent
  responses,  \* how many the server has read and answered
  playing,    \* the server has obeyed PLAY
  sent,       \* how many packets of Media it has sent
  hungup,     \* it has closed the connection
  wire,       \* bytes on their way
  m_tcp_buffer,
  fu_buffer,  \* the assembler's: packets whose payloads it holds
  nals,       \* history: the units assembled, each the packets it was made of
  parsed,     \* history: the packets given to the assembler
  cut,        \* history: packets divided by two reads of the packet loop
  missed      \* history: packets of which it was not given every byte

server    == <<responses, playing, sent, hungup>>
assembler == <<fu_buffer, nals>>
reading   == <<m_tcp_buffer, assembler, parsed, cut>>
incoming  == <<wire, missed>>
vars == <<main, m_running, thread, m_socket, requests, server, incoming, reading>>

Init ==
  /\ main = "new" /\ m_running = FALSE
  /\ thread = "off" /\ m_socket = "none"
  /\ requests = 0 /\ responses = 0 /\ sent = 0
  /\ playing = FALSE /\ hungup = FALSE
  /\ wire = <<>> /\ m_tcp_buffer = <<>>
  /\ fu_buffer = <<>> /\ nals = <<>>
  /\ parsed = <<>> /\ cut = {} /\ missed = {}

-----------------------------------------------------------------------------
(* main *)

start ==
  /\ main = "new"
  /\ main' = "running" /\ m_running' = TRUE /\ thread' = "connect"
  /\ UNCHANGED <<m_socket, requests, server, incoming, reading>>

StopBegins ==
  /\ main = "running"
  /\ main' = "joining" /\ m_running' = FALSE
  /\ UNCHANGED <<thread, m_socket, requests, server, incoming, reading>>

StopEnds ==
  /\ main = "joining"
  /\ thread = "off"
  /\ main' = "over" /\ m_socket' = "none"
  /\ UNCHANGED <<m_running, thread, requests, server, incoming, reading>>

-----------------------------------------------------------------------------
(* The server: apps/rtsp/simple_rtsp_server.cpp, as the viewer sees it. *)

Bytes(p, size) == [i \in 1 .. size |-> <<p, i>>]
PacketsIn(bytes) == {b[1] : b \in ToSet(bytes)} \ {0}

\* The handler obeys PLAY, then answers.
Play ==
  /\ requests = Requests /\ responses = Requests - 1
  /\ playing' = TRUE
  /\ UNCHANGED <<responses, sent, hungup, incoming>>

\* Requests that arrive together are taken for one, the first of them.
Respond ==
  /\ responses' \in responses + 1 .. requests
  /\ responses = Requests - 1 => playing
  /\ wire' = wire \o Bytes(0, ResponseSize)
  /\ UNCHANGED <<playing, sent, hungup, missed>>

\* Another thread of the server sends: packets may precede the answer to PLAY.
SendMedia ==
  /\ playing
  /\ sent < Len(Media)
  /\ sent' = sent + 1
  /\ wire' = wire \o Bytes(sent', Media[sent'].size)
  /\ UNCHANGED <<responses, playing, hungup, missed>>

\* No request for 2 s, or an error. What is on its way still arrives, unless
\* the connection is reset.
HangUp ==
  /\ m_socket = "open"
  /\ hungup' = TRUE
  /\ \/ UNCHANGED incoming
     \/ wire' = <<>> /\ missed' = missed \cup PacketsIn(wire)
  /\ UNCHANGED <<responses, playing, sent>>

Server ==
  /\ ~hungup
  /\ Play \/ Respond \/ SendMedia \/ HangUp
  /\ UNCHANGED <<main, m_running, thread, m_socket, requests, reading>>

-----------------------------------------------------------------------------
(* process_tcp_data *)

IsMarker(byte) == byte[1] # 0 /\ (byte[2] = 1 \/ byte \in DOMAIN LookAlikes)

\* The packet that begins, or seems to begin, with a marker
PacketAt(byte) == IF byte[2] = 1 THEN Media[byte[1]] ELSE LookAlikes[byte]

CompleteBefore(buf, i) == \* mutant: < for <=
  /\ IsMarker(buf[i])
  /\ i + PacketAt(buf[i]).size - 1 < Len(buf)
Complete(buf, i) ==
  /\ IsMarker(buf[i])
  /\ i + PacketAt(buf[i]).size - 1 <= Len(buf)

\* The loop over the buffer: a complete packet is taken, any other byte skipped,
\* the bytes of an incomplete packet too.
Scan(buf) ==
  LET scan[i \in 1 .. Len(buf) + 1] ==
        IF i > Len(buf) THEN [packets |-> <<>>, offset |-> i - 1]
        ELSE IF Complete(buf, i)
        THEN LET rest == scan[i + PacketAt(buf[i]).size]
             IN  [rest EXCEPT !.packets = <<buf[i]>> \o @]
        ELSE scan[i + 1]
  IN  scan[1]

\* H264Assembler::assemble, on the state [fu, nals]
StartKept(a, p) == [a EXCEPT !.fu = Append(@, p)] \* mutant: no clear
FuStart(a, p) == [a EXCEPT !.fu = <<p>>]
FuEnd(a, p) == [fu |-> <<>>, nals |-> Append(a.nals, Append(a.fu, p))]

assemble(a, p) ==
  LET kind == PacketAt(p).kind
  IN  CASE kind = "single"    -> [a EXCEPT !.nals = Append(@, <<p>>)]
        [] kind = "fu_start"  -> FuStart(a, p)
        [] kind = "fu_middle" -> [a EXCEPT !.fu = Append(@, p)]
        [] kind = "fu_end"    -> FuEnd(a, p)
        [] kind = "unknown"   -> a

NotErased(buf, offset) == buf \* mutant: no erase
Rest(buf, offset) == SubSeq(buf, offset + 1, Len(buf))

process_tcp_data(data) ==
  LET buf    == m_tcp_buffer \o data
      result == Scan(buf)
      after  == FoldLeft(assemble, [fu |-> fu_buffer, nals |-> nals], result.packets)
  IN  /\ m_tcp_buffer' = Rest(buf, result.offset)
      /\ parsed' = parsed \o result.packets
      /\ fu_buffer' = after.fu
      /\ nals' = after.nals

-----------------------------------------------------------------------------
(* receive_loop *)

Connect ==
  /\ thread = "connect"
  /\ \/ thread' = "off" /\ m_socket' = "none"  \* socket() fails
     \/ thread' = "off" /\ m_socket' = "stale" \* connect() fails
     \/ thread' = "ask" /\ m_socket' = "open"
  /\ UNCHANGED <<requests, incoming, reading>>

Ask ==
  /\ thread = "ask"
  /\ thread' = "answer"
  /\ requests' = requests + 1
  /\ UNCHANGED <<m_socket, incoming, reading>>

\* One recv for each answer, whatever it returns is taken for the answer.
Answer ==
  /\ thread = "answer"
  /\ \/ \E n \in 1 .. Len(wire) :
          /\ wire' = SubSeq(wire, n + 1, Len(wire))
          /\ missed' = missed \cup PacketsIn(SubSeq(wire, 1, n))
     \/ wire = <<>> /\ hungup /\ UNCHANGED incoming
  /\ thread' = IF requests < Requests THEN "ask" ELSE "check"
  /\ UNCHANGED <<m_socket, requests, reading>>

Check ==
  /\ thread = "check"
  /\ thread' = IF m_running THEN "recv" ELSE "off"
  /\ UNCHANGED <<m_socket, requests, incoming, reading>>

Receive ==
  /\ thread = "recv"
  /\ \E n \in 1 .. Len(wire) :
       LET head == SubSeq(wire, 1, n)
           tail == SubSeq(wire, n + 1, Len(wire))
       IN  /\ wire' = tail
           /\ process_tcp_data(head)
           /\ cut' = cut \cup (PacketsIn(head) \cap PacketsIn(tail))
  /\ thread' = "check"
  /\ UNCHANGED <<m_socket, requests, missed>>

RetriesWhenClosed == \* mutant: recv again
  /\ thread = "recv"
  /\ wire = <<>> /\ hungup
  /\ UNCHANGED <<thread, m_socket, requests, incoming, reading>>

ReceiveNothing == \* closed by the server
  /\ thread = "recv"
  /\ wire = <<>> /\ hungup
  /\ thread' = "off"
  /\ UNCHANGED <<m_socket, requests, incoming, reading>>

Viewer ==
  /\ Connect \/ Ask \/ Answer \/ Check \/ Receive \/ ReceiveNothing
  /\ UNCHANGED <<main, m_running, server>>

-----------------------------------------------------------------------------
Next == start \/ StopBegins \/ StopEnds \/ Server \/ Viewer

Spec == Init /\ [][Next]_vars

\* The thread runs, join returns, and the server, which waits 2 s for a next
\* request (simple_rtsp_server.cpp:318, 372), gives the viewer up.
Fairness ==
  /\ WF_vars(Viewer)
  /\ WF_vars(StopEnds)
  /\ WF_vars(Server /\ HangUp)

FairSpec == Spec /\ Fairness
=============================================================================
